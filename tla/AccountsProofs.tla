--------------------------- MODULE AccountsProofs ---------------------------
(* Theorems about Accounts for any users, requests, e-mails and changes,     *)
(* however many requests change one account at the same time.                *)
EXTENDS Accounts, FiniteSetTheorems, TLAPS

----------------------------------------------------------------------------
(* Types                                                                    *)

LEMMA FormsAreTyped ==
  ASSUME TypeOK, changes < MaxChanges
  PROVE  \A form \in {NewPassword, Blank} \cup NewEmail \cup NewRole :
           /\ form.role \in UserRole \cup {None}
           /\ form.email \in Emails \cup {None}
           /\ form.password \in Nat \cup {None}
BY AccountsAssumption DEF TypeOK, NewPassword, Blank, NewEmail, NewRole

LEMMA InsertTypes ==
  ASSUME TypeOK, NEW u \in Users, NEW role \in UserRole, NEW e \in Emails,
         InsertUser(u, role, e)
  PROVE  TypeOK'
<1>1. NewUser(role, e) \in Row
  BY DEF NewUser, Row
<1> QED
  BY <1>1 DEF TypeOK, InsertUser

LEMMA LoginTypes ==
  ASSUME TypeOK, NEW r \in Requests, NEW u \in Users, Login(r, u)
  PROVE  TypeOK'
BY DEF TypeOK, Login, Request, Operation

LEMMA AcceptTypes ==
  ASSUME TypeOK, NEW r \in Requests, NEW op \in Operation, NEW caller \in Users,
         NEW u \in Users, NEW form, users[caller] # None,
         form \in {NewPassword, Blank} \cup NewEmail \cup NewRole,
         op = "update_user_me" => u = caller,
         Accept(r, op, caller, u, form)
  PROVE  TypeOK'
<1>1. /\ form.role \in UserRole \cup {None}
      /\ form.email \in Emails \cup {None}
      /\ form.password \in Nat \cup {None}
  BY FormsAreTyped DEF Accept
<1> DEFINE q == request'[r]
<1>2. request' = [request EXCEPT ![r] = q]
  BY DEF Accept, TypeOK
<1>3. q \in Request /\ (q.step # "reading" => q.copy # None)
  <2>1. users[u] \in Row \cup {None}
    BY DEF TypeOK
  <2> QED
    BY <1>1, <2>1 DEF Accept, TypeOK, Request
<1>4. changes' \in 0..MaxChanges
  BY AccountsAssumption DEF Accept, TypeOK
<1>5. UNCHANGED <<users, issued, tokens>> /\ contested' \subseteq Users
  BY DEF Accept, TypeOK
<1> HIDE DEF q
<1> QED
  BY <1>2, <1>3, <1>4, <1>5 DEF TypeOK

LEMMA TokenTypes ==
  ASSUME TypeOK, NEW r \in Requests, IssueToken(r)
  PROVE  TypeOK'
<1>1. request[r] \in Request /\ request[r].copy \in Row
  BY DEF TypeOK, IssueToken, At, Request
<1>2. TokenOf(request[r].user, request[r].copy) \in Token
  BY <1>1 DEF TokenOf, Token, Request, Row
<1> QED
  BY <1>2 DEF TypeOK, IssueToken, Respond

LEMMA ContinueTypes ==
  ASSUME TypeOK, NEW r \in Requests, request[r] # None,
         NEW step \in {"reading", "checking", "committing", "issuing"},
         NEW copy \in Row, copy # None, NEW locks \in SUBSET Users,
         Continue(r, step, copy, locks), UNCHANGED <<users, issued, tokens, changes, contested>>
  PROVE  TypeOK'
<1>1. request[r] \in Request
  BY DEF TypeOK
<1>2. [request[r] EXCEPT !.step = step, !.copy = copy, !.locks = locks] \in Request
  BY <1>1 DEF Request
<1>3. request' = [request EXCEPT ![r] =
        [request[r] EXCEPT !.step = step, !.copy = copy, !.locks = locks]]
  BY DEF Continue, TypeOK
<1> QED
  BY <1>1, <1>2, <1>3 DEF TypeOK, Request

LEMMA RespondTypes ==
  ASSUME TypeOK, NEW r \in Requests, Respond(r), UNCHANGED <<issued, tokens, changes, contested>>,
         users' \in [Users -> Row \cup {None}]
  PROVE  TypeOK'
BY DEF TypeOK, Respond

\* What an update writes is a row again.
LEMMA UpdatedIsRow ==
  ASSUME TypeOK, NEW r \in Requests, CommitUpdate(r)
  PROVE  /\ request[r] \in Request /\ request[r].copy \in Row
         /\ users[request[r].user] \in Row
         /\ Updated(request[r], users[request[r].user]) \in Row
         /\ users' = [users EXCEPT ![request[r].user] =
                        Updated(request[r], users[request[r].user])]
<1>1. /\ request[r] \in Request /\ request[r].copy \in Row
      /\ users[request[r].user] \in Row
  BY DEF TypeOK, CommitUpdate, At, Request
<1>2. Updated(request[r], users[request[r].user]) \in Row
  BY <1>1 DEF Updated, Column, Request, Row
<1> QED
  BY <1>1, <1>2 DEF CommitUpdate, TypeOK

LEMMA AdminIdsAreUsers == AdminIds \subseteq Users
BY DEF AdminIds

LEMMA ServeTypes ==
  ASSUME TypeOK, NEW r \in Requests, Serve(r)
  PROVE  TypeOK'
<1>1. CASE IssueToken(r)
  BY <1>1, TokenTypes
<1>2. CASE LoadUser(r)
  <2>1. request[r] \in Request /\ users[request[r].user] \in Row \cup {None}
    BY <1>2 DEF TypeOK, LoadUser, At, Request
  <2>2. CASE users[request[r].user] = None
    BY <1>2, <2>2, RespondTypes DEF LoadUser, TypeOK
  <2>3. CASE users[request[r].user] # None
    BY <1>2, <2>1, <2>3, ContinueTypes DEF LoadUser, At
  <2> QED
    BY <2>2, <2>3
<1>3. CASE EnsureAdminRemains(r)
  <2>1. request[r].copy \in Row /\ request[r].copy # None /\ request[r] # None
    BY <1>3 DEF TypeOK, EnsureAdminRemains, At, Request
  <2>2. \/ Respond(r)
        \/ \E locks \in SUBSET Users : Continue(r, "committing", request[r].copy, locks)
    BY <1>3, AdminIdsAreUsers DEF EnsureAdminRemains, LockAdmins
  <2> QED
    BY <1>3, <2>1, <2>2, RespondTypes, ContinueTypes DEF EnsureAdminRemains, TypeOK
<1>4. CASE CommitUpdate(r)
  <2>1. users' \in [Users -> Row \cup {None}]
    BY <1>4, UpdatedIsRow DEF TypeOK
  <2> QED
    BY <1>4, <2>1, RespondTypes DEF CommitUpdate
<1>5. CASE CommitDelete(r)
  <2>1. users' \in [Users -> Row \cup {None}]
    BY <1>5 DEF TypeOK, CommitDelete
  <2> QED
    BY <1>5, <2>1, RespondTypes DEF CommitDelete
<1>6. CASE Refuse(r)
  BY <1>6, RespondTypes DEF Refuse, TypeOK
<1> QED
  BY <1>1, <1>2, <1>3, <1>4, <1>5, <1>6 DEF Serve

\* The steps of the system, with what the handlers have established of their
\* arguments.
LEMMA Steps ==
  ASSUME TypeOK, Next
  PROVE  \/ \E u \in Users, role \in UserRole, e \in Emails : InsertUser(u, role, e)
         \/ \E r \in Requests : Serve(r)
         \/ \E r \in Requests, u \in Users : Login(r, u)
         \/ \E r \in Requests, op \in Operation \ {"login"}, t \in tokens, u \in Users,
               form \in {NewPassword, Blank} \cup NewEmail \cup NewRole :
              /\ Accepted(t) /\ t.user \in Users
              /\ op = "update_user_me" => u = t.user
              /\ op # "update_user" => form.role = None
              /\ Accept(r, op, t.user, u, form)
<1>1. \A t \in tokens : t.user \in Users
  BY DEF TypeOK, Token
<1>2. ASSUME NEW u \in Users, RegisterUser(u) \/ CreateUser(u) \/ CreateAdmin(u)
      PROVE  \E role \in UserRole, e \in Emails : InsertUser(u, role, e)
  BY <1>2, AccountsAssumption DEF RegisterUser, CreateUser, CreateAdmin, UserRole
<1>3. ASSUME NEW r \in Requests, NEW t \in tokens, ChangeOwnAccount(r, t)
      PROVE  \E form \in {NewPassword, Blank} \cup NewEmail \cup NewRole :
               Accepted(t) /\ form.role = None
                 /\ Accept(r, "update_user_me", t.user, t.user, form)
  BY <1>3 DEF ChangeOwnAccount, NewPassword, NewEmail, Blank
<1>4. ASSUME NEW r \in Requests, NEW t \in tokens, NEW u \in Users, Administer(r, t, u)
      PROVE  \E op \in {"update_user", "delete_user"},
                form \in {NewPassword, Blank} \cup NewEmail \cup NewRole :
               /\ Accepted(t) /\ Accept(r, op, t.user, u, form)
               /\ op # "update_user" => form.role = None
  BY <1>4 DEF Administer, Blank
<1> QED
  BY <1>1, <1>2, <1>3, <1>4 DEF Next, Operation

LEMMA TypeStep == TypeOK /\ [Next]_vars => TypeOK'
<1> SUFFICES ASSUME TypeOK, [Next]_vars PROVE TypeOK'
  OBVIOUS
<1>1. CASE UNCHANGED vars
  BY <1>1 DEF TypeOK, vars
<1>2. CASE Next
  BY <1>2, Steps, InsertTypes, ServeTypes, LoginTypes, AcceptTypes DEF Accepted
<1> QED
  BY <1>1, <1>2

\* Every reachable state has the declared types.
THEOREM AccountsTypeCorrect == Spec => []TypeOK
<1>1. Init => TypeOK
  <2> SUFFICES ASSUME Init PROVE TypeOK
    OBVIOUS
  <2>1. \A u \in Users, e \in Emails : NewUser("admin", e) \in Row
    BY DEF NewUser, Row, UserRole
  <2>2. users \in [Users -> Row \cup {None}]
    BY <2>1, AccountsAssumption DEF Init
  <2> QED
    BY <2>2, AccountsAssumption DEF Init, TypeOK
<1> QED
  BY <1>1, TypeStep, PTL DEF Spec


----------------------------------------------------------------------------
(* Distinct e-mails                                                         *)

LEMMA EmailsStep ==
  ASSUME TypeOK, EmailsDistinct, Next
  PROVE  EmailsDistinct'
<1>1. ASSUME NEW u \in Users, NEW role \in UserRole, NEW e \in Emails, InsertUser(u, role, e)
      PROVE  EmailsDistinct'
  <2>1. \A v \in Users : users'[v] = IF v = u THEN NewUser(role, e) ELSE users[v]
    BY <1>1 DEF InsertUser, TypeOK
  <2> QED
    BY <1>1, <2>1 DEF EmailsDistinct, InsertUser, Free, NewUser
<1>2. ASSUME NEW r \in Requests, CommitUpdate(r)
      PROVE  EmailsDistinct'
  <2> DEFINE u == request[r].user
             row == Updated(request[r], users[u])
  <2>1. /\ u \in Users
        /\ \A v \in Users : users'[v] = IF v = u THEN row ELSE users[v]
    BY <1>2, UpdatedIsRow DEF Request, TypeOK
  <2>2. Free(u, row.email)
    BY <1>2 DEF CommitUpdate
  <2> QED
    BY <2>1, <2>2 DEF EmailsDistinct, Free
<1>3. ASSUME NEW r \in Requests, CommitDelete(r)
      PROVE  EmailsDistinct'
  BY <1>3 DEF EmailsDistinct, CommitDelete, TypeOK
<1>4. ASSUME UNCHANGED users
      PROVE  EmailsDistinct'
  BY <1>4 DEF EmailsDistinct
<1>5. \/ \E u \in Users, role \in UserRole, e \in Emails : InsertUser(u, role, e)
      \/ \E r \in Requests : CommitUpdate(r) \/ CommitDelete(r)
      \/ UNCHANGED users
  BY Steps DEF Serve, IssueToken, LoadUser, EnsureAdminRemains, Refuse, Login, Accept
<1> QED
  BY <1>1, <1>2, <1>3, <1>4, <1>5

LEMMA EmailsAtFirst == Init => EmailsDistinct
BY AccountsAssumption DEF Init, EmailsDistinct, Injective, NewUser

\* No two accounts ever have the same e-mail.
THEOREM NoTwoAccountsPerEmail == Spec => []EmailsDistinct
<1>1. Init => EmailsDistinct
  BY EmailsAtFirst
<1>2. TypeOK /\ EmailsDistinct /\ [Next]_vars => EmailsDistinct'
  BY EmailsStep DEF vars, EmailsDistinct
<1> QED
  BY <1>1, <1>2, AccountsTypeCorrect, PTL DEF Spec

----------------------------------------------------------------------------
(* The invariant                                                            *)

Writer(r) == request[r] # None /\ request[r].op # "login"

Target(r) == request[r].user

\* An account is contested if two requests at once are to change it.
ContestedInv ==
  \A r, q \in Requests :
    Writer(r) /\ Writer(q) /\ Target(r) = Target(q) /\ Target(r) \notin contested => r = q

IdsInv == \A u \in Users : users[u] # None => u \in issued

\* What a request of this kind does next.
StepInv ==
  \A r \in Requests : request[r] # None =>
    CASE request[r].op = "login"          -> request[r].step = "issuing"
      [] request[r].op = "update_user_me" -> /\ request[r].step = "committing"
                                             /\ request[r].role = None
      [] OTHER -> /\ request[r].step \in {"reading", "checking", "committing"}
                  /\ request[r].op = "delete_user" => request[r].role = None

\* If nobody else writes the account, the copy is the row.
CopyInv ==
  \A r \in Requests :
    Writer(r) /\ request[r].step # "reading" /\ Target(r) \notin contested =>
      users[Target(r)] = request[r].copy

\* The request may take an admin's role, or the admin, away when it commits.
Removes(r) ==
  /\ Writer(r)
  /\ request[r].op # "update_user_me"
  /\ request[r].step = "committing"
  /\ request[r].copy.role = "admin"
  /\ request[r].role # "admin"

LockInv ==
  \A r \in Requests : Removes(r) =>
    /\ request[r].locks \subseteq AdminIds
    /\ \E v \in request[r].locks : v # Target(r)

\* A version that has been given out for an account that is not contested
\* belongs to one password and one role.
Dated(u, row_version, password, role) ==
  /\ u \in issued
  /\ users[u] # None /\ u \notin contested =>
       /\ row_version <= users[u].token_version
       /\ row_version = users[u].token_version =>
            password = users[u].password /\ role = users[u].role

TokenInv == \A t \in tokens : Dated(t.user, t.ver, t.password, t.role)

LoginInv ==
  \A r \in Requests : request[r] # None /\ request[r].op = "login" =>
    Dated(Target(r), request[r].copy.token_version, request[r].copy.password,
          request[r].copy.role)

Inv ==
  /\ TypeOK /\ ContestedInv /\ IdsInv /\ StepInv /\ CopyInv /\ LockInv
  /\ TokenInv /\ LoginInv

LEMMA InvInit ==
  ASSUME Init, TypeOK
  PROVE  Inv
<1>1. \A u \in Users : users[u] # None => u \in Admins
  BY DEF Init
<1> QED
  BY <1>1, AccountsAssumption DEF Init, Inv, ContestedInv, IdsInv, StepInv, CopyInv, LockInv,
     TokenInv, LoginInv, Writer, Removes

\* Who is accepted for an account that does not become contested is alone.
LEMMA AcceptIsAlone ==
  ASSUME NEW r \in Requests, NEW op, NEW caller, NEW u \in Users, NEW form,
         Accept(r, op, caller, u, form), u \notin contested'
  PROVE  \A q \in Requests : Writer(q) => Target(q) # u
<1>1. WritersOf(u) = {}
  BY DEF Accept
<1> QED
  BY <1>1 DEF WritersOf, Writer, Target

\* More than one admin means another one.
LEMMA AnotherAdmin ==
  ASSUME TypeOK, NEW u, ~(Cardinality(AdminIds) <= 1)
  PROVE  \E v \in AdminIds : v # u
<1>1. SUFFICES ASSUME AdminIds = {} \/ AdminIds = {u} PROVE FALSE
  OBVIOUS
<1>2. Cardinality({}) = 0 /\ Cardinality({u}) = 1
  BY FS_EmptySet, FS_Singleton
<1> QED
  BY <1>1, <1>2

\* A row that changes was not locked by anybody else.
LEMMA OthersKeepLocks ==
  ASSUME Inv, NEW r \in Requests, NEW u \in Users,
         \A v \in Users \ {u} : users'[v] = users[v], ~Locked(r, u),
         NEW q \in Requests \ {r}, request'[q] = request[q], Removes(q)
  PROVE  request[q].locks \subseteq AdminIds' /\ Removes(q)' /\ \E v \in request'[q].locks : v # Target(q)'
BY DEF Inv, LockInv, Locked, AdminIds, Removes, Writer, Target, TypeOK, Request

LEMMA DatedStays ==
  ASSUME TypeOK, IdsInv, NEW u \in Users, NEW n \in Nat, NEW p \in Nat, NEW ro \in UserRole,
         Dated(u, n, p, ro), issued \subseteq issued', contested \subseteq contested',
         \/ u \in contested
         \/ users'[u] = users[u]
         \/ users'[u] = None
         \/ /\ users[u] # None
            /\ users'[u].token_version > users[u].token_version
         \/ /\ users[u] # None
            /\ users'[u].token_version = users[u].token_version
            /\ users'[u].password = users[u].password
            /\ users'[u].role = users[u].role,
         users'[u] \in Row \cup {None}
  PROVE  Dated(u, n, p, ro)'
<1>1. users[u] # None => users[u].token_version \in Nat
  BY DEF TypeOK, Row
<1>2. users'[u] # None => users'[u].token_version \in Nat
  BY DEF Row
<1> QED
  BY <1>1, <1>2 DEF Dated

\* A step that changes no account keeps what is known of its tokens.
LEMMA DatedKept ==
  ASSUME UNCHANGED <<users, issued>>, contested \subseteq contested'
  PROVE  \A u, n, p, ro : Dated(u, n, p, ro) => Dated(u, n, p, ro)'
BY DEF Dated

\* A loaded copy of an account that is not contested is its row.
LEMMA CopiesExist ==
  ASSUME Inv, NEW r \in Requests, Writer(r), request[r].step # "reading"
  PROVE  /\ Target(r) \in Users /\ request[r].copy \in Row
         /\ Target(r) \notin contested =>
              /\ Target(r) \in issued
              /\ users[Target(r)] = request[r].copy
              /\ users[Target(r)] # None
<1>1. Target(r) \in Users /\ request[r].copy \in Row
  BY DEF Inv, TypeOK, Request, Writer, Target
<1>2. request[r].copy # None
  BY <1>1, AccountsAssumption
<1> QED
  BY <1>1, <1>2 DEF Inv, CopyInv, IdsInv

LEMMA InsertKeepsInv ==
  ASSUME Inv, TypeOK', NEW u \in Users, NEW role \in UserRole, NEW e \in Emails,
         InsertUser(u, role, e)
  PROVE  Inv'
<1>1. /\ u \notin issued /\ users[u] = None /\ u \in issued'
      /\ issued \subseteq issued'
      /\ \A v \in Users \ {u} : users'[v] = users[v]
      /\ UNCHANGED <<tokens, request, changes, contested>>
  BY DEF InsertUser, Fresh, Inv, IdsInv, TypeOK
<1>2. AdminIds \subseteq AdminIds'
  BY <1>1 DEF AdminIds
<1>3. ContestedInv' /\ StepInv'
  BY <1>1 DEF Inv, ContestedInv, StepInv, Writer, Target
<1>4. IdsInv'
  BY <1>1 DEF Inv, IdsInv
<1>5. CopyInv'
  BY <1>1, CopiesExist DEF CopyInv, Writer, Target
<1>6. LockInv'
  BY <1>1, <1>2 DEF Inv, LockInv, Removes, Writer, Target
<1>7. TokenInv'
  BY <1>1 DEF Inv, TokenInv, Dated, TypeOK, Token
<1>8. LoginInv'
  BY <1>1 DEF Inv, LoginInv, Dated, TypeOK, Request, Target
<1> QED
  BY <1>3, <1>4, <1>5, <1>6, <1>7, <1>8 DEF Inv

LEMMA LoginKeepsInv ==
  ASSUME Inv, TypeOK', NEW r \in Requests, NEW u \in Users, Login(r, u)
  PROVE  Inv'
<1>1. /\ request[r] = None /\ users[u] # None
      /\ \A q \in Requests \ {r} : request'[q] = request[q]
      /\ request'[r].op = "login" /\ request'[r].user = u
      /\ request'[r].step = "issuing" /\ request'[r].copy = users[u]
      /\ UNCHANGED <<users, issued, tokens, changes, contested>>
  BY DEF Login, Inv, TypeOK
<1>2. u \in issued
  BY <1>1 DEF Inv, IdsInv
<1>3. AdminIds' = AdminIds /\ \A v, n, p, ro : Dated(v, n, p, ro)' <=> Dated(v, n, p, ro)
  BY <1>1 DEF AdminIds, Dated
<1>4. ContestedInv' /\ StepInv' /\ CopyInv' /\ LockInv'
  BY <1>1, <1>3 DEF Inv, ContestedInv, StepInv, CopyInv, LockInv, Removes, Writer, Target
<1>5. LoginInv'
  <2>1. Dated(u, users[u].token_version, users[u].password, users[u].role)
    BY <1>1, <1>2 DEF Dated, Inv, TypeOK, Row
  <2> QED
    BY <1>1, <1>3, <2>1 DEF Inv, LoginInv, Target
<1>6. IdsInv' /\ TokenInv'
  BY <1>1, <1>3 DEF Inv, IdsInv, TokenInv
<1> QED
  BY <1>4, <1>5, <1>6 DEF Inv

LEMMA AcceptKeepsInv ==
  ASSUME Inv, TypeOK', NEW r \in Requests, NEW op \in Operation \ {"login"},
         NEW t \in tokens, NEW u \in Users, NEW form,
         Accepted(t), op = "update_user_me" => u = t.user,
         op # "update_user" => form.role = None,
         Accept(r, op, t.user, u, form)
  PROVE  Inv'
<1>1. /\ request[r] = None
      /\ \A q \in Requests \ {r} : request'[q] = request[q]
      /\ request'[r].op = op /\ request'[r].user = u /\ request'[r].role = form.role
      /\ request'[r].step = IF op = "update_user_me" THEN "committing"
                            ELSE IF u = t.user THEN "checking" ELSE "reading"
      /\ request'[r].copy = IF u = t.user THEN users[u] ELSE None
      /\ UNCHANGED <<users, issued, tokens>> /\ contested \subseteq contested'
  BY DEF Accept, Inv, TypeOK
<1>2. u \notin contested' => \A q \in Requests : Writer(q) => Target(q) # u
  BY AcceptIsAlone
<1>3. AdminIds' = AdminIds /\ \A v, n, p, ro : Dated(v, n, p, ro) => Dated(v, n, p, ro)'
  BY <1>1, DatedKept DEF AdminIds
<1>4. ContestedInv'
  BY <1>1, <1>2 DEF Inv, ContestedInv, Writer, Target
<1>5. StepInv'
  BY <1>1 DEF Inv, StepInv, Operation
<1>6. CopyInv'
  BY <1>1 DEF Inv, CopyInv, Writer, Target
<1>7. ~Removes(r)'
  BY <1>1 DEF Removes
<1>8. LockInv'
  BY <1>1, <1>3, <1>7 DEF Inv, LockInv, Removes, Writer, Target
<1>9. LoginInv'
  BY <1>1, <1>3 DEF Inv, LoginInv, Target
<1>10. IdsInv' /\ TokenInv'
  BY <1>1, <1>3 DEF Inv, IdsInv, TokenInv
<1> QED
  BY <1>4, <1>5, <1>6, <1>8, <1>9, <1>10 DEF Inv

\* The end of a request that leaves the accounts as they are.
LEMMA RespondKeepsInv ==
  ASSUME Inv, TypeOK', NEW r \in Requests, Respond(r), UNCHANGED <<users, issued, contested>>, TokenInv'
  PROVE  Inv'
<1>1. request'[r] = None /\ \A q \in Requests \ {r} : request'[q] = request[q]
  BY DEF Respond, Inv, TypeOK
<1>2. AdminIds' = AdminIds /\ \A v, n, p, ro : Dated(v, n, p, ro)' <=> Dated(v, n, p, ro)
  BY DEF AdminIds, Dated
<1>3. ContestedInv' /\ StepInv' /\ CopyInv' /\ LockInv' /\ LoginInv'
  BY <1>1, <1>2 DEF Inv, ContestedInv, StepInv, CopyInv, LockInv, LoginInv, Removes, Writer, Target
<1>4. IdsInv'
  BY DEF Inv, IdsInv
<1> QED
  BY <1>3, <1>4 DEF Inv

LEMMA TokenKeepsInv ==
  ASSUME Inv, TypeOK', NEW r \in Requests, IssueToken(r)
  PROVE  Inv'
<1>1. Dated(Target(r), request[r].copy.token_version, request[r].copy.password,
            request[r].copy.role)
  BY DEF Inv, LoginInv, IssueToken, At
<1>2. UNCHANGED <<users, issued, contested>> /\ Respond(r)
  BY DEF IssueToken
<1>3. \A v, n, p, ro : Dated(v, n, p, ro)' <=> Dated(v, n, p, ro)
  BY <1>2 DEF Dated
<1>4. TokenInv'
  BY <1>1, <1>3 DEF Inv, TokenInv, IssueToken, TokenOf, Target
<1> QED
  BY <1>2, <1>4, RespondKeepsInv


LEMMA LoadKeepsInv ==
  ASSUME Inv, TypeOK', NEW r \in Requests, LoadUser(r)
  PROVE  Inv'
<1>1. CASE users[request[r].user] = None
  <2>1. TokenInv'
    BY DEF Inv, TokenInv, Dated, LoadUser
  <2> QED
    BY <1>1, <2>1, RespondKeepsInv DEF LoadUser
<1>2. CASE users[request[r].user] # None
  <2>1. /\ request[r] # None /\ request[r].op \in {"update_user", "delete_user"}
        /\ \A q \in Requests \ {r} : request'[q] = request[q]
        /\ request'[r].op = request[r].op /\ request'[r].user = request[r].user
        /\ request'[r].role = request[r].role
        /\ request'[r].step = "checking" /\ request'[r].copy = users[request[r].user]
        /\ UNCHANGED <<users, issued, tokens, contested>>
    BY <1>2 DEF LoadUser, At, Continue, Inv, TypeOK, Request
  <2>2. AdminIds' = AdminIds /\ \A v, n, p, ro : Dated(v, n, p, ro)' <=> Dated(v, n, p, ro)
    BY <2>1 DEF AdminIds, Dated
  <2>3. ContestedInv' /\ StepInv' /\ CopyInv' /\ LockInv' /\ LoginInv'
    BY <2>1, <2>2 DEF Inv, ContestedInv, StepInv, CopyInv, LockInv, LoginInv, Removes, Writer, Target
  <2>4. IdsInv' /\ TokenInv'
    BY <2>1, <2>2 DEF Inv, IdsInv, TokenInv
  <2> QED
    BY <2>3, <2>4 DEF Inv
<1> QED
  BY <1>1, <1>2

LEMMA EnsureKeepsInv ==
  ASSUME Inv, TypeOK', NEW r \in Requests, EnsureAdminRemains(r)
  PROVE  Inv'
<1>1. /\ request[r] # None /\ request[r].op \in {"update_user", "delete_user"}
      /\ request[r].step = "checking" /\ UNCHANGED <<users, issued, tokens, changes, contested>>
  BY DEF EnsureAdminRemains, At
<1>2. CASE Respond(r)
  <2>1. TokenInv'
    BY <1>1 DEF Inv, TokenInv, Dated
  <2> QED
    BY <1>1, <1>2, <2>1, RespondKeepsInv
<1>3. ASSUME NEW locks \in SUBSET Users, Continue(r, "committing", request[r].copy, locks),
             \/ request[r].copy.role # "admin" \/ request[r].role = "admin"
             \/ locks = AdminIds /\ ~(Cardinality(AdminIds) <= 1)
      PROVE  Inv'
  <2>1. /\ \A q \in Requests \ {r} : request'[q] = request[q]
        /\ request'[r].op = request[r].op /\ request'[r].user = request[r].user
        /\ request'[r].role = request[r].role
        /\ request'[r].step = "committing" /\ request'[r].copy = request[r].copy
        /\ request'[r].locks = locks
    BY <1>1, <1>3 DEF Continue, Inv, TypeOK, Request
  <2>2. AdminIds' = AdminIds /\ \A v, n, p, ro : Dated(v, n, p, ro)' <=> Dated(v, n, p, ro)
    BY <1>1 DEF AdminIds, Dated
  <2>3. ContestedInv' /\ StepInv' /\ CopyInv' /\ LoginInv'
    BY <1>1, <2>1, <2>2 DEF Inv, ContestedInv, StepInv, CopyInv, LoginInv, Writer, Target
  <2>4. ASSUME Removes(r)'
        PROVE  locks \subseteq AdminIds /\ \E v \in locks : v # Target(r)
    <3>1. request[r].copy.role = "admin" /\ request[r].role # "admin"
      BY <2>1, <2>4 DEF Removes
    <3> QED
      BY <1>3, <3>1, AnotherAdmin DEF Inv
  <2>5. LockInv'
    BY <2>1, <2>2, <2>4 DEF Inv, LockInv, Removes, Writer, Target
  <2>6. IdsInv' /\ TokenInv'
    BY <1>1, <2>2 DEF Inv, IdsInv, TokenInv
  <2> QED
    BY <2>3, <2>5, <2>6 DEF Inv
<1> QED
  BY <1>2, <1>3, AdminIdsAreUsers DEF EnsureAdminRemains, LockAdmins

\* A request commits: what that does to the row of its account.
LEMMA CommitKeepsInv ==
  ASSUME Inv, TypeOK', NEW r \in Requests, Writer(r), request[r].step = "committing",
         Respond(r), UNCHANGED <<issued, tokens, changes, contested>>,
         ~Locked(r, Target(r)), users[Target(r)] # None,
         \A v \in Users \ {Target(r)} : users'[v] = users[v],
         \/ Target(r) \in contested
         \/ users'[Target(r)] = None
         \/ users'[Target(r)].token_version > users[Target(r)].token_version
         \/ /\ users'[Target(r)].token_version = users[Target(r)].token_version
            /\ users'[Target(r)].password = users[Target(r)].password
            /\ users'[Target(r)].role = users[Target(r)].role
  PROVE  Inv'
<1>1. request'[r] = None /\ \A q \in Requests \ {r} : request'[q] = request[q]
  BY DEF Respond, Inv, TypeOK
<1>2. /\ Target(r) \in Users /\ Target(r) \in issued
  BY CopiesExist DEF Inv, IdsInv
<1>3. ASSUME NEW u \in Users, NEW n \in Nat, NEW p \in Nat, NEW ro \in UserRole,
             Dated(u, n, p, ro)
      PROVE  Dated(u, n, p, ro)'
  <2>1. users'[u] \in Row \cup {None}
    BY DEF TypeOK
  <2>2. CASE u = Target(r)
    BY <1>2, <1>3, <2>1, <2>2, DatedStays DEF Inv
  <2>3. CASE u # Target(r)
    BY <1>3, <2>1, <2>3, DatedStays DEF Inv
  <2> QED
    BY <2>2, <2>3
<1>4. ContestedInv' /\ StepInv'
  BY <1>1 DEF Inv, ContestedInv, StepInv, Writer, Target
<1>5. IdsInv'
  BY <1>2 DEF Inv, IdsInv
<1>6. CopyInv'
  <2>1. ASSUME NEW q \in Requests, Writer(q)', request'[q].step # "reading",
               Target(q)' \notin contested'
        PROVE  users'[Target(q)'] = request'[q].copy
    <3>1. q # r /\ Writer(q) /\ request'[q] = request[q] /\ request[q].step # "reading"
      BY <1>1, <2>1 DEF Writer
    <3>2. Target(q)' = Target(q) /\ Target(q) \notin contested
      BY <2>1, <3>1 DEF Target
    <3>3. Target(q) # Target(r) /\ Target(q) \in Users
      BY <3>1, <3>2, CopiesExist DEF Inv, ContestedInv
    <3> QED
      BY <3>1, <3>2, <3>3, CopiesExist
  <2> QED
    BY <2>1 DEF CopyInv
<1>7. LockInv'
  <2>1. ASSUME NEW q \in Requests, Removes(q)'
        PROVE  request'[q].locks \subseteq AdminIds' /\ \E v \in request'[q].locks : v # Target(q)'
    <3>1. q # r /\ request'[q] = request[q] /\ Removes(q)
      BY <1>1, <2>1 DEF Removes, Writer
    <3> QED
      BY <1>2, <3>1, OthersKeepLocks
  <2> QED
    BY <2>1 DEF LockInv
<1>8. TokenInv'
  BY <1>3 DEF Inv, TokenInv, TypeOK, Token
<1>9. LoginInv'
  <2>1. ASSUME NEW q \in Requests, request'[q] # None, request'[q].op = "login"
        PROVE  Dated(request[q].user, request[q].copy.token_version,
                     request[q].copy.password, request[q].copy.role)'
               /\ request'[q] = request[q]
    <3>1. request'[q] = request[q] /\ request[q] \in Request
      BY <1>1, <2>1 DEF Inv, TypeOK
    <3>2. request[q].step = "issuing"
      BY <2>1, <3>1 DEF Inv, StepInv
    <3>3. request[q].copy \in Row
      BY <2>1, <3>1, <3>2 DEF Inv, TypeOK, Request
    <3>4. Dated(request[q].user, request[q].copy.token_version,
                request[q].copy.password, request[q].copy.role)
      BY <2>1, <3>1 DEF Inv, LoginInv, Target
    <3> QED
      BY <1>3, <3>1, <3>3, <3>4 DEF Request, Row
  <2> QED
    BY <2>1 DEF LoginInv, Target
<1> QED
  BY <1>4, <1>5, <1>6, <1>7, <1>8, <1>9 DEF Inv

LEMMA UpdateKeepsInv ==
  ASSUME Inv, TypeOK', NEW r \in Requests, CommitUpdate(r)
  PROVE  Inv'
<1> DEFINE q == request[r]
           row == Updated(q, users[q.user])
<1>1. /\ q.op \in {"update_user_me", "update_user"} /\ q.step = "committing" /\ q # None
      /\ ~Locked(r, q.user)
  BY DEF CommitUpdate, At
<1>2. /\ q \in Request /\ q.copy \in Row /\ users[q.user] \in Row /\ row \in Row
      /\ users' = [users EXCEPT ![q.user] = row]
  BY UpdatedIsRow DEF Inv
<1>3. /\ Writer(r) /\ users[q.user] # None
      /\ q.user \notin contested => users[q.user] = q.copy
  BY <1>1, CopiesExist DEF Writer, Target, CommitUpdate
<1>4. /\ users'[q.user] = row
      /\ \A v \in Users \ {q.user} : users'[v] = users[v]
  BY <1>2 DEF Inv, TypeOK, Request
<1>5. \/ q.user \in contested
      \/ row.token_version > users[q.user].token_version
      \/ /\ row.token_version = users[q.user].token_version
         /\ row.password = users[q.user].password
         /\ row.role = users[q.user].role
  BY <1>2, <1>3 DEF Updated, Column, Row, Invalidates
<1>6. Respond(r) /\ UNCHANGED <<issued, tokens, changes, contested>>
  BY DEF CommitUpdate
<1> HIDE DEF row
<1> QED
  BY <1>1, <1>3, <1>4, <1>5, <1>6, CommitKeepsInv DEF Target

LEMMA DeleteKeepsInv ==
  ASSUME Inv, TypeOK', NEW r \in Requests, CommitDelete(r)
  PROVE  Inv'
<1>1. /\ request[r] # None /\ request[r].op = "delete_user" /\ request[r].step = "committing"
      /\ ~Locked(r, Target(r)) /\ Respond(r) /\ UNCHANGED <<issued, tokens, changes, contested>>
  BY DEF CommitDelete, At, Target
<1>2. Writer(r)
  BY <1>1 DEF Writer
<1>3. /\ users'[Target(r)] = None
      /\ \A v \in Users \ {Target(r)} : users'[v] = users[v]
  BY <1>2, CopiesExist, <1>1 DEF CommitDelete, Target, Inv, TypeOK
<1>4. CASE users[Target(r)] = None
  <2>1. users' = users
    BY <1>4 DEF CommitDelete, Target, Inv, TypeOK
  <2>2. TokenInv'
    BY <1>1, <2>1 DEF Inv, TokenInv, Dated
  <2> QED
    BY <1>1, <2>1, <2>2, RespondKeepsInv
<1>5. CASE users[Target(r)] # None
  BY <1>1, <1>2, <1>3, <1>5, CommitKeepsInv
<1> QED
  BY <1>4, <1>5

LEMMA InvStep ==
  ASSUME Inv, TypeOK', [Next]_vars
  PROVE  Inv'
<1>1. CASE UNCHANGED vars
  BY <1>1 DEF vars, Inv, TypeOK, ContestedInv, IdsInv, StepInv, CopyInv, LockInv, TokenInv,
     LoginInv, AdminIds, Dated, Writer, Removes, Target
<1>2. CASE Next
  <2>1. ASSUME NEW r \in Requests, Serve(r)
        PROVE  Inv'
    <3>1. CASE Refuse(r)
      <4>1. TokenInv'
        BY <3>1 DEF Refuse, Inv, TokenInv, Dated
      <4> QED
        BY <3>1, <4>1, RespondKeepsInv DEF Refuse
    <3> QED
      BY <2>1, <3>1, TokenKeepsInv, LoadKeepsInv, EnsureKeepsInv, UpdateKeepsInv,
         DeleteKeepsInv DEF Serve
  <2> QED
    BY <1>2, <2>1, Steps, InsertKeepsInv, LoginKeepsInv, AcceptKeepsInv DEF Inv
<1> QED
  BY <1>1, <1>2

\* The inductive invariant: whoever changes an account that is not contested
\* has it as it is, and whoever takes away an admin it knows of has locked
\* another.
THEOREM AccountsInvCorrect == Spec => []Inv
<1>1. Init /\ TypeOK => Inv
  BY InvInit
<1>2. Inv /\ TypeOK' /\ [Next]_vars => Inv'
  BY InvStep
<1> QED
  BY <1>1, <1>2, AccountsTypeCorrect, PTL DEF Spec

----------------------------------------------------------------------------
(* What the steps do to the rows                                            *)

\* A row of an account that had an id is changed by a commit only.
LEMMA RowSteps ==
  ASSUME Inv, [Next]_vars, NEW u \in Users, u \in issued, users'[u] # users[u]
  PROVE  \E r \in Requests : request[r].user = u /\ (CommitUpdate(r) \/ CommitDelete(r))
<1>1. ASSUME NEW v \in Users, NEW role \in UserRole, NEW e \in Emails, InsertUser(v, role, e)
      PROVE  users'[u] = users[u]
  BY <1>1 DEF InsertUser, Fresh, Inv, TypeOK
<1>2. ASSUME NEW r \in Requests, CommitUpdate(r) \/ CommitDelete(r)
      PROVE  request[r].user = u
  BY <1>2 DEF CommitUpdate, CommitDelete, Inv, TypeOK
<1>3. \/ \E v \in Users, role \in UserRole, e \in Emails : InsertUser(v, role, e)
      \/ \E r \in Requests : CommitUpdate(r) \/ CommitDelete(r)
      \/ UNCHANGED users
  BY Steps DEF Inv, Serve, IssueToken, LoadUser, EnsureAdminRemains, Refuse, Login, Accept, vars
<1> QED
  BY <1>1, <1>2, <1>3

LEMMA DeletedIsGone ==
  ASSUME TypeOK, NEW r \in Requests, CommitDelete(r)
  PROVE  users'[request[r].user] = None
BY DEF TypeOK, CommitDelete, At, Request

LEMMA UpdateWrites ==
  ASSUME TypeOK, NEW r \in Requests, CommitUpdate(r), NEW u, u = request[r].user
  PROVE  /\ users[u] \in Row /\ users[u] # None /\ users'[u] \in Row
         /\ request[r].copy \in Row /\ request'[r] = None
         /\ users'[u] = Updated(request[r], users[u])
         /\ request[r].op \in {"update_user_me", "update_user"}
         /\ request[r] # None /\ request[r].step = "committing"
BY UpdatedIsRow DEF TypeOK, CommitUpdate, At, Respond, Request

----------------------------------------------------------------------------
(* The last admin                                                           *)

\* A commit that leaves no admin is of a request that knew of none to take away.
LEMMA UncheckedRemoval ==
  ASSUME Inv, NEW r \in Requests, CommitUpdate(r) \/ CommitDelete(r),
         \A v \in Users \ {request[r].user} : users'[v] = users[v],
         AdminIds # {}, AdminIds' = {}
  PROVE  /\ At(r, {"update_user", "delete_user"}, "committing")
         /\ request'[r] = None
         /\ request[r].user \in AdminIds
         /\ request[r].copy.role # "admin"
<1> DEFINE u == request[r].user
<1>1. /\ request[r] # None /\ request[r].step = "committing" /\ request'[r] = None
      /\ Writer(r) /\ Target(r) = u
  BY DEF CommitUpdate, CommitDelete, At, Respond, Inv, TypeOK, Writer, Target
<1>2. \A v \in AdminIds : v = u
  BY DEF AdminIds
<1>3. u \in AdminIds
  BY <1>2
<1>4. ~Removes(r)
  BY <1>1, <1>2 DEF Inv, LockInv
<1>5. CASE CommitDelete(r)
  <2>1. request[r].op = "delete_user" /\ request[r].role # "admin"
    BY <1>1, <1>5, AccountsAssumption DEF CommitDelete, At, Inv, StepInv, UserRole
  <2> QED
    BY <1>1, <1>3, <1>4, <2>1 DEF Removes, At
<1>6. CASE CommitUpdate(r)
  <2>1. /\ users[u] \in Row /\ users'[u] \in Row
        /\ users'[u] = Updated(request[r], users[u])
        /\ request[r].op \in {"update_user_me", "update_user"}
    BY <1>6, UpdateWrites DEF Inv
  <2>2. users[u].role = "admin" /\ users'[u].role # "admin"
    BY <1>3, <2>1, AccountsAssumption DEF AdminIds
  <2>3. request[r].role # None /\ request[r].role # "admin"
    BY <2>1, <2>2 DEF Updated, Column
  <2>4. request[r].op = "update_user"
    BY <1>1, <2>1, <2>3 DEF Inv, StepInv
  <2> QED
    BY <1>1, <1>3, <1>4, <2>3, <2>4 DEF Removes, At
<1> QED
  BY <1>5, <1>6

\* Whoever takes away the last admin had loaded that account before it was
\* promoted, however many requests demote and delete admins at once.
THEOREM CheckedRemovalsAreSafe == Spec => CheckedRemovalsLeaveAnAdmin
<1>1. ASSUME Inv, [Next]_vars, AdminIds # {}, AdminIds' = {}
      PROVE  \E r \in Requests :
               /\ At(r, {"update_user", "delete_user"}, "committing")
               /\ request'[r] = None
               /\ request[r].user \in AdminIds
               /\ request[r].copy.role # "admin"
  <2>1. PICK u \in AdminIds : TRUE
    BY <1>1
  <2>2. u \in Users /\ u \in issued /\ users'[u] # users[u]
    BY <1>1, <2>1 DEF AdminIds, Inv, IdsInv
  <2>3. PICK r \in Requests : request[r].user = u /\ (CommitUpdate(r) \/ CommitDelete(r))
    BY <1>1, <2>2, RowSteps
  <2>4. \A v \in Users \ {request[r].user} : users'[v] = users[v]
    BY <1>1, <2>3 DEF CommitUpdate, CommitDelete, Inv, TypeOK
  <2> QED
    BY <1>1, <2>3, <2>4, UncheckedRemoval
<1>2. Inv /\ [Next]_vars =>
        [AdminIds # {} /\ AdminIds' = {} =>
           \E r \in Requests :
             /\ At(r, {"update_user", "delete_user"}, "committing")
             /\ request'[r] = None
             /\ request[r].user \in AdminIds
             /\ request[r].copy.role # "admin"]_vars
  BY <1>1
<1> QED
  BY <1>2, AccountsInvCorrect, PTL DEF Spec, CheckedRemovalsLeaveAnAdmin

----------------------------------------------------------------------------
(* Tokens and credentials                                                   *)

LEMMA HeldTokens ==
  ASSUME Inv, NEW t \in Held
  PROVE  t \in Token /\ t.user \in Users /\ t.user \in issued /\ t.ver \in Nat
<1>1. CASE t \in tokens
  BY <1>1 DEF Inv, TypeOK, Token, TokenInv, Dated
<1>2. ASSUME NEW r \in Requests, At(r, {"login"}, "issuing"),
             t = TokenOf(request[r].user, request[r].copy)
      PROVE  t \in Token /\ t.user \in issued
  <2>1. request[r] \in Request /\ request[r].copy \in Row /\ request[r].user \in issued
    BY <1>2 DEF Inv, TypeOK, At, Request, LoginInv, Dated, Target
  <2> QED
    BY <1>2, <2>1 DEF TokenOf, Token, Request, Row
<1> QED
  BY <1>1, <1>2 DEF Held, Token

\* No step makes up a token but a login, from the row as it is.
LEMMA HeldSteps ==
  ASSUME Inv, [Next]_vars, NEW t \in Held'
  PROVE  \/ t \in Held
         \/ /\ UNCHANGED users
            /\ \E u \in Users : users[u] # None /\ t = TokenOf(u, users[u])
<1>1. ASSUME tokens' \subseteq Held,
             \A q \in Requests : At(q, {"login"}, "issuing")' => request'[q] = request[q]
      PROVE  t \in Held
  BY <1>1 DEF Held, At
<1>2. CASE UNCHANGED <<tokens, request>>
  BY <1>2 DEF Held, At
<1>3. ASSUME NEW r \in Requests, Serve(r)
      PROVE  t \in Held
  <2>1. \A q \in Requests \ {r} : request'[q] = request[q]
    BY <1>3 DEF Serve, IssueToken, LoadUser, EnsureAdminRemains, LockAdmins, CommitUpdate,
       CommitDelete, Refuse, Respond, Continue, Inv, TypeOK
  <2>2. ~At(r, {"login"}, "issuing")'
    <3>1. CASE Respond(r)
      BY <3>1 DEF Respond, At, Inv, TypeOK
    <3>2. ASSUME NEW step \in {"checking", "committing"}, NEW copy, NEW locks,
                 Continue(r, step, copy, locks), request[r] # None
          PROVE  ~At(r, {"login"}, "issuing")'
      BY <3>2 DEF Continue, At, Inv, TypeOK, Request
    <3> QED
      BY <1>3, <3>1, <3>2 DEF Serve, IssueToken, LoadUser, EnsureAdminRemains, LockAdmins,
         CommitUpdate, CommitDelete, Refuse, At
  <2>3. tokens' \subseteq Held
    BY <1>3 DEF Serve, IssueToken, LoadUser, EnsureAdminRemains, CommitUpdate,
       CommitDelete, Refuse, Held
  <2> QED
    BY <1>1, <2>1, <2>2, <2>3
<1>4. ASSUME NEW r \in Requests, NEW u \in Users, Login(r, u), t \notin Held
      PROVE  UNCHANGED users /\ users[u] # None /\ t = TokenOf(u, users[u])
  <2>1. /\ users[u] # None /\ UNCHANGED <<users, tokens>>
        /\ \A q \in Requests \ {r} : request'[q] = request[q]
        /\ request'[r].user = u /\ request'[r].copy = users[u]
    BY <1>4 DEF Login, Inv, TypeOK
  <2> QED
    BY <1>4, <2>1 DEF Held, At
<1>5. ASSUME NEW r \in Requests, NEW op \in Operation \ {"login"}, NEW caller,
             NEW u \in Users, NEW form, Accept(r, op, caller, u, form)
      PROVE  t \in Held
  <2>1. /\ UNCHANGED tokens
        /\ \A q \in Requests \ {r} : request'[q] = request[q]
        /\ request'[r].op = op
    BY <1>5 DEF Accept, Inv, TypeOK
  <2> QED
    BY <1>1, <2>1 DEF At, Held
<1>6. \/ \E r \in Requests : Serve(r)
      \/ \E r \in Requests, u \in Users : Login(r, u)
      \/ \E r \in Requests, op \in Operation \ {"login"}, x \in tokens, u \in Users,
            form \in {NewPassword, Blank} \cup NewEmail \cup NewRole :
           Accept(r, op, x.user, u, form)
      \/ UNCHANGED <<tokens, request>>
  BY Steps DEF Inv, InsertUser, vars
<1> QED
  BY <1>2, <1>3, <1>4, <1>5, <1>6

\* A change of the credentials that is not overtaken raises the version.
LEMMA ChangeOfCredentials ==
  ASSUME Inv, NEW r \in Requests, CommitUpdate(r), NEW u, u = request[r].user, ~Overtaken(u)
  PROVE  \/ /\ users'[u].token_version = users[u].token_version
            /\ users'[u].password = users[u].password
            /\ users'[u].role = users[u].role
         \/ users'[u].token_version > users[u].token_version
<1>1. /\ users[u] \in Row /\ request[r].copy \in Row
      /\ users'[u] = Updated(request[r], users[u])
  BY UpdateWrites DEF Inv
<1>2. CASE Invalidates(request[r])
  <2>1. ~(request[r].copy.token_version < users[u].token_version)
    BY <1>2 DEF Overtaken
  <2>2. users'[u].token_version = request[r].copy.token_version + 1
    BY <1>1, <1>2 DEF Updated
  <2> QED
    BY <1>1, <2>1, <2>2 DEF Row
<1>3. CASE ~Invalidates(request[r])
  BY <1>1, <1>3 DEF Updated, Column, Invalidates
<1> QED
  BY <1>2, <1>3

\* A token becomes good for other credentials than it was issued under, or
\* gets ahead of its account, only through an overtaken change.
THEOREM TokensDie == Spec => TokensDieUnlessOvertaken
<1>1. ASSUME Inv, TypeOK', [Next]_vars, NEW t \in Held', Unsound(t)',
             ~(t \in Held /\ Unsound(t)), ~Overtaken(t.user)
      PROVE  FALSE
  <2>1. CASE t \notin Held
    <3>1. PICK u \in Users : users[u] # None /\ t = TokenOf(u, users[u]) /\ UNCHANGED users
      BY <1>1, <2>1, HeldSteps
    <3>2. users[u].token_version \in Nat
      BY <1>1, <3>1 DEF Inv, TypeOK, Row
    <3> QED
      BY <1>1, <3>1, <3>2 DEF Unsound, TokenOf
  <2>2. CASE t \in Held
    <3>1. t.user \in Users /\ t.user \in issued /\ t.ver \in Nat
      BY <2>2, <1>1, HeldTokens
    <3>2. ~Unsound(t) /\ users'[t.user] # users[t.user]
      BY <1>1, <2>2 DEF Unsound
    <3>3. PICK r \in Requests : request[r].user = t.user /\ (CommitUpdate(r) \/ CommitDelete(r))
      BY <1>1, <3>1, <3>2, RowSteps
    <3>4. CommitUpdate(r)
      BY <1>1, <3>3, DeletedIsGone DEF Unsound, Inv
    <3>5. /\ users[t.user] \in Row /\ users[t.user] # None /\ users'[t.user] \in Row
      BY <1>1, <3>3, <3>4, UpdateWrites DEF Inv
    <3>6. \/ /\ users'[t.user].token_version = users[t.user].token_version
             /\ users'[t.user].password = users[t.user].password
             /\ users'[t.user].role = users[t.user].role
          \/ users'[t.user].token_version > users[t.user].token_version
      BY <1>1, <3>3, <3>4, ChangeOfCredentials
    <3> QED
      BY <1>1, <3>1, <3>2, <3>5, <3>6 DEF Unsound, Row
  <2> QED
    BY <2>1, <2>2
<1>2. Inv /\ TypeOK' /\ [Next]_vars =>
        [\A t \in Held' :
           Unsound(t)' => (t \in Held /\ Unsound(t)) \/ Overtaken(t.user)]_vars
  BY <1>1
<1> QED
  BY <1>2, AccountsInvCorrect, AccountsTypeCorrect, PTL DEF Spec, TokensDieUnlessOvertaken

\* A refused token is accepted again only if a version goes back to it, or had
\* gone back before.
THEOREM RevokedForEver == Spec => RevokedStayRevoked
<1>1. ASSUME Inv, TypeOK', [Next]_vars, NEW t \in tokens, ~Accepted(t), Accepted(t)',
             ~Overtaken(t.user)
      PROVE  users[t.user] # None /\ t.ver > users[t.user].token_version
  <2>1. t.user \in Users /\ t.user \in issued /\ t.ver \in Nat
    BY HeldTokens, <1>1 DEF Held
  <2>2. users'[t.user] # users[t.user]
    BY <1>1 DEF Accepted
  <2>3. PICK r \in Requests : request[r].user = t.user /\ (CommitUpdate(r) \/ CommitDelete(r))
    BY <1>1, <2>1, <2>2, RowSteps
  <2>4. CommitUpdate(r)
    BY <1>1, <2>3, DeletedIsGone DEF Accepted, Inv
  <2>5. users[t.user] \in Row /\ users[t.user] # None
    BY <1>1, <2>3, <2>4, UpdateWrites DEF Inv
  <2>6. \/ users'[t.user].token_version = users[t.user].token_version
        \/ users'[t.user].token_version > users[t.user].token_version
    BY <1>1, <2>3, <2>4, ChangeOfCredentials
  <2> QED
    BY <1>1, <2>1, <2>5, <2>6 DEF Accepted, Row
<1>2. Inv /\ TypeOK' /\ [Next]_vars =>
        [\A t \in tokens :
           ~Accepted(t) /\ Accepted(t)' =>
             \/ users[t.user] # None /\ t.ver > users[t.user].token_version
             \/ Overtaken(t.user)]_vars
  BY <1>1
<1> QED
  BY <1>2, AccountsInvCorrect, AccountsTypeCorrect, PTL DEF Spec, RevokedStayRevoked

----------------------------------------------------------------------------
(* The accounts make up an AccountService                                   *)

account == [u \in Users |-> AccountOf(users[u])]

sessions == {SessionOf(t) : t \in {s \in tokens : Accepted(s)}}

call == [r \in Requests |-> CallOf(request[r])]

LEMMA AccountIs ==
  ASSUME TypeOK, NEW u \in Users
  PROVE  /\ account[u] = None <=> users[u] = None
         /\ users[u] # None =>
              /\ account[u] = [role |-> users[u].role, email |-> users[u].email,
                               password |-> users[u].password]
              /\ account[u].role = users[u].role
              /\ account[u].email = users[u].email
              /\ account[u].password = users[u].password
<1>1. account[u] = AccountOf(users[u])
  BY DEF account
<1>2. CASE users[u] = None
  BY <1>1, <1>2 DEF AccountOf
<1>3. CASE users[u] # None
  <2>1. account[u] = [role |-> users[u].role, email |-> users[u].email,
                      password |-> users[u].password]
    BY <1>1, <1>3 DEF AccountOf
  <2>2. users[u] \in Row
    BY <1>3 DEF TypeOK
  <2>3. account[u] \in Account
    BY <2>1, <2>2 DEF Account, Row
  <2> QED
    BY <1>3, <2>1, <2>3, AccountsAssumption
<1> QED
  BY <1>2, <1>3

LEMMA ExistingIs ==
  ASSUME TypeOK
  PROVE  /\ Service!Existing = {u \in Users : users[u] # None}
         /\ Service!AdminIds = AdminIds
         /\ \A u, email : Service!Free(u, email) <=> Free(u, email)
<1>1. Service!Existing = {u \in Users : users[u] # None}
  BY AccountIs DEF Service!Existing, account
<1>2. \A u \in Users : users[u] # None =>
        account[u].role = users[u].role /\ account[u].email = users[u].email
  BY AccountIs
<1>3. Service!AdminIds = AdminIds
  BY <1>1, <1>2 DEF Service!AdminIds, AdminIds, account
<1>4. \A u, email : Service!Free(u, email) <=> Free(u, email)
  BY <1>1, <1>2 DEF Service!Free, Free, account
<1> QED
  BY <1>1, <1>3, <1>4

LEMMA AccountMoves ==
  ASSUME TypeOK, NEW u \in Users, NEW x, users' = [users EXCEPT ![u] = x]
  PROVE  account' = [account EXCEPT ![u] = AccountOf(x)]
BY DEF TypeOK, account, AccountOf

LEMMA CallMoves ==
  ASSUME TypeOK, NEW r \in Requests, NEW x, request' = [request EXCEPT ![r] = x]
  PROVE  call' = [call EXCEPT ![r] = CallOf(x)]
BY DEF TypeOK, call, CallOf

LEMMA CallIs ==
  ASSUME NEW q \in Request, q # None, q.op # "login"
  PROVE  CallOf(q) = [kind |-> q.op, user |-> q.user, role |-> q.role, email |-> q.email,
                      password |-> q.password]
BY DEF CallOf

LEMMA ReplyServes ==
  ASSUME TypeOK, NEW r \in Requests, Writer(r), Respond(r), UNCHANGED <<users, issued, tokens, contested>>
  PROVE  Service!Reply(r)
<1>1. CallOf(request[r]).kind = request[r].op /\ request[r].op # "none"
  BY CallIs DEF Writer, TypeOK, Request, Operation
<1>2. call[r] = CallOf(request[r])
  BY DEF call
<1>3. call[r] # [kind |-> "none"]
  BY <1>1, <1>2
<1>4. call' = [call EXCEPT ![r] = [kind |-> "none"]]
  BY CallMoves DEF Respond, CallOf
<1>5. UNCHANGED <<account, sessions>>
  BY DEF account, sessions, Accepted
<1> QED
  BY <1>3, <1>4, <1>5 DEF Service!Reply, Service!Answer, Service!Idle, account, sessions, call

\* Nothing that a client sees has changed.
LEMMA Unseen ==
  ASSUME UNCHANGED <<users, issued, tokens, contested>>, call' = call
  PROVE  UNCHANGED Service!vars
<1>1. UNCHANGED <<account, sessions>>
  BY DEF account, sessions, Accepted
<1> QED
  BY <1>1 DEF Service!vars, account, sessions, call

\* A handler that goes on has the same form.
LEMMA ContinueServes ==
  ASSUME TypeOK, NEW r \in Requests, Writer(r), NEW step \in {"checking", "committing"},
         NEW copy \in Row \cup {None}, NEW locks \in SUBSET Users,
         Continue(r, step, copy, locks), UNCHANGED <<users, issued, tokens, contested>>
  PROVE  UNCHANGED Service!vars
<1> DEFINE q == request[r]
           x == [q EXCEPT !.step = step, !.copy = copy, !.locks = locks]
<1>1. q \in Request /\ q.op # "login" /\ q # None
  BY DEF TypeOK, Writer
<1>2. request' = [request EXCEPT ![r] = x]
  BY DEF Continue
<1>3. /\ x.op = q.op /\ x.user = q.user /\ x.role = q.role /\ x.email = q.email
      /\ x.password = q.password /\ x # None
  <2>1. x \in Request
    BY <1>1 DEF Request
  <2> QED
    BY <1>1, <2>1, RequestAssumption DEF Request
<1>4. CallOf(x) = CallOf(q)
  BY <1>1, <1>3 DEF CallOf
<1>5. call' = call
  BY <1>2, <1>4, CallMoves DEF call
<1> QED
  BY <1>5, Unseen

LEMMA RegisterServes ==
  ASSUME Inv, NEW u \in Users, NEW role \in UserRole, NEW e \in Emails,
         InsertUser(u, role, e)
  PROVE  Service!Register(u)
<1> DEFINE row == NewUser(role, e)
<1>1. /\ u \notin issued /\ Free(u, e) /\ issued' = issued \cup {u}
      /\ users' = [users EXCEPT ![u] = row]
      /\ UNCHANGED <<tokens, request, contested>>
  BY DEF InsertUser, Fresh
<1>2. row \in Row /\ row.email = e
  BY DEF NewUser, Row
<1> HIDE DEF row
<1>3. account' = [account EXCEPT ![u] = AccountOf(row)]
  BY <1>1, AccountMoves DEF Inv
<1>4. account'[u] = AccountOf(row) /\ AccountOf(row).email = e
  BY <1>2, <1>3, AccountsAssumption DEF AccountOf, account
<1>5. \A t \in tokens : Accepted(t)' <=> Accepted(t)
  BY <1>1 DEF Inv, TokenInv, Dated, Accepted, TypeOK, Token
<1>6. sessions' = sessions
  BY <1>1, <1>5 DEF sessions
<1>7. call' = call
  BY <1>1 DEF call
<1>8. Service!Free(u, account'[u].email)
  BY <1>1, <1>4, ExistingIs DEF Inv
<1>9. account' = [account EXCEPT ![u] = account'[u]]
  BY <1>3, <1>4
<1> QED
  BY <1>1, <1>6, <1>7, <1>8, <1>9 DEF Service!Register, account, sessions, call

LEMMA LogInServes ==
  ASSUME Inv, NEW r \in Requests, IssueToken(r)
  PROVE  (\E u \in Users : Service!LogIn(u)) \/ UNCHANGED Service!vars
<1> DEFINE u == request[r].user
           t == TokenOf(u, request[r].copy)
<1>1. /\ u \in Users /\ request[r].op = "login"
      /\ tokens' = tokens \cup {t} /\ UNCHANGED <<users, issued, contested>>
  BY DEF IssueToken, At, Inv, TypeOK, Request
<1>2. call' = call
  <2>1. call' = [call EXCEPT ![r] = [kind |-> "none"]]
    BY CallMoves DEF IssueToken, Respond, CallOf, Inv
  <2>2. call[r] = [kind |-> "none"]
    BY <1>1 DEF call, CallOf
  <2> QED
    BY <2>1, <2>2 DEF call
<1>3. \A x : Accepted(x)' <=> Accepted(x)
  BY <1>1 DEF Accepted
<1>4. account' = account
  BY <1>1 DEF account
<1>5. /\ t.user = u
      /\ Accepted(t) => users[u] # None
      /\ Accepted(t) /\ u \notin contested =>
           t.password = users[u].password /\ t.role = users[u].role
  BY <1>1 DEF Inv, LoginInv, Dated, IssueToken, At, Target, TokenOf, Accepted
<1> HIDE DEF t, u
<1>6. CASE Accepted(t)
  <2>1. sessions' = sessions \cup {SessionOf(t)}
    BY <1>1, <1>3, <1>6 DEF sessions
  <2>2. u \in Service!Existing
    BY <1>1, <1>5, <1>6, ExistingIs DEF Inv
  <2>3. account[u].password = users[u].password /\ account[u].role = users[u].role
    BY <1>1, <1>5, <1>6, AccountIs DEF Inv
  <2>4. /\ SessionOf(t) \in sessions' /\ SessionOf(t).user = u
        /\ u \notin contested => /\ SessionOf(t).role = account[u].role
                                /\ SessionOf(t).password = account[u].password
    BY <1>5, <1>6, <2>1, <2>3 DEF SessionOf
  <2>5. Service!LogIn(u)
    BY <1>1, <1>2, <1>4, <2>1, <2>2, <2>4 DEF Service!LogIn, account, sessions, call
  <2> QED
    BY <1>1, <2>5
<1>7. CASE ~Accepted(t)
  <2>1. sessions' = sessions
    BY <1>1, <1>3, <1>7 DEF sessions
  <2> QED
    BY <1>1, <1>2, <1>4, <2>1 DEF Service!vars, account, sessions, call
<1> QED
  BY <1>6, <1>7

LEMMA AskedIs ==
  ASSUME TypeOK, NEW u
  PROVE  Service!Asked(u) <=> WritersOf(u) # {}
<1>1. ASSUME NEW r \in Requests
      PROVE  call[r] # [kind |-> "none"] /\ call[r].user = u <=> r \in WritersOf(u)
  <2>1. call[r] = CallOf(request[r])
    BY DEF call
  <2>2. CASE Writer(r)
    <3>1. /\ call[r].kind = request[r].op /\ request[r].op # "none"
          /\ call[r].user = request[r].user
      BY <2>1, <2>2, CallIs DEF Writer, TypeOK, Request, Operation
    <3> QED
      BY <2>2, <3>1 DEF WritersOf, Writer
  <2>3. CASE ~Writer(r)
    BY <2>1, <2>3 DEF CallOf, WritersOf, Writer
  <2> QED
    BY <2>2, <2>3
<1> QED
  BY <1>1 DEF Service!Asked, Service!Idle, WritersOf, call

LEMMA ArriveServes ==
  ASSUME Inv, changes < MaxChanges, NEW r \in Requests, NEW op \in Operation \ {"login"},
         NEW t \in tokens, NEW u \in Users,
         NEW form \in {NewPassword, Blank} \cup NewEmail \cup NewRole,
         Accepted(t),
         IF op = "update_user_me" THEN u = t.user ELSE users[t.user].role = "admin",
         Accept(r, op, t.user, u, form)
  PROVE  Service!Arrive(r)
<1> DEFINE x == [op |-> op, user |-> u,
                 role |-> form.role, email |-> form.email, password |-> form.password,
                 step |-> IF op = "update_user_me" THEN "committing"
                          ELSE IF u = t.user THEN "checking" ELSE "reading",
                 copy |-> IF u = t.user THEN users[u] ELSE None,
                 locks |-> {}]
           s == SessionOf(t)
<1>1. request' = [request EXCEPT ![r] = x] /\ UNCHANGED <<users, issued, tokens>>
      /\ contested' = contested \cup {v \in {u} : WritersOf(v) # {}}
      /\ request[r] = None
  BY DEF Accept
<1>2. /\ form.role \in UserRole \cup {None} /\ form.email \in Emails \cup {None}
      /\ form.password \in Nat \cup {None}
  BY FormsAreTyped DEF Inv
<1>3. users[u] \in Row \cup {None}
  BY DEF Inv, TypeOK
<1>4. x \in Request
  BY <1>2, <1>3 DEF Request
<1>5. x # None /\ x.op = op /\ op # "login" /\ x.user = u /\ op # "none"
  BY <1>4, RequestAssumption DEF Operation
<1>6. CallOf(x).kind = op /\ CallOf(x).user = u
  BY <1>4, <1>5, CallIs
<1> HIDE DEF x
<1>7. call' = [call EXCEPT ![r] = CallOf(x)]
  BY <1>1, CallMoves DEF Inv
<1>8. call'[r] = CallOf(x) /\ call[r] = [kind |-> "none"]
  BY <1>1, <1>7 DEF call, CallOf
<1>9. t.user \in Users /\ users[t.user] # None
  BY DEF Accepted, Inv, TypeOK, Token
<1>10. s \in sessions /\ s.user = t.user
  BY DEF sessions, SessionOf
<1>11. IF op = "update_user_me" THEN s.user = u ELSE s.user \in Service!AdminIds
  BY <1>9, <1>10, ExistingIs DEF AdminIds, Inv
<1>12. UNCHANGED <<account, sessions>>
  BY <1>1 DEF account, sessions, Accepted
<1>13. Service!Asked(u) <=> WritersOf(u) # {}
  BY AskedIs DEF Inv
<1>14. contested' = contested \cup {v \in {u} : Service!Asked(v)}
  BY <1>1, <1>13
<1> HIDE DEF s
<1> QED
  BY <1>1, <1>5, <1>6, <1>7, <1>8, <1>10, <1>11, <1>12, <1>14
     DEF Service!Arrive, Service!Idle, account, sessions, call

\* No session but those of the account is affected, and those end if the
\* tokens of the account do.
LEMMA SessionsEnd ==
  ASSUME NEW u, UNCHANGED tokens,
         \A t \in tokens : t.user # u => (Accepted(t)' <=> Accepted(t))
  PROVE  /\ {s \in sessions' : s.user # u} = {s \in sessions : s.user # u}
         /\ (\A t \in tokens : Accepted(t)' => t.user # u) =>
              /\ \A s \in sessions' : s.user # u
              /\ sessions' = {s \in sessions : s.user # u}
<1>1. \A t : SessionOf(t).user = t.user
  BY DEF SessionOf
<1>2. sessions' = {SessionOf(t) : t \in {s \in tokens : Accepted(s)'}}
  BY DEF sessions
<1> QED
  BY <1>1, <1>2 DEF sessions

\* Who commits a change of an account that is not contested has its row, and
\* has locked another admin if that takes one away.
LEMMA CommitterKnows ==
  ASSUME Inv, NEW r \in Requests, Writer(r), request[r].step = "committing",
         users[Target(r)] # None
  PROVE  /\ Target(r) \in Users /\ users[Target(r)] \in Row
         /\ call[r] = [kind |-> request[r].op, user |-> Target(r), role |-> request[r].role,
                       email |-> request[r].email, password |-> request[r].password]
         /\ Target(r) \notin contested => users[Target(r)] = request[r].copy
         /\ Removes(r) => AdminIds \ {Target(r)} # {}
<1>1. /\ Target(r) \in Users
      /\ Target(r) \notin contested => users[Target(r)] = request[r].copy
  BY CopiesExist
<1>2. users[Target(r)] \in Row
  BY <1>1 DEF Inv, TypeOK
<1>3. call[r] = [kind |-> request[r].op, user |-> Target(r), role |-> request[r].role,
                 email |-> request[r].email, password |-> request[r].password]
  BY CallIs DEF call, Writer, Target, Inv, TypeOK
<1>4. ASSUME Removes(r) PROVE AdminIds \ {Target(r)} # {}
  BY <1>4 DEF Inv, LockInv
<1> QED
  BY <1>1, <1>2, <1>3, <1>4

\* The row that is written is an outcome of the form.
LEMMA WrittenIsOutcome ==
  ASSUME NEW u, NEW q, NEW old \in Row, NEW row \in Row,
         row = Updated(q, old), u \notin contested => old = q.copy,
         account[u] = [role |-> old.role, email |-> old.email, password |-> old.password],
         NEW c, c.user = u, c.role = q.role, c.email = q.email, c.password = q.password
  PROVE  [role |-> row.role, email |-> row.email, password |-> row.password]
           \in Service!Outcomes(c)
<1> DEFINE new == Service!Edited(account[u], c)
<1>1. /\ account[u].role = old.role /\ account[u].email = old.email
      /\ account[u].password = old.password
  OBVIOUS
<1>2. new = [role     |-> IF q.role = None THEN old.role ELSE q.role,
             email    |-> IF q.email = None THEN old.email ELSE q.email,
             password |-> IF q.password = None THEN old.password ELSE q.password]
  BY <1>1 DEF Service!Edited
<1>3. /\ row.role \in {old.role, new.role}
      /\ row.email \in {old.email, new.email}
      /\ row.password \in {old.password, new.password}
  BY <1>2 DEF Updated, Column
<1>4. ASSUME u \notin contested
      PROVE  row.role = new.role /\ row.email = new.email /\ row.password = new.password
  BY <1>2, <1>4 DEF Updated, Column
<1>5. new = [role |-> new.role, email |-> new.email, password |-> new.password]
  BY <1>2
<1> HIDE DEF new
<1>6. Service!Outcomes(c) =
        IF u \in contested
          THEN [role : {old.role, new.role}, email : {old.email, new.email},
                password : {old.password, new.password}]
          ELSE {new}
  BY <1>1 DEF Service!Outcomes, account, new
<1> QED
  BY <1>3, <1>4, <1>5, <1>6

\* The sessions after an update, by what its form gives.
LEMMA UpdateEndsSessions ==
  ASSUME Inv, NEW r \in Requests, CommitUpdate(r), NEW u, u = Target(r)
  PROVE  IF request[r].role = None /\ request[r].password = None THEN sessions' = sessions
         ELSE Service!EndSessions(u)
<1> DEFINE q == request[r]
<1>1. /\ u \in Users /\ users[u] \in Row /\ users[u] # None
      /\ users'[u] = Updated(q, users[u]) /\ users'[u] \in Row
      /\ \A v \in Users \ {u} : users'[v] = users[v]
      /\ UNCHANGED tokens
  <2>1. u = q.user
    BY DEF Target
  <2>2. /\ q \in Request
        /\ users' = [users EXCEPT ![u] = Updated(q, users[u])]
    BY <2>1, UpdatedIsRow DEF Inv
  <2>3. u \in Users /\ UNCHANGED tokens
    BY <2>1, <2>2 DEF Request, CommitUpdate
  <2>4. /\ users[u] \in Row /\ users[u] # None
        /\ users'[u] = Updated(q, users[u]) /\ users'[u] \in Row
    BY <2>1, UpdateWrites DEF Inv
  <2>5. \A v \in Users \ {u} : users'[v] = users[v]
    BY <2>2 DEF Inv, TypeOK
  <2> QED
    BY <2>3, <2>4, <2>5
<1>2. users'[u] # None
  BY <1>1, AccountsAssumption
<1>3. \A t \in tokens : t.user \in Users /\ t.ver \in Nat /\ Dated(t.user, t.ver, t.password, t.role)
  BY DEF Inv, TypeOK, TokenInv, Token
<1>4. \A t \in tokens : t.user # u => (Accepted(t)' <=> Accepted(t))
  BY <1>1, <1>3 DEF Accepted
<1>5. CASE ~Invalidates(q)
  <2>1. users'[u].token_version = users[u].token_version
    BY <1>1, <1>5 DEF Updated
  <2>2. \A t \in tokens : Accepted(t)' <=> Accepted(t)
    BY <1>1, <1>2, <1>4, <2>1 DEF Accepted
  <2>3. sessions' = sessions
    BY <1>1, <2>2 DEF sessions
  <2> QED
    BY <1>5, <2>3 DEF Invalidates
<1>6. CASE Invalidates(q)
  <2>1. ASSUME u \notin contested, NEW t \in tokens, Accepted(t)'
        PROVE  t.user # u
    <3>1. users[u] = q.copy
      BY <1>1, <2>1, CopiesExist DEF CommitUpdate, At, Writer, Target
    <3>2. users'[u].token_version = users[u].token_version + 1
      BY <1>1, <1>6, <3>1 DEF Updated
    <3>3. users[u].token_version \in Nat
      BY <1>1 DEF Row
    <3>4. t.user = u => t.ver <= users[u].token_version
      BY <1>1, <1>3, <2>1 DEF Dated
    <3> QED
      BY <1>3, <2>1, <3>2, <3>3, <3>4 DEF Accepted
  <2>2. /\ {s \in sessions' : s.user # u} = {s \in sessions : s.user # u}
        /\ u \notin contested => \A s \in sessions' : s.user # u
    BY <1>1, <1>4, <2>1, SessionsEnd
  <2> QED
    BY <1>6, <2>2 DEF Invalidates, Service!EndSessions, sessions
<1> QED
  BY <1>5, <1>6

LEMMA EditServes ==
  ASSUME Inv, NEW r \in Requests, CommitUpdate(r)
  PROVE  Service!Edit(r)
<1> DEFINE q == request[r]
           u == Target(r)
           row == Updated(q, users[u])
           new == [role |-> row.role, email |-> row.email, password |-> row.password]
<1>1. /\ q.op \in {"update_user_me", "update_user"} /\ q.step = "committing" /\ q # None
      /\ Writer(r) /\ u = q.user /\ users[u] # None
      /\ Free(u, row.email) /\ UNCHANGED <<issued, tokens, contested>>
  BY DEF CommitUpdate, At, Writer, Target
<1>2. row \in Row /\ users' = [users EXCEPT ![u] = row]
  BY UpdatedIsRow DEF Inv, Target
<1>3. /\ u \in Users /\ users[u] \in Row
      /\ call[r] = [kind |-> q.op, user |-> u, role |-> q.role, email |-> q.email,
                    password |-> q.password]
      /\ u \notin contested => users[u] = q.copy
      /\ Removes(r) => AdminIds \ {u} # {}
  BY <1>1, CommitterKnows
<1>4. row # None
  BY <1>2, AccountsAssumption
<1>5. u \in AdminIds => row.role = "admin" \/ AdminIds \ {u} # {} \/ u \in contested
  <2>1. SUFFICES ASSUME users[u].role = "admin", row.role # "admin", u \notin contested
                 PROVE  Removes(r)
    BY <1>3 DEF AdminIds
  <2>2. q.role # None /\ q.role # "admin"
    BY <2>1 DEF Updated, Column
  <2>3. q.op # "update_user_me"
    BY <1>1, <2>2 DEF Inv, StepInv
  <2> QED
    BY <1>1, <1>3, <2>1, <2>2, <2>3 DEF Removes
<1>6. account[u] = [role |-> users[u].role, email |-> users[u].email,
                    password |-> users[u].password]
  BY <1>1, <1>3, AccountIs DEF Inv
<1>7. /\ call[r].kind \in {"update_user_me", "update_user"} /\ call[r].user = u
      /\ call[r].role = q.role /\ call[r].email = q.email /\ call[r].password = q.password
  BY <1>1, <1>3
<1>8. new \in Service!Outcomes(call[r])
  BY <1>2, <1>3, <1>6, <1>7, WrittenIsOutcome
<1>9. account' = [account EXCEPT ![u] = new]
  BY <1>2, <1>3, <1>4, AccountMoves DEF AccountOf, Inv
<1>10. new.role = row.role /\ new.email = row.email
  OBVIOUS
<1>11. IF call[r].role = None /\ call[r].password = None THEN sessions' = sessions
       ELSE Service!EndSessions(call[r].user)
  BY <1>7, UpdateEndsSessions
<1>12. call' = [call EXCEPT ![r] = [kind |-> "none"]]
  BY CallMoves DEF CommitUpdate, Respond, CallOf, Inv
<1>13. u \in Service!Existing /\ Service!Free(u, row.email) /\ Service!AdminIds = AdminIds
  BY <1>1, <1>3, ExistingIs DEF Inv
<1> HIDE DEF row, u, q, new
<1>14. \E x \in Service!Outcomes(call[r]) :
         /\ Service!Free(call[r].user, x.email)
         /\ call[r].user \in Service!AdminIds =>
              x.role = "admin" \/ Service!Dispensable(call[r].user)
         /\ account' = [account EXCEPT ![call[r].user] = x]
  BY <1>5, <1>7, <1>8, <1>9, <1>10, <1>13 DEF Service!Dispensable
<1> QED
  BY <1>1, <1>7, <1>11, <1>12, <1>13, <1>14
     DEF Service!Edit, Service!Answer, Service!Idle, account, sessions, call

\* Deleting an account that is gone already is an answer without effect.
LEMMA DeleteServes ==
  ASSUME Inv, NEW r \in Requests, CommitDelete(r)
  PROVE  Service!Delete(r) \/ Service!Reply(r)
<1> DEFINE q == request[r]
           u == Target(r)
<1>1. /\ q.op = "delete_user" /\ q.step = "committing" /\ q # None
      /\ Writer(r) /\ u = q.user /\ Respond(r)
      /\ users' = [users EXCEPT ![u] = None] /\ UNCHANGED <<issued, tokens, contested>>
  BY DEF CommitDelete, At, Writer, Target
<1>2. CASE users[u] = None
  <2>1. users' = users
    BY <1>1, <1>2 DEF Inv, TypeOK
  <2> QED
    BY <1>1, <2>1, ReplyServes DEF Inv
<1>3. CASE users[u] # None
  <2>1. /\ u \in Users
        /\ call[r] = [kind |-> q.op, user |-> u, role |-> q.role, email |-> q.email,
                      password |-> q.password]
        /\ u \notin contested => users[u] = q.copy
        /\ Removes(r) => AdminIds \ {u} # {}
    BY <1>1, <1>3, CommitterKnows
  <2>2. q.role # "admin"
    BY <1>1, AccountsAssumption DEF Inv, StepInv, UserRole
  <2>3. u \in AdminIds => AdminIds \ {u} # {} \/ u \in contested
    BY <1>1, <2>1, <2>2 DEF Removes, AdminIds
  <2>4. users'[u] = None /\ \A v \in Users \ {u} : users'[v] = users[v]
    BY <1>1, <2>1 DEF Inv, TypeOK
  <2> HIDE DEF u, q
  <2>5. account' = [account EXCEPT ![u] = None]
    BY <1>1, <2>1, AccountMoves DEF Inv, AccountOf
  <2>6. \A t \in tokens : t.user \in Users
    BY DEF Inv, TypeOK, Token
  <2>7. \A t \in tokens : Accepted(t)' <=> Accepted(t) /\ t.user # u
    BY <2>4, <2>6 DEF Accepted
  <2>8. sessions' = {s \in sessions : s.user # u}
    BY <1>1, <2>7, SessionsEnd
  <2>9. call' = [call EXCEPT ![r] = [kind |-> "none"]]
    BY <1>1, CallMoves DEF Respond, CallOf, Inv
  <2>10. u \in Service!Existing /\ Service!AdminIds = AdminIds
    BY <1>3, <2>1, ExistingIs DEF Inv
  <2>11. call[r].kind = "delete_user" /\ call[r].user = u
    BY <1>1, <2>1
  <2> QED
    BY <1>1, <2>3, <2>5, <2>8, <2>9, <2>10, <2>11
       DEF Service!Delete, Service!Dispensable, Service!Answer, Service!Idle, account, sessions, call
<1> QED
  BY <1>2, <1>3

LEMMA QuietServes ==
  ASSUME Inv, NEW r \in Requests, LoadUser(r) \/ EnsureAdminRemains(r) \/ Refuse(r)
  PROVE  Service!Reply(r) \/ UNCHANGED Service!vars
<1> DEFINE q == request[r]
<1>1. q # None /\ q \in Request /\ UNCHANGED <<users, issued, tokens, contested>>
  BY DEF LoadUser, EnsureAdminRemains, Refuse, At, Inv, TypeOK
<1>2. CASE q.op = "login"
  <2>1. Respond(r)
    BY <1>1, <1>2 DEF LoadUser, EnsureAdminRemains, Refuse, At
  <2>2. call' = [call EXCEPT ![r] = [kind |-> "none"]]
    BY <2>1, CallMoves DEF Respond, CallOf, Inv
  <2>3. call[r] = [kind |-> "none"]
    BY <1>2 DEF call, CallOf
  <2>4. call' = call
    BY <2>2, <2>3 DEF call
  <2> QED
    BY <1>1, <2>4, Unseen
<1>3. CASE q.op # "login"
  <2>1. Writer(r)
    BY <1>1, <1>3 DEF Writer
  <2>2. CASE Respond(r)
    BY <1>1, <2>1, <2>2, ReplyServes DEF Inv
  <2>3. ASSUME NEW step \in {"checking", "committing"}, NEW copy \in Row \cup {None},
               NEW locks \in SUBSET Users, Continue(r, step, copy, locks)
        PROVE  UNCHANGED Service!vars
    BY <1>1, <2>1, <2>3, ContinueServes DEF Inv
  <2>4. users[q.user] \in Row \cup {None} /\ q.copy \in Row \cup {None}
    BY <1>1 DEF Inv, TypeOK, Request
  <2> HIDE DEF q
  <2>5. CASE LoadUser(r)
    BY <2>2, <2>3, <2>4, <2>5 DEF LoadUser, q
  <2>6. CASE EnsureAdminRemains(r)
    BY <2>2, <2>3, <2>4, <2>6, AdminIdsAreUsers DEF EnsureAdminRemains, LockAdmins, q
  <2>7. CASE Refuse(r)
    BY <2>2, <2>7 DEF Refuse
  <2> QED
    BY <2>5, <2>6, <2>7
<1> QED
  BY <1>2, <1>3

LEMMA StepServes ==
  ASSUME Inv, Next
  PROVE  Service!Next \/ UNCHANGED Service!vars
<1>1. ASSUME NEW u \in Users, RegisterUser(u) \/ CreateUser(u) \/ CreateAdmin(u)
      PROVE  Service!Register(u)
  BY <1>1, RegisterServes, AccountsAssumption
     DEF RegisterUser, CreateUser, CreateAdmin, UserRole
<1>2. ASSUME NEW r \in Requests, Serve(r)
      PROVE  Service!Next \/ UNCHANGED Service!vars
  BY <1>2, LogInServes, QuietServes, EditServes, DeleteServes DEF Serve, Service!Next
<1>3. ASSUME NEW r \in Requests, NEW u \in Users, Login(r, u)
      PROVE  UNCHANGED Service!vars
  <2> DEFINE x == [op |-> "login", user |-> u, role |-> None, email |-> None,
                   password |-> None, step |-> "issuing", copy |-> users[u], locks |-> {}]
  <2>1. /\ request' = [request EXCEPT ![r] = x] /\ request[r] = None
        /\ UNCHANGED <<users, issued, tokens, contested>>
    BY <1>3 DEF Login
  <2>2. CallOf(x) = [kind |-> "none"] /\ call[r] = [kind |-> "none"]
    BY <2>1 DEF CallOf, call
  <2> HIDE DEF x
  <2>3. call' = [call EXCEPT ![r] = [kind |-> "none"]]
    BY <2>1, <2>2, CallMoves DEF Inv
  <2>4. call' = call
    BY <2>2, <2>3 DEF call
  <2> QED
    BY <2>1, <2>4, Unseen
<1>4. ASSUME NEW r \in Requests, NEW t \in tokens, ChangeOwnAccount(r, t)
      PROVE  Service!Arrive(r)
  <2>1. PICK form \in {NewPassword} \cup NewEmail :
          Accept(r, "update_user_me", t.user, t.user, form)
    BY <1>4 DEF ChangeOwnAccount
  <2>2. changes < MaxChanges /\ Accepted(t) /\ t.user \in Users
    BY <1>4, <2>1 DEF ChangeOwnAccount, Accept, Inv, TypeOK, Token
  <2> QED
    BY <2>1, <2>2, ArriveServes DEF Operation
<1>5. ASSUME NEW r \in Requests, NEW t \in tokens, NEW u \in Users, Administer(r, t, u)
      PROVE  Service!Arrive(r)
  <2>1. PICK op \in {"update_user", "delete_user"},
             form \in {NewPassword, Blank} \cup NewEmail \cup NewRole :
          Accept(r, op, t.user, u, form)
    BY <1>5 DEF Administer
  <2>2. changes < MaxChanges /\ Accepted(t) /\ users[t.user].role = "admin"
    BY <1>5, <2>1 DEF Administer, Accept
  <2> QED
    BY <2>1, <2>2, ArriveServes DEF Operation
<1> QED
  BY <1>1, <1>2, <1>3, <1>4, <1>5 DEF Next, Service!Next

\* Every change of an account, and every end of a session, is one moment,
\* whatever is loaded, checked and locked before it: in full for accounts that
\* no two requests were to change at once, and as AccountService states it for
\* those that were.
THEOREM AccountsImplementService == Spec => ImplementsService
<1>1. Init /\ Inv => Service!Init
  <2> SUFFICES ASSUME Init, Inv PROVE Service!Init
    OBVIOUS
  <2>1. issued = Service!Existing
    <3>1. PICK email \in [Admins -> Emails] :
            users = [u \in Users |->
                      IF u \in Admins THEN NewUser("admin", email[u]) ELSE None]
      BY DEF Init
    <3>2. \A u \in Admins : NewUser("admin", email[u]) \in Row
      BY <3>1 DEF NewUser, Row, UserRole
    <3>3. \A u \in Users : users[u] # None <=> u \in Admins
      BY <3>1, <3>2, AccountsAssumption
    <3> QED
      BY <3>3, ExistingIs, AccountsAssumption DEF Init, Inv
  <2>2. Service!AdminIds # {}
    <3>1. PICK email \in [Admins -> Emails] :
            users = [u \in Users |->
                      IF u \in Admins THEN NewUser("admin", email[u]) ELSE None]
      BY DEF Init
    <3>2. PICK u \in Admins : u \in Users
      BY AccountsAssumption
    <3>3. users[u].role = "admin" /\ NewUser("admin", email[u]) \in Row
      BY <3>1, <3>2 DEF NewUser, Row, UserRole
    <3>4. u \in AdminIds
      BY <3>1, <3>2, <3>3, AccountsAssumption DEF AdminIds
    <3> QED
      BY <3>4, ExistingIs DEF Inv
  <2>3. \A u \in Service!Existing : Service!Free(u, account[u].email)
    <3>1. EmailsDistinct
      BY EmailsAtFirst
    <3>2. \A u \in Users : users[u] # None => account[u].email = users[u].email
      BY AccountIs DEF Inv
    <3> QED
      BY <3>1, <3>2, ExistingIs DEF EmailsDistinct, Free, Inv
  <2>4. sessions = {} /\ call = [r \in Requests |-> [kind |-> "none"]] /\ contested = {}
    BY DEF Init, sessions, call, CallOf
  <2> QED
    BY <2>1, <2>2, <2>3, <2>4 DEF Service!Init, Service!Idle, account, sessions, call
<1>2. Inv /\ [Next]_vars => [Service!Next]_Service!vars
  <2>1. UNCHANGED vars => UNCHANGED Service!vars
    BY Unseen DEF vars, call
  <2> QED
    BY <2>1, StepServes
<1> QED
  BY <1>1, <1>2, AccountsInvCorrect, PTL DEF Spec, ImplementsService, Service!Spec

=============================================================================
