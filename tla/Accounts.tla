------------------------------ MODULE Accounts ------------------------------
(* User accounts and bearer tokens: app/crud/user.py, app/security/auth.py  *)
(* and jwt.py, and the create-admin command of app/cli.py.                  *)
(*                                                                          *)
(* Passwords are numbered in the order in which they are set.  A token      *)
(* carries the user id and the token_version; the model also notes the      *)
(* password and the role it was issued under.  The expiry of tokens is left *)
(* out: the properties speak of tokens not yet expired.  So are user names, *)
(* which are unique as e-mails are, but never put into lower case.          *)
EXTENDS Integers, FiniteSets

CONSTANTS
  Users,       \* user ids
  Admins,      \* the admins the program starts with
  Emails,      \* e-mail addresses, as people write them
  Lower,       \* the lower-case spelling of each
  Requests,    \* requests the API serves at the same time
  MaxChanges,  \* bound on the requests that change accounts
  MaxTokens,   \* bound on the tokens issued before the last logins begin
  None         \* no row, no value in a form

UserRole == {"admin", "user", "guest"}

Row == [role : UserRole, email : Emails, password : Nat, token_version : Nat]

\* A row as a client knows it.
Account == [role : UserRole, email : Emails, password : Nat]

ASSUME AccountsAssumption ==
  /\ IsFiniteSet(Users)
  /\ IsFiniteSet(Requests)
  /\ Admins \subseteq Users
  /\ Admins # {}
  /\ Lower \in [Emails -> Emails]
  /\ None \notin Users \cup Emails \cup UserRole
  /\ None \notin Row \cup Account
  /\ MaxChanges \in Nat
  /\ MaxTokens \in Nat

VARIABLES
  users,     \* the users table
  issued,    \* ids handed out by the sequence, deleted users included
  tokens,    \* the tokens clients hold
  request,   \* the requests being served
  changes,   \* passwords and changing requests so far
  contested  \* history: the accounts that two requests at once were to change

vars == <<users, issued, tokens, request, changes, contested>>

----------------------------------------------------------------------------
(* Tokens and requests                                                      *)

Token == [user : Users, ver : Nat, password : Nat, role : UserRole]

Operation == {"login", "update_user_me", "update_user", "delete_user"}

Request == [op       : Operation,
            user     : Users,                         \* the account it is about
            role     : UserRole \cup {None},          \* the form
            email    : Emails \cup {None},
            password : Nat \cup {None},
            step     : {"reading", "checking", "committing", "issuing"},
            copy     : Row \cup {None},               \* the row as it was loaded
            locks    : SUBSET Users]                  \* rows locked FOR UPDATE

ASSUME RequestAssumption == None \notin Request

TypeOK ==
  /\ users \in [Users -> Row \cup {None}]
  /\ issued \subseteq Users
  /\ tokens \subseteq Token
  /\ request \in [Requests -> Request \cup {None}]
  /\ changes \in 0..MaxChanges
  /\ contested \subseteq Users
  /\ \A r \in Requests :
       request[r] # None /\ request[r].step # "reading" => request[r].copy # None

At(r, ops, step) ==
  /\ request[r] # None
  /\ request[r].op \in ops
  /\ request[r].step = step

NewUser(role, email) == [role |-> role, email |-> email, password |-> 0, token_version |-> 0]

Continue(r, step, copy, locks) ==
  request' = [request EXCEPT ![r].step = step, ![r].copy = copy, ![r].locks = locks]

\* The transaction is over: its locks are released.
Respond(r) == request' = [request EXCEPT ![r] = None]

\* A row that another transaction has locked; whoever wants it waits.
Locked(r, u) == \E q \in Requests \ {r} : request[q] # None /\ u \in request[q].locks

Injective(f) == \A x, y \in DOMAIN f : f[x] = f[y] => x = y

Init ==
  /\ \E email \in {f \in [Admins -> Emails] : Injective(f)} :
       users = [u \in Users |->
                  IF u \in Admins THEN NewUser("admin", email[u]) ELSE None]
  /\ issued = Admins
  /\ tokens = {}
  /\ request = [r \in Requests |-> None]
  /\ changes = 0
  /\ contested = {}

----------------------------------------------------------------------------
(* New accounts                                                             *)

\* Mutant: the id of a deleted account is given out again.
Vacant(u) == users[u] = None

Fresh(u) == u \notin issued

\* Mutant: the e-mails of other accounts are not looked at.
FreeAnyway(u, email) == TRUE

\* The unique constraint on the email column.
Free(u, email) == \A v \in Users \ {u} : users[v] # None => users[v].email # email

InsertUser(u, role, email) ==
  /\ Fresh(u)
  /\ Free(u, email)
  /\ users' = [users EXCEPT ![u] = NewUser(role, email)]
  /\ issued' = issued \cup {u}
  /\ UNCHANGED <<tokens, request, changes, contested>>

\* Whoever registers is a guest.
RegisterUser(u) == \E e \in Emails : InsertUser(u, "guest", Lower[e])

\* No endpoint offers this.
CreateUser(u) == \E e \in Emails, role \in UserRole : InsertUser(u, role, Lower[e])

\* The create-admin command takes the e-mail as it is written.  It looks for
\* an account that has it and inserts in a later statement; the INSERT decides
\* the question again, so that they are one step loses nothing.
CreateAdmin(u) == \E e \in Emails : InsertUser(u, "admin", e)

----------------------------------------------------------------------------
(* Tokens                                                                   *)

\* get_current_user: the account exists and its token_version is that of the
\* token.
Accepted(t) ==
  /\ users[t.user] # None
  /\ users[t.user].token_version = t.ver

\* login_user loads the account that has the e-mail in lower case; the password
\* is verified against this copy ...
Login(r, u) ==
  /\ request[r] = None
  /\ Cardinality(tokens) < MaxTokens
  /\ users[u] # None
  /\ \E e \in Emails : users[u].email = Lower[e]
  /\ request' = [request EXCEPT ![r] =
       [op |-> "login", user |-> u, role |-> None, email |-> None, password |-> None,
        step |-> "issuing", copy |-> users[u], locks |-> {}]]
  /\ UNCHANGED <<users, issued, tokens, changes, contested>>

TokenOf(u, row) ==
  [user |-> u, ver |-> row.token_version, password |-> row.password, role |-> row.role]

\* Mutant: the token_version is loaded again after the password was verified.
IssueReloaded(r) ==
  LET u == request[r].user IN
    /\ At(r, {"login"}, "issuing")
    /\ users[u] # None
    /\ tokens' = tokens \cup
         {[TokenOf(u, request[r].copy) EXCEPT !.ver = users[u].token_version]}
    /\ Respond(r)
    /\ UNCHANGED <<users, issued, changes, contested>>

\* ... and the token carries the token_version of the same copy.
IssueToken(r) ==
  /\ At(r, {"login"}, "issuing")
  /\ tokens' = tokens \cup {TokenOf(request[r].user, request[r].copy)}
  /\ Respond(r)
  /\ UNCHANGED <<users, issued, changes, contested>>

----------------------------------------------------------------------------
(* Requests that change accounts                                            *)

WritersOf(u) ==
  {r \in Requests : request[r] # None /\ request[r].op # "login" /\ request[r].user = u}

\* The caller is authenticated first, in the session the handler goes on to
\* use: db.get of the caller's own account returns the copy loaded here.
Accept(r, op, caller, u, form) ==
  /\ request[r] = None
  /\ changes < MaxChanges
  /\ changes' = changes + 1
  /\ contested' = contested \cup {v \in {u} : WritersOf(v) # {}}
  /\ request' = [request EXCEPT ![r] =
       [op |-> op, user |-> u,
        role |-> form.role, email |-> form.email, password |-> form.password,
        step |-> IF op = "update_user_me" THEN "committing"
                 ELSE IF u = caller THEN "checking" ELSE "reading",
        copy |-> IF u = caller THEN users[u] ELSE None,
        locks |-> {}]]
  /\ UNCHANGED <<users, issued, tokens>>

\* The fields of a form; a form that sets several of them is left out, as is
\* one that sets none.
Blank == [role |-> None, email |-> None, password |-> None]

NewPassword == [Blank EXCEPT !.password = changes + 1]

NewEmail == {[Blank EXCEPT !.email = Lower[e]] : e \in Emails}

NewRole == {[Blank EXCEPT !.role = role] : role \in UserRole}

\* PUT /users/me
ChangeOwnAccount(r, t) ==
  /\ Accepted(t)
  /\ \E form \in {NewPassword} \cup NewEmail :
       Accept(r, "update_user_me", t.user, t.user, form)

\* require_admin
Administer(r, t, u) ==
  /\ Accepted(t)
  /\ users[t.user].role = "admin"
  /\ \/ \E form \in {NewPassword} \cup NewEmail \cup NewRole :
          Accept(r, "update_user", t.user, u, form)
     \/ Accept(r, "delete_user", t.user, u, Blank)

\* Mutant: no 404 for an account that does not exist.
LoadAnyUser(r) ==
  /\ At(r, {"update_user", "delete_user"}, "reading")
  /\ Continue(r, "checking", users[request[r].user], {})
  /\ UNCHANGED <<users, issued, tokens, changes, contested>>

\* db.get(User, user_id)
LoadUser(r) ==
  /\ At(r, {"update_user", "delete_user"}, "reading")
  /\ IF users[request[r].user] = None
       THEN Respond(r)
       ELSE Continue(r, "checking", users[request[r].user], {})
  /\ UNCHANGED <<users, issued, tokens, changes, contested>>

AdminIds == {u \in Users : users[u] # None /\ users[u].role = "admin"}

\* Mutant: the admins are counted without FOR UPDATE.
CountAdmins(r) ==
  IF Cardinality(AdminIds) <= 1
    THEN Respond(r)
    ELSE Continue(r, "committing", request[r].copy, {})

LockAdmins(r) ==
  /\ \A u \in AdminIds : ~Locked(r, u)
  /\ IF Cardinality(AdminIds) <= 1
       THEN Respond(r)
       ELSE Continue(r, "committing", request[r].copy, AdminIds)

\* ensure_admin_remains looks at the role the account had when it was loaded.
\* A form without a role counts as one that takes the role away.
EnsureAdminRemains(r) ==
  /\ At(r, {"update_user", "delete_user"}, "checking")
  /\ IF request[r].copy.role # "admin" \/ request[r].role = "admin"
       THEN Continue(r, "committing", request[r].copy, {})
       ELSE LockAdmins(r)
  /\ UNCHANGED <<users, issued, tokens, changes, contested>>

Column(given, loaded, current) == IF given \in {None, loaded} THEN current ELSE given

\* Mutant: a new role leaves the token_version as it is.
UpdatedSilently(q, row) ==
  [role          |-> Column(q.role, q.copy.role, row.role),
   email         |-> Column(q.email, q.copy.email, row.email),
   password      |-> Column(q.password, q.copy.password, row.password),
   token_version |-> IF q.password = None THEN row.token_version
                     ELSE q.copy.token_version + 1]

\* invalidates_tokens: the form gives a password or a role.
Invalidates(q) == q.password # None \/ q.role # None

\* UPDATE users SET <the columns that differ from the copy>: the new
\* token_version, when there is one, is computed from the copy.
Updated(q, row) ==
  [role          |-> Column(q.role, q.copy.role, row.role),
   email         |-> Column(q.email, q.copy.email, row.email),
   password      |-> Column(q.password, q.copy.password, row.password),
   token_version |-> IF Invalidates(q) THEN q.copy.token_version + 1
                     ELSE row.token_version]

\* An UPDATE that matches no row raises StaleDataError, one whose e-mail is
\* taken IntegrityError: see Refuse.
CommitUpdate(r) ==
  LET q == request[r] IN
    /\ At(r, {"update_user_me", "update_user"}, "committing")
    /\ users[q.user] # None
    /\ ~Locked(r, q.user)
    /\ Free(q.user, Updated(q, users[q.user]).email)
    /\ users' = [users EXCEPT ![q.user] = Updated(q, @)]
    /\ Respond(r)
    /\ UNCHANGED <<issued, tokens, changes, contested>>

\* A DELETE that matches no row only warns.
CommitDelete(r) ==
  /\ At(r, {"delete_user"}, "committing")
  /\ ~Locked(r, request[r].user)
  /\ users' = [users EXCEPT ![request[r].user] = None]
  /\ Respond(r)
  /\ UNCHANGED <<issued, tokens, changes, contested>>

\* A constraint, a stale row or a database error: nothing is changed.
Refuse(r) ==
  /\ request[r] # None
  /\ Respond(r)
  /\ UNCHANGED <<users, issued, tokens, changes, contested>>

----------------------------------------------------------------------------

Serve(r) ==
  \/ IssueToken(r) \/ LoadUser(r) \/ EnsureAdminRemains(r)
  \/ CommitUpdate(r) \/ CommitDelete(r) \/ Refuse(r)

Next ==
  \/ \E u \in Users : RegisterUser(u) \/ CreateUser(u) \/ CreateAdmin(u)
  \/ \E r \in Requests : Serve(r)
  \/ \E r \in Requests, u \in Users : Login(r, u)
  \/ \E r \in Requests, t \in tokens : ChangeOwnAccount(r, t)
  \/ \E r \in Requests, t \in tokens, u \in Users : Administer(r, t, u)

Spec == Init /\ [][Next]_vars

----------------------------------------------------------------------------
(* Properties                                                               *)

\* "Cannot remove the last admin account" (ensure_admin_remains): whatever
\* admins do to each other at the same time, one of them is left.
AdminRemains == AdminIds # {}

\* "Bumped on credential/role changes so issued tokens become invalid"
\* (models/user.py): a token that is accepted was issued under the password
\* and the role the account has now.
TokensDieWithCredentials ==
  \A t \in tokens : Accepted(t) =>
    /\ t.password = users[t.user].password
    /\ t.role = users[t.user].role

\* No two accounts have the same e-mail, so a login finds one account at most,
\* whatever registrations, changes of e-mail and create-admin do at once.
EmailsDistinct ==
  \A u, v \in {w \in Users : users[w] # None} : users[u].email = users[v].email => u = v

\* Nobody demotes or deletes the last admin, however many admins do that to
\* each other at the same time; unless the request has loaded the account
\* before it was promoted, for then ensure_admin_remains returns at once.
CheckedRemovalsLeaveAnAdmin ==
  [][AdminIds # {} /\ AdminIds' = {} =>
       \E r \in Requests :
         /\ At(r, {"update_user", "delete_user"}, "committing")
         /\ request'[r] = None
         /\ request[r].user \in AdminIds
         /\ request[r].copy.role # "admin"]_vars

\* The tokens of clients and those about to be issued.
Held ==
  tokens \cup {TokenOf(request[r].user, request[r].copy) :
                  r \in {q \in Requests : At(q, {"login"}, "issuing")}}

\* The token is ahead of its account, or of its version with other credentials.
Unsound(t) ==
  LET row == users[t.user] IN
    /\ row # None
    /\ \/ t.ver > row.token_version
       \/ /\ t.ver = row.token_version
          /\ t.password # row.password \/ t.role # row.role

\* A request changes password or role of an account whose token_version has
\* moved on since the request loaded it: two changes share a version, or the
\* version goes back.
Overtaken(u) ==
  \E r \in Requests :
    /\ CommitUpdate(r)
    /\ request[r].user = u
    /\ Invalidates(request[r])
    /\ request[r].copy.token_version < users[u].token_version

\* "Bumped on credential/role changes so issued tokens become invalid"
\* (models/user.py): a token is good for the password and the role it was
\* issued under and no others, also when it is issued while they change.  Only
\* an overtaken request makes one unsound.
TokensDieUnlessOvertaken ==
  [][\A t \in Held' : Unsound(t)' => (t \in Held /\ Unsound(t)) \/ Overtaken(t.user)]_vars

\* A refused token is accepted again, for the same account or another, only if
\* an overtaken request takes the version back to it, or has taken the version
\* back before so that the next change arrives at it.
RevokedStayRevoked ==
  [][\A t \in tokens :
       ~Accepted(t) /\ Accepted(t)' =>
         \/ users[t.user] # None /\ t.ver > users[t.user].token_version
         \/ Overtaken(t.user)]_vars

\* What clients see of the rows, the tokens and the requests.
AccountOf(row) ==
  IF row = None THEN None
  ELSE [role |-> row.role, email |-> row.email, password |-> row.password]

SessionOf(t) == [user |-> t.user, role |-> t.role, password |-> t.password]

\* A login changes no account.
CallOf(q) ==
  IF q = None \/ q.op = "login" THEN [kind |-> "none"]
  ELSE [kind |-> q.op, user |-> q.user, role |-> q.role, email |-> q.email,
        password |-> q.password]

Service == INSTANCE AccountService WITH
  account  <- [u \in Users |-> AccountOf(users[u])],
  sessions <- {SessionOf(t) : t \in {s \in tokens : Accepted(s)}},
  call     <- [r \in Requests |-> CallOf(request[r])]

\* Requests that load, check and commit in separate steps, tokens that carry
\* a version and admins that are counted under locks make up accounts that
\* change at one moment and sessions that end in that moment; of an account
\* that is changed by two requests at once, less (AccountService says what).
ImplementsService == Service!Spec

=============================================================================
