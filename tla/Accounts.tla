---------------------------- MODULE Accounts ----------------------------
(***************************************************************************)
(* Users and tokens: registration, login by password, the fixed users of   *)
(* dummyLogin, and the middleware that admits a request by its token.      *)
(* Registration looks the email up and inserts the user in two statements  *)
(* with no transaction around them.                                        *)
(* The requests are those of the service.  A body whose email is no        *)
(* address fails before that, when it is decoded, and is answered 500 as   *)
(* every apiError is (Transport); here the service would refuse it.        *)
(***************************************************************************)
EXTENDS Naturals

CONSTANTS
    Calls,          \* calls to /register, /login, /dummyLogin and the protected API
    Emails,         \* email addresses in lower case
    Spellings,      \* what clients write for an email: addresses or not
    NormalizeEmail, \* trimmed and in lower case
    Passwords,      \* what clients type
    TrimSpace,      \* a password without surrounding white space
    Blank,          \* the empty password
    DummyAdmin, DummyUser,  \* the users migrations/000001_init.up.sql inserts
    DummyEmail,     \* their emails
    TTL,            \* lifetime of a token
    Requests,       \* the requests clients may send
    MaxTime         \* bound: the last instant of the clock

Roles == {"admin", "user"}
UserIDs == Calls \cup {DummyAdmin, DummyUser}

RegisterRequests ==
    [op : {"register"}, email : Spellings, password : Passwords, role : Roles \cup {"guest"}]
LoginRequests == [op : {"login"}, email : Spellings, password : Passwords]
DummyRequests == [op : {"dummyLogin"}, role : Roles \cup {"guest"}]
ProtectedRequests == [op : {"protected"}, token : Calls]  \* the token another call was given

ASSUME ConstantsAssumption ==
    /\ DummyAdmin \notin Calls /\ DummyUser \notin Calls /\ DummyAdmin # DummyUser
    /\ Emails \subseteq Spellings /\ NormalizeEmail \in [Spellings -> Spellings]
    /\ \A e \in Spellings : NormalizeEmail[NormalizeEmail[e]] = NormalizeEmail[e]
    /\ TrimSpace \in [Passwords -> Passwords]
    /\ \A p \in Passwords : TrimSpace[TrimSpace[p]] = TrimSpace[p]
    /\ Blank \in Passwords /\ TrimSpace[Blank] = Blank
    /\ DummyEmail \in [{DummyAdmin, DummyUser} -> Emails]
    /\ DummyEmail[DummyAdmin] # DummyEmail[DummyUser]
    /\ \A d \in {DummyAdmin, DummyUser} : NormalizeEmail[DummyEmail[d]] = DummyEmail[d]
    /\ TTL \in Nat \ {0}
    /\ Requests \subseteq RegisterRequests \cup LoginRequests
                             \cup DummyRequests \cup ProtectedRequests
    /\ MaxTime \in Nat

(* secret is the password the stored hash was made from; a user without a  *)
(* hash has none.                                                          *)
User == [id : UserIDs, email : Spellings, secret : SUBSET Passwords, role : Roles]

Token == [user : UserIDs, role : Roles, expiresAt : Nat]

Answers == {"none", "ok", "ErrInvalidPassword", "ErrInvalidEmail", "ErrInvalidRole",
            "ErrEmailAlreadyExists", "ErrInvalidCredentials", "ErrUnauthorized",
            "invalid token", "duplicate key", "internal"}

VARIABLES
    clock,
    users,      \* the rows of table users
    tokens,     \* the token each call was given, {} if none
    req, pc,    \* each call's request and next statement
    answer      \* what the handler returned to the client

vars == <<clock, users, tokens, req, pc, answer>>

TypeOK ==
    /\ clock \in Nat
    /\ users \in SUBSET User
    /\ tokens \in [Calls -> SUBSET Token]
    /\ req \in [Calls -> Requests]
    /\ pc \in [Calls -> {"received", "insert", "answered"}]
    /\ answer \in [Calls -> Answers]

(* The rows the migration inserts, without a hash. *)
DummyUsers ==
    {[id |-> DummyAdmin, email |-> DummyEmail[DummyAdmin], secret |-> {}, role |-> "admin"],
     [id |-> DummyUser, email |-> DummyEmail[DummyUser], secret |-> {}, role |-> "user"]}

Init ==
    /\ clock = 0
    /\ users = DummyUsers
    /\ tokens = [c \in Calls |-> {}]
    /\ req \in [Calls -> Requests]
    /\ pc = [c \in Calls |-> "received"]
    /\ answer = [c \in Calls |-> "none"]

----------------------------------------------------------------------------
GetByEmail(email) == {u \in users : u.email = email}

(* Variant: users.email is not UNIQUE. *)
EmailConflictNever(email) == FALSE

(* users.email is UNIQUE. *)
EmailConflict(email) == GetByEmail(email) # {}

(* Variant: an account without a password accepts any. *)
CompareOrNoHash(u, password) == u.secret \subseteq {password}

(* bcrypt compares with the hash that was stored. *)
Compare(u, password) == password \in u.secret

IssueToken(id, role) == [user |-> id, role |-> role, expiresAt |-> clock + TTL]

IsLive(t) == clock < t.expiresAt

(* Variant: every role is given the same user. *)
DummyAdminForEveryRole(role) == DummyAdmin

DummyUserIDForRole(role) == IF role = "admin" THEN DummyAdmin ELSE DummyUser

Answer(c, a) ==
    /\ pc' = [pc EXCEPT ![c] = "answered"]
    /\ answer' = [answer EXCEPT ![c] = a]

Give(c, t) == tokens' = [tokens EXCEPT ![c] = {t}]

----------------------------------------------------------------------------
(* Variant: the email is stored as it was typed. *)
NewUserAsTyped(c) ==
    [id |-> c, email |-> req[c].email,
     secret |-> {TrimSpace[req[c].password]}, role |-> req[c].role]

(* The password is hashed without its surrounding white space. *)
NewUser(c) ==
    [id |-> c, email |-> NormalizeEmail[req[c].email],
     secret |-> {TrimSpace[req[c].password]}, role |-> req[c].role]

(* Variant: any role may register. *)
RefusalButForRole(r) ==
    IF TrimSpace[r.password] = Blank THEN {"ErrInvalidPassword"}
    ELSE IF NormalizeEmail[r.email] \notin Emails THEN {"ErrInvalidEmail"}
    ELSE IF GetByEmail(NormalizeEmail[r.email]) # {} THEN {"ErrEmailAlreadyExists"}
    ELSE {}

(* What a registration is refused with before it inserts, in the order of  *)
(* the code; {} if nothing refuses it.                                     *)
Refusal(r) ==
    IF TrimSpace[r.password] = Blank THEN {"ErrInvalidPassword"}
    ELSE IF NormalizeEmail[r.email] \notin Emails THEN {"ErrInvalidEmail"}
    ELSE IF r.role \notin Roles THEN {"ErrInvalidRole"}
    ELSE IF GetByEmail(NormalizeEmail[r.email]) # {} THEN {"ErrEmailAlreadyExists"}
    ELSE {}

(* Register, up to the look-up of the email. *)
Register(c) ==
    /\ pc[c] = "received" /\ req[c].op = "register"
    /\ \/ \E a \in Refusal(req[c]) : Answer(c, a)
       \/ /\ Refusal(req[c]) = {}
          /\ pc' = [pc EXCEPT ![c] = "insert"]
          /\ UNCHANGED answer
    /\ UNCHANGED <<clock, users, tokens, req>>

(* The repository does not tell a violation of UNIQUE (email) from any     *)
(* other error of the driver.  The acknowledgement may be lost.            *)
Create(c) ==
    /\ pc[c] = "insert"
    /\ \/ EmailConflict(NewUser(c).email) /\ Answer(c, "duplicate key") /\ UNCHANGED users
       \/ /\ ~EmailConflict(NewUser(c).email)
          /\ users' = users \cup {NewUser(c)}
          /\ \E a \in {"ok", "internal"} : Answer(c, a)
    /\ UNCHANGED <<clock, tokens, req>>

(* Login compares the password as it was typed. *)
Login(c) ==
    LET matching == {u \in GetByEmail(NormalizeEmail[req[c].email]) :
                        Compare(u, req[c].password)} IN
    /\ pc[c] = "received" /\ req[c].op = "login"
    /\ \/ matching = {} /\ Answer(c, "ErrInvalidCredentials") /\ UNCHANGED tokens
       \/ \E u \in matching : Give(c, IssueToken(u.id, u.role)) /\ Answer(c, "ok")
    /\ UNCHANGED <<clock, users, req>>

DummyLogin(c) ==
    /\ pc[c] = "received" /\ req[c].op = "dummyLogin"
    /\ \/ req[c].role \notin Roles /\ Answer(c, "ErrInvalidRole") /\ UNCHANGED tokens
       \/ /\ req[c].role \in Roles
          /\ Give(c, IssueToken(DummyUserIDForRole(req[c].role), req[c].role))
          /\ Answer(c, "ok")
    /\ UNCHANGED <<clock, users, req>>

(* authMiddleware, in front of every other endpoint: a client that was     *)
(* given no token sends no header.                                         *)
Protected(c) ==
    LET sent == tokens[req[c].token] IN
    /\ pc[c] = "received" /\ req[c].op = "protected"
    /\ \/ sent = {} /\ Answer(c, "ErrUnauthorized")
       \/ \E t \in sent : Answer(c, IF IsLive(t) THEN "ok" ELSE "invalid token")
    /\ UNCHANGED <<clock, users, tokens, req>>

(* A statement fails, the call times out or the server stops. *)
Fail(c) ==
    /\ pc[c] # "answered"
    /\ Answer(c, "internal")
    /\ UNCHANGED <<clock, users, tokens, req>>

Tick ==
    /\ clock < MaxTime
    /\ clock' = clock + 1
    /\ UNCHANGED <<users, tokens, req, pc, answer>>

Next ==
    \/ \E c \in Calls : \/ Register(c) \/ Create(c) \/ Login(c)
                        \/ DummyLogin(c) \/ Protected(c) \/ Fail(c)
    \/ Tick

Spec == Init /\ [][Next]_vars

----------------------------------------------------------------------------
(* Two registrations that both looked an email up before either inserted   *)
(* it leave one account: rows with one email are one row, whatever case    *)
(* the clients wrote it in.                                                *)
OneAccountPerEmail ==
    \A u, v \in users : NormalizeEmail[u.email] = NormalizeEmail[v.email] => u = v

(* The middleware takes user and role from the token and never looks them  *)
(* up: every token in circulation must name a row of users with its role.  *)
TokensTellTheTruth ==
    \A c \in Calls : \A t \in tokens[c] :
        \E u \in users : u.id = t.user /\ u.role = t.role

(* A token of login was obtained with the email and the password of one    *)
(* registration, and is for the user that registration created; so nobody  *)
(* logs in by password as a user of dummyLogin.                            *)
LoginProvesRegistration ==
    \A c \in Calls : req[c].op = "login" =>
        \A t \in tokens[c] : \E d \in Calls :
            /\ req[d].op = "register" /\ t.user = d /\ t.role = req[d].role
            /\ NormalizeEmail[req[c].email] = NormalizeEmail[req[d].email]
            /\ req[c].password = TrimSpace[req[d].password]

(* Once a registration was acknowledged, a login with its email in any     *)
(* spelling and its password, trimmed, is not refused.  (Untrimmed it is:  *)
(* service.go:84 trims the password and service.go:123 does not.)          *)
RegisteredCanLogIn == [][
    \A c, d \in Calls :
        /\ req[c].op = "register" /\ answer[c] = "ok"
        /\ req[d].op = "login" /\ answer[d] = "none"
        /\ NormalizeEmail[req[d].email] = NormalizeEmail[req[c].email]
        /\ req[d].password = TrimSpace[req[c].password]
        => answer'[d] # "ErrInvalidCredentials"]_vars

(* api.yaml: register answers 400 when the email is taken.  A registration *)
(* that loses the race is answered with the error of the driver.           *)
TakenEmailIsRefused == \A c \in Calls : answer[c] # "duplicate key"

----------------------------------------------------------------------------
(* Why accounts, passwords and tokens agree: the parts of an inductive     *)
(* invariant.                                                              *)

(* Every row is one of the migration's or made by a registration that      *)
(* passed the checks and is over; emails are stored normalized, once each. *)
UsersInv ==
    /\ DummyUsers \subseteq users
    /\ \A u \in users \ DummyUsers : \E d \in Calls :
          req[d].op = "register" /\ pc[d] = "answered" /\ u = NewUser(d)
    /\ \A u \in users : NormalizeEmail[u.email] = u.email
    /\ \A u, v \in users : u.email = v.email => u = v

(* What a call has been checked for, achieved or been given so far.        *)
CallsInv ==
    \A c \in Calls :
        /\ pc[c] = "insert" => req[c].op = "register" /\ req[c].role \in Roles
        /\ pc[c] # "answered" => answer[c] = "none"
        /\ req[c].op = "register" /\ answer[c] = "ok" => NewUser(c) \in users
        /\ req[c].op \in {"register", "protected"} => tokens[c] = {}

IInv ==
    /\ TypeOK
    /\ UsersInv
    /\ CallsInv
    /\ OneAccountPerEmail
    /\ TokensTellTheTruth
    /\ LoginProvesRegistration
=============================================================================
