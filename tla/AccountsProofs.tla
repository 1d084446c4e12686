------------------------- MODULE AccountsProofs -------------------------
(***************************************************************************)
(* Proofs about Accounts, for any calls, emails and passwords, whatever    *)
(* normalizing an email or trimming a password does, provided that doing   *)
(* it twice changes nothing more: the inductive invariant IInv, and that a *)
(* registered user's login is not refused.                                 *)
(***************************************************************************)
EXTENDS Accounts, TLAPS

(* The operation decides which of the four kinds a request is. *)
LEMMA RequestKinds ==
    ASSUME ConstantsAssumption, TypeOK, NEW c \in Calls
    PROVE  /\ req[c].op = "register" => req[c] \in RegisterRequests
           /\ req[c].op = "login" => req[c] \in LoginRequests
           /\ req[c].op = "dummyLogin" => req[c] \in DummyRequests
           /\ req[c].op = "protected" => req[c] \in ProtectedRequests
<1>1. req[c] \in RegisterRequests \cup LoginRequests \cup DummyRequests \cup ProtectedRequests
  BY DEF ConstantsAssumption, TypeOK
<1> QED
  BY <1>1 DEF RegisterRequests, LoginRequests, DummyRequests, ProtectedRequests

(* The rows of the migration are users with different normalized emails. *)
LEMMA DummyRows ==
    ASSUME ConstantsAssumption
    PROVE  /\ DummyUsers \subseteq User
           /\ \A u \in DummyUsers : NormalizeEmail[u.email] = u.email /\ u.secret = {}
           /\ \A u, v \in DummyUsers : u.email = v.email => u = v
  BY DEF ConstantsAssumption, DummyUsers, User, UserIDs, Roles

(* The row a registration is about to insert. *)
LEMMA NewRow ==
    ASSUME ConstantsAssumption, TypeOK, NEW c \in Calls,
           req[c].op = "register", req[c].role \in Roles
    PROVE  /\ NewUser(c) \in User
           /\ NormalizeEmail[NewUser(c).email] = NewUser(c).email
<1>1. req[c].email \in Spellings /\ req[c].password \in Passwords
  BY RequestKinds DEF RegisterRequests
<1> QED
  BY <1>1 DEF ConstantsAssumption, NewUser, User, UserIDs

LEMMA InitInv ==
    ASSUME ConstantsAssumption, Init
    PROVE  IInv
<1>1. TypeOK
  BY DummyRows DEF Init, TypeOK, Answers
<1>2. UsersInv
  BY DummyRows DEF Init, UsersInv
<1>3. CallsInv
  BY DEF Init, CallsInv
<1>4. OneAccountPerEmail
  BY DummyRows DEF Init, OneAccountPerEmail
<1>5. TokensTellTheTruth /\ LoginProvesRegistration
  BY DEF Init, TokensTellTheTruth, LoginProvesRegistration
<1> QED
  BY <1>1, <1>2, <1>3, <1>4, <1>5 DEF IInv

(* An answer that is no new token and no new user. *)
LEMMA AnswerInv ==
    ASSUME ConstantsAssumption, IInv, NEW c \in Calls, NEW a \in Answers \ {"none"},
           Answer(c, a), UNCHANGED <<users, tokens, req>>, clock' \in Nat,
           a = "ok" => req[c].op # "register"
    PROVE  IInv'
<1> USE DEF Answer, IInv
<1>1. TypeOK'
  BY DEF TypeOK
<1>2. UsersInv'
  BY DEF UsersInv, TypeOK, NewUser
<1>3. CallsInv'
  BY DEF CallsInv, TypeOK, NewUser
<1>4. OneAccountPerEmail' /\ TokensTellTheTruth' /\ LoginProvesRegistration'
  BY DEF OneAccountPerEmail, TokensTellTheTruth, LoginProvesRegistration
<1> QED
  BY <1>1, <1>2, <1>3, <1>4

(* A login, by password or not, that is given a token for a row of users:  *)
(* by password, for one made by a registration with that email and         *)
(* password.                                                               *)
LEMMA GiveInv ==
    ASSUME ConstantsAssumption, IInv, NEW c \in Calls,
           req[c].op \in {"login", "dummyLogin"},
           NEW u \in users, Give(c, IssueToken(u.id, u.role)), Answer(c, "ok"),
           UNCHANGED <<clock, users, req>>,
           req[c].op = "login" => \E d \in Calls :
               /\ req[d].op = "register" /\ u.id = d /\ u.role = req[d].role
               /\ NormalizeEmail[req[c].email] = NormalizeEmail[req[d].email]
               /\ req[c].password = TrimSpace[req[d].password]
    PROVE  IInv'
<1> USE DEF Answer, Give, IssueToken, IInv
<1> DEFINE t == IssueToken(u.id, u.role)
<1>1. t \in Token
  BY DEF ConstantsAssumption, TypeOK, Token, User
<1>2. TypeOK'
  BY <1>1 DEF TypeOK, Answers
<1>3. UsersInv'
  BY DEF UsersInv, TypeOK, NewUser
<1>4. CallsInv'
  BY DEF CallsInv, TypeOK, NewUser
<1>5. OneAccountPerEmail'
  BY DEF OneAccountPerEmail
<1>6. \A d \in Calls : tokens'[d] = IF d = c THEN {t} ELSE tokens[d]
  BY DEF TypeOK
<1>7. TokensTellTheTruth'
  BY <1>6 DEF TokensTellTheTruth
<1>8. LoginProvesRegistration'
  BY <1>6 DEF LoginProvesRegistration
<1> QED
  BY <1>2, <1>3, <1>4, <1>5, <1>7, <1>8

LEMMA RegisterInv ==
    ASSUME ConstantsAssumption, IInv, NEW c \in Calls, Register(c)
    PROVE  IInv'
<1>1. ASSUME NEW a \in Refusal(req[c]), Answer(c, a)
      PROVE  IInv'
  <2>1. a \in Answers \ {"none", "ok"}
    BY DEF Refusal, Answers
  <2> QED
    BY <1>1, <2>1, AnswerInv DEF Register, IInv, TypeOK
<1>2. ASSUME Refusal(req[c]) = {}, pc' = [pc EXCEPT ![c] = "insert"], UNCHANGED answer
      PROVE  IInv'
  <2> USE DEF IInv
  <2>1. req[c].role \in Roles
    BY <1>2 DEF Refusal
  <2>2. UNCHANGED <<clock, users, tokens, req, answer>> /\ pc[c] = "received"
        /\ req[c].op = "register"
    BY <1>2 DEF Register
  <2>3. TypeOK'
    BY <1>2, <2>2 DEF TypeOK
  <2>4. UsersInv'
    BY <1>2, <2>2 DEF UsersInv, TypeOK, NewUser
  <2>5. CallsInv'
    BY <1>2, <2>1, <2>2 DEF CallsInv, TypeOK, NewUser
  <2>6. OneAccountPerEmail' /\ TokensTellTheTruth' /\ LoginProvesRegistration'
    BY <2>2 DEF OneAccountPerEmail, TokensTellTheTruth, LoginProvesRegistration
  <2> QED
    BY <2>3, <2>4, <2>5, <2>6
<1> QED
  BY <1>1, <1>2 DEF Register

(* The INSERT finds the email free, or fails; in between nothing keeps     *)
(* another registration from taking it.                                    *)
LEMMA CreateInv ==
    ASSUME ConstantsAssumption, IInv, NEW c \in Calls, Create(c)
    PROVE  IInv'
<1>1. req[c].op = "register" /\ req[c].role \in Roles
  BY DEF Create, IInv, CallsInv
<1>2. CASE EmailConflict(NewUser(c).email) /\ Answer(c, "duplicate key") /\ UNCHANGED users
  BY <1>2, AnswerInv DEF Create, Answers, IInv, TypeOK
<1>3. ASSUME ~EmailConflict(NewUser(c).email), users' = users \cup {NewUser(c)},
             NEW a \in {"ok", "internal"}, Answer(c, a)
      PROVE  IInv'
  <2> USE DEF IInv, Answer
  <2>1. UNCHANGED <<clock, tokens, req>> /\ pc[c] = "insert"
    BY DEF Create
  <2>2. NewUser(c) \in User /\ NormalizeEmail[NewUser(c).email] = NewUser(c).email
    BY <1>1, NewRow
  <2>3. \A u \in users : u.email # NewUser(c).email
    BY <1>3 DEF EmailConflict, GetByEmail
  <2>4. \A d \in Calls : NewUser(d)' = NewUser(d)
    BY <2>1 DEF NewUser
  <2>5. TypeOK'
    BY <1>3, <2>1, <2>2 DEF TypeOK, Answers
  <2>6. UsersInv'
    <3>1. \A u \in users' \ DummyUsers : \E d \in Calls :
              req'[d].op = "register" /\ pc'[d] = "answered" /\ u = NewUser(d)'
      BY <1>1, <1>3, <2>1, <2>4 DEF UsersInv, TypeOK
    <3>2. /\ \A u \in users' : NormalizeEmail[u.email] = u.email
          /\ \A u, v \in users' : u.email = v.email => u = v
      BY <1>3, <2>2, <2>3 DEF UsersInv
    <3> QED
      BY <1>3, <3>1, <3>2 DEF UsersInv
  <2>7. CallsInv'
    BY <1>3, <2>1, <2>4 DEF CallsInv, TypeOK
  <2>8. OneAccountPerEmail'
    BY <2>6 DEF UsersInv, OneAccountPerEmail
  <2>9. TokensTellTheTruth' /\ LoginProvesRegistration'
    BY <1>3, <2>1 DEF TokensTellTheTruth, LoginProvesRegistration
  <2> QED
    BY <2>5, <2>6, <2>7, <2>8, <2>9
<1> QED
  BY <1>2, <1>3 DEF Create

LEMMA LoginInv ==
    ASSUME ConstantsAssumption, IInv, NEW c \in Calls, Login(c)
    PROVE  IInv'
<1> DEFINE matching == {u \in GetByEmail(NormalizeEmail[req[c].email]) :
                           Compare(u, req[c].password)}
<1>1. req[c].op = "login" /\ UNCHANGED <<clock, users, req>>
  BY DEF Login
<1>2. CASE Answer(c, "ErrInvalidCredentials") /\ UNCHANGED tokens
  BY <1>1, <1>2, AnswerInv DEF Answers, IInv, TypeOK
<1>3. ASSUME NEW u \in matching, Give(c, IssueToken(u.id, u.role)), Answer(c, "ok")
      PROVE  IInv'
  <2>1. /\ u \in users /\ u.email = NormalizeEmail[req[c].email]
        /\ req[c].password \in u.secret
    BY DEF GetByEmail, Compare
  <2>2. u \notin DummyUsers
    BY <2>1, DummyRows
  <2>3. PICK d \in Calls : req[d].op = "register" /\ u = NewUser(d)
    BY <2>1, <2>2 DEF IInv, UsersInv
  <2>4. /\ u.id = d /\ u.role = req[d].role /\ u.email = NormalizeEmail[req[d].email]
        /\ u.secret = {TrimSpace[req[d].password]}
    BY <2>3 DEF NewUser
  <2> HIDE DEF matching
  <2> QED
    BY <1>1, <1>3, <2>1, <2>3, <2>4, GiveInv
<1> QED
  BY <1>2, <1>3 DEF Login

LEMMA DummyLoginInv ==
    ASSUME ConstantsAssumption, IInv, NEW c \in Calls, DummyLogin(c)
    PROVE  IInv'
<1>1. req[c].op = "dummyLogin" /\ UNCHANGED <<clock, users, req>>
  BY DEF DummyLogin
<1>2. CASE Answer(c, "ErrInvalidRole") /\ UNCHANGED tokens
  BY <1>1, <1>2, AnswerInv DEF Answers, IInv, TypeOK
<1>3. ASSUME req[c].role \in Roles, Answer(c, "ok"),
             Give(c, IssueToken(DummyUserIDForRole(req[c].role), req[c].role))
      PROVE  IInv'
  <2>1. PICK u \in DummyUsers : u.id = DummyUserIDForRole(req[c].role) /\ u.role = req[c].role
    BY <1>3 DEF DummyUsers, DummyUserIDForRole, Roles
  <2>2. u \in users
    BY DEF IInv, UsersInv
  <2> QED
    BY <1>1, <1>3, <2>1, <2>2, GiveInv
<1> QED
  BY <1>2, <1>3 DEF DummyLogin

(* A step of a call, or of the clock. *)
LEMMA NextInv ==
    ASSUME ConstantsAssumption, IInv, [Next]_vars
    PROVE  IInv'
<1>1. ASSUME NEW c \in Calls, Protected(c)
      PROVE  IInv'
  <2>1. PICK a \in {"ErrUnauthorized", "ok", "invalid token"} : Answer(c, a)
    BY <1>1 DEF Protected
  <2> QED
    BY <1>1, <2>1, AnswerInv DEF Protected, Answers, IInv, TypeOK
<1>2. ASSUME NEW c \in Calls, Fail(c)
      PROVE  IInv'
  BY <1>2, AnswerInv DEF Fail, Answers, IInv, TypeOK
<1>3. CASE Tick \/ UNCHANGED vars
  <2>1. UNCHANGED <<users, tokens, req, pc, answer>> /\ clock' \in Nat
    BY <1>3 DEF Tick, vars, IInv, TypeOK
  <2> QED
    BY <2>1 DEF IInv, TypeOK, UsersInv, CallsInv, NewUser, OneAccountPerEmail,
                TokensTellTheTruth, LoginProvesRegistration
<1> QED
  BY <1>1, <1>2, <1>3, RegisterInv, CreateInv, LoginInv, DummyLoginInv DEF Next

(* Whatever registrations, logins and failures interleave, a reachable     *)
(* state satisfies IInv.                                                   *)
THEOREM Invariance == Spec => []IInv
<1>1. Init => IInv
  BY InitInv, ConstantsAssumption
<1>2. IInv /\ [Next]_vars => IInv'
  BY NextInv, ConstantsAssumption
<1> QED
  BY <1>1, <1>2, PTL DEF Spec

(* The rows of users, the tokens and the answers are of the types that the *)
(* code gives them.                                                        *)
THEOREM TypeCorrect == Spec => []TypeOK
<1>1. IInv => TypeOK
  BY DEF IInv
<1> QED
  BY <1>1, Invariance, PTL

(* Registrations that race leave one account an email, however it is       *)
(* spelled (users.email UNIQUE, NormalizeEmail).                           *)
THEOREM OneAccount == Spec => []OneAccountPerEmail
<1>1. IInv => OneAccountPerEmail
  BY DEF IInv
<1> QED
  BY <1>1, Invariance, PTL

(* Every token in circulation names a row of users with its role, so that  *)
(* the middleware may trust it without a look-up.                          *)
THEOREM TokensAreTrue == Spec => []TokensTellTheTruth
<1>1. IInv => TokensTellTheTruth
  BY DEF IInv
<1> QED
  BY <1>1, Invariance, PTL

(* Whoever logged in by password has registered that email and password:   *)
(* nobody becomes a user of dummyLogin this way.                           *)
THEOREM LoginsAreEarned == Spec => []LoginProvesRegistration
<1>1. IInv => LoginProvesRegistration
  BY DEF IInv
<1> QED
  BY <1>1, Invariance, PTL

(* Once a registration was acknowledged, a login with its email in any     *)
(* spelling and its trimmed password is not refused.                       *)
THEOREM RegisteredLogIn == Spec => RegisteredCanLogIn
<1> DEFINE Accepted == \A c, d \in Calls :
        /\ req[c].op = "register" /\ answer[c] = "ok"
        /\ req[d].op = "login" /\ answer[d] = "none"
        /\ NormalizeEmail[req[d].email] = NormalizeEmail[req[c].email]
        /\ req[d].password = TrimSpace[req[c].password]
        => answer'[d] # "ErrInvalidCredentials"
<1>1. IInv /\ [Next]_vars => Accepted
  <2> SUFFICES ASSUME IInv, [Next]_vars, NEW c \in Calls, NEW d \in Calls,
                      req[c].op = "register", answer[c] = "ok",
                      req[d].op = "login", answer[d] = "none",
                      NormalizeEmail[req[d].email] = NormalizeEmail[req[c].email],
                      req[d].password = TrimSpace[req[c].password],
                      answer'[d] = "ErrInvalidCredentials"
               PROVE  FALSE
    OBVIOUS
  <2>1. Login(d)
    <3>1. answer' # answer
      OBVIOUS
    <3>2. PICK e \in Calls : \/ Register(e) \/ Create(e) \/ Login(e)
                             \/ DummyLogin(e) \/ Protected(e) \/ Fail(e)
      BY <3>1 DEF Next, Tick, vars
    <3>3. e = d
      <4>1. \E a : answer' = [answer EXCEPT ![e] = a]
        BY <3>1, <3>2 DEF Register, Create, Login, DummyLogin, Protected, Fail, Answer
      <4> QED
        BY <4>1 DEF IInv, TypeOK
    <3>4. ~Register(d) /\ ~Create(d) /\ ~DummyLogin(d) /\ ~Protected(d)
      BY DEF Register, Create, DummyLogin, Protected, IInv, CallsInv
    <3>5. ~Fail(d)
      BY DEF Fail, Answer, IInv, TypeOK
    <3> QED
      BY <3>2, <3>3, <3>4, <3>5
  <2>2. NewUser(c) \in GetByEmail(NormalizeEmail[req[d].email])
    BY DEF IInv, CallsInv, GetByEmail, NewUser
  <2>3. Compare(NewUser(c), req[d].password)
    BY DEF Compare, NewUser
  <2>4. answer'[d] = "ok"
    BY <2>1, <2>2, <2>3 DEF Login, Answer, IInv, TypeOK
  <2> QED
    BY <2>4
<1> QED
  BY <1>1, Invariance, PTL DEF Spec, RegisteredCanLogIn
=============================================================================
