-------------------------- MODULE ServerProofs --------------------------
(* Proofs about Server, for any requests, size of the pool and bound.      *)
EXTENDS Server, TLAPS

(* The first states satisfy the invariant: nothing was sent. *)
LEMMA InitInv == Init => IInv
  BY ServerAssumption
  DEF Init, IInv, RequestInv, PCs, StartInv, StopInv, ExitTellsTruth, NothingWithoutToken, Active

(* No error is mapped to a success. *)
LEMMA ErrorStatus == \A e : MapAPIError(e) \in Nat /\ MapAPIError(e) \notin {200, 201}
  BY DEF MapAPIError

(* A request that passes the middleware has a token that parses. *)
LEMMA AuthPassed ==
  ASSUME NEW r \in AllRequests, r.endpoint \notin Public, AuthErrors(r) = {}
  PROVE  r.token \in {"admin", "user"}
  <1>1. r.token \in {"none", "invalid", "admin", "user"}
    BY DEF AllRequests, RequestsOf
  <1>2. QED BY <1>1 DEF AuthErrors

(* A request that enters its service has a role it allows. *)
LEMMA EntryPassed ==
  ASSUME NEW r \in AllRequests, r.endpoint \notin Public, EntryErrors(r) = {}
  PROVE  r.token \in Allowed(r.endpoint)
  BY DEF EntryErrors

(* The steps of run leave the requests alone, but for the exit. *)
LEMMA MainStepInv == IInv /\ (MainStep \/ Signal \/ ListenFails) => IInv'
  <1> SUFFICES ASSUME IInv, MainStep \/ Signal \/ ListenFails PROVE IInv'
    OBVIOUS
  <1> USE DEF IInv, RequestInv, StartInv, StopInv, ExitTellsTruth, NothingWithoutToken,
              Active, Main, calls
  <1>1. CASE Start BY <1>1 DEF Start
  <1>2. CASE ShutDown BY <1>2 DEF ShutDown
  <1>3. CASE Drained BY <1>3 DEF Drained
  <1>4. CASE ShutdownTimesOut BY <1>4 DEF ShutdownTimesOut
  <1>5. CASE Exit
    <2>1. \A c \in Calls : \/ pc'[c] = pc[c]
                           \/ pc[c] = "accepted" /\ pc'[c] = "dropped"
                           \/ Active(c) /\ pc'[c] = "cut"
      BY <1>5 DEF Exit, CutOff
    <2>2. main = "closing" /\ main' = "exited" /\ result' = result
            /\ UNCHANGED <<req, uses, status>>
      BY <1>5 DEF Exit
    <2>3. ExitTellsTruth' /\ StopInv' /\ StartInv' /\ RequestInv'
      <3>1. \A c \in Calls : pc'[c] = "accepted" \/ Active(c)' => FALSE
        BY <1>5 DEF Exit, CutOff
      <3>2. result = "ok" => \A c \in Calls : pc'[c] # "cut"
        BY <2>1, <2>2
      <3>3. pc' = [c \in Calls |-> pc'[c]]
        BY <1>5 DEF Exit, CutOff
      <3>4. \A c \in Calls : pc'[c] \in PCs
        BY <2>1 DEF PCs
      <3>5. pc' \in [Calls -> PCs]
        BY <3>3, <3>4
      <3>6. QED BY <2>2, <3>1, <3>2, <3>5
    <2>4. NothingWithoutToken'
      BY <2>1, <2>2
    <2>5. QED BY <2>3, <2>4
  <1>6. CASE Signal BY <1>6 DEF Signal
  <1>7. CASE ListenFails BY <1>7 DEF ListenFails
  <1>8. QED BY <1>1, <1>2, <1>3, <1>4, <1>5, <1>6, <1>7 DEF MainStep

(* What the steps of a request have in common: run, the request itself and *)
(* the other requests stay as they are.                                    *)
CallStep(c) ==
    \/ Connect(c) \/ Drop(c) \/ Route(c) \/ ReadBody(c)
    \/ Enter(c) \/ Acquire(c) \/ Release(c) \/ Reply(c)

LEMMA CallFrame ==
  ASSUME IInv, NEW c \in Calls, CallStep(c)
  PROVE  /\ UNCHANGED <<main, signalled, result, req>>
         /\ \A d \in Calls : d # c => pc'[d] = pc[d] /\ status'[d] = status[d]
  BY DEF IInv, RequestInv, CallStep, Connect, Drop, Route, ReadBody, Enter, Acquire, Release,
         Reply, Stay, Goto, Answer

(* Where the step of a request leads, and what it is answered. *)
LEMMA CallTarget ==
  ASSUME IInv, NEW c \in Calls, CallStep(c)
  PROVE  /\ RequestInv'
         /\ pc'[c] # "cut"
         /\ pc'[c] = "accepted" => main = "serving"
         /\ pc'[c] \in {"body", "entry", "service", "query", "answered", "dropped"}
              => pc[c] = "accepted" \/ Active(c)
         /\ pc'[c] \in {"body", "entry"} => pc[c] = "body" \/ AuthErrors(req[c]) = {}
         /\ pc'[c] \in {"service", "query"} =>
              pc[c] \in {"service", "query"} \/ EntryErrors(req[c]) = {}
         /\ status'[c] \in {200, 201} => status[c] \in {200, 201} \/ pc[c] = "service"
  <1> USE ErrorStatus DEF IInv, RequestInv, PCs, Stay, Goto, Answer, Active
  <1>1. CASE Connect(c) BY <1>1 DEF Connect
  <1>2. CASE Drop(c) BY <1>2 DEF Drop
  <1>3. CASE Route(c) BY <1>3 DEF Route
  <1>4. CASE ReadBody(c) BY <1>4 DEF ReadBody
  <1>5. CASE Enter(c) BY <1>5 DEF Enter
  <1>6. CASE Acquire(c) BY <1>6 DEF Acquire
  <1>7. CASE Release(c) BY <1>7 DEF Release
  <1>8. CASE Reply(c) BY <1>8 DEF Reply, Success
  <1>9. QED BY <1>1, <1>2, <1>3, <1>4, <1>5, <1>6, <1>7, <1>8 DEF CallStep

(* The steps of a request keep the invariant. *)
LEMMA CallStepInv ==
  ASSUME IInv, NEW c \in Calls, CallStep(c)
  PROVE  IInv'
  <1>1. /\ UNCHANGED <<main, signalled, result, req>>
        /\ \A d \in Calls : d # c => pc'[d] = pc[d] /\ status'[d] = status[d]
    BY CallFrame
  <1>2. req[c] \in AllRequests
    BY DEF IInv, RequestInv
  <1>3. StartInv'
    <2>1. main = "starting" => pc'[c] \in {"unsent", "refused"}
      BY <1>2, CallTarget DEF IInv, StartInv, Active, RequestInv, PCs
    <2>2. QED BY <1>1, <2>1 DEF IInv, StartInv
  <1>4. StopInv' /\ ExitTellsTruth'
    BY <1>1, CallTarget DEF IInv, StopInv, ExitTellsTruth, Active
  <1>5. NothingWithoutToken'
    <2> SUFFICES ASSUME req[c].endpoint \notin Public
        PROVE  /\ pc'[c] \in {"body", "entry"} => req[c].token \in {"admin", "user"}
               /\ pc'[c] \in {"service", "query"} => req[c].token \in Allowed(req[c].endpoint)
               /\ status'[c] \in {200, 201} => req[c].token \in Allowed(req[c].endpoint)
      BY <1>1 DEF IInv, NothingWithoutToken
    <2>1. pc'[c] \in {"body", "entry"} => req[c].token \in {"admin", "user"}
      BY <1>2, CallTarget, AuthPassed DEF IInv, NothingWithoutToken
    <2>2. pc'[c] \in {"service", "query"} => req[c].token \in Allowed(req[c].endpoint)
      BY <1>2, CallTarget, EntryPassed DEF IInv, NothingWithoutToken
    <2>3. status'[c] \in {200, 201} => req[c].token \in Allowed(req[c].endpoint)
      BY CallTarget DEF IInv, NothingWithoutToken
    <2>4. QED BY <2>1, <2>2, <2>3
  <1>6. QED BY <1>3, <1>4, <1>5, CallTarget DEF IInv

(* Every step keeps the invariant. *)
LEMMA NextInv == IInv /\ [Next]_vars => IInv'
  <1> SUFFICES ASSUME IInv, [Next]_vars PROVE IInv'
    OBVIOUS
  <1>1. CASE MainStep \/ Signal \/ ListenFails
    BY <1>1, MainStepInv
  <1>2. CASE \E c \in Calls : CallStep(c)
    BY <1>2, CallStepInv
  <1>3. CASE UNCHANGED vars
    BY <1>3 DEF vars, calls, IInv, RequestInv, StartInv, StopInv, ExitTellsTruth,
                NothingWithoutToken, Active
  <1>4. QED BY <1>1, <1>2, <1>3 DEF Next, CallStep

(* The invariant of the server's life holds for any number of requests of  *)
(* any kind, any pool and any bound on its uses.                           *)
THEOREM Invariance == Spec => []IInv
  BY InitInv, NextInv, PTL DEF Spec

(* Exit code 0 means that no handler was cut. *)
THEOREM ExitCodeIsTrue == Spec => []ExitTellsTruth
  <1>1. IInv => ExitTellsTruth
    BY DEF IInv
  <1>2. QED BY <1>1, Invariance, PTL

(* No protected endpoint does anything for who has no valid token. *)
THEOREM TokenComesFirst == Spec => []NothingWithoutToken
  <1>1. IInv => NothingWithoutToken
    BY DEF IInv
  <1>2. QED BY <1>1, Invariance, PTL

----------------------------------------------------------------------------
(* What any stage refuses a request with has a status of its endpoint's    *)
(* responses, the service's roles once the token was looked at.            *)
LEMMA ErrorsAreDocumented ==
  ASSUME NEW r \in AllRequests
  PROVE  /\ \A e \in BindErrors(r) \cup AuthErrors(r) \cup DecodeErrors(r) :
               MapAPIError(e) \in Documented(r.endpoint)
         /\ r.endpoint \in Public \/ r.token \in {"admin", "user"} =>
               \A e \in EntryErrors(r) : MapAPIError(e) \in Documented(r.endpoint)
         /\ \A e \in ServiceErrors(r.endpoint) : MapAPIError(e) \in Documented(r.endpoint)
  <1>1. r.endpoint \in Endpoints
    BY DEF AllRequests, RequestsOf
  <1>2. \A e \in BindErrors(r) \cup DecodeErrors(r) : MapAPIError(e) = 500
    BY DEF BindErrors, DecodeErrors, MapAPIError
  <1>3. 500 \in Documented(r.endpoint)
    BY DEF Documented
  <1>4. \A e \in AuthErrors(r) : MapAPIError(e) \in Documented(r.endpoint)
    <2>1. AuthErrors(r) \subseteq {"invalid token", "ErrUnauthorized"}
          /\ (r.endpoint \in Public => AuthErrors(r) = {})
      BY DEF AuthErrors
    <2>2. MapAPIError("invalid token") = 500 /\ MapAPIError("ErrUnauthorized") = 401
      BY DEF MapAPIError
    <2>3. r.endpoint \in Endpoints \ Public => 401 \in Documented(r.endpoint)
      BY DEF Documented, Endpoints, Public
    <2>4. ASSUME NEW e \in AuthErrors(r)
          PROVE  MapAPIError(e) \in Documented(r.endpoint)
      <3>1. r.endpoint \notin Public /\ r.endpoint \in Endpoints \ Public
        BY <1>1, <2>1
      <3>2. CASE e = "invalid token" BY <1>3, <2>2, <3>2
      <3>3. CASE e = "ErrUnauthorized" BY <2>2, <2>3, <3>1, <3>3
      <3>4. QED BY <2>1, <3>2, <3>3
    <2>5. QED BY <2>4
  <1>5. r.endpoint \in Public \/ r.token \in {"admin", "user"} =>
               \A e \in EntryErrors(r) : MapAPIError(e) \in Documented(r.endpoint)
    <2>1. EntryErrors(r) \subseteq {"page too large", "ErrForbidden"}
      BY DEF EntryErrors
    <2>2. MapAPIError("page too large") = 500 /\ MapAPIError("ErrForbidden") = 403
      BY DEF MapAPIError
    <2>3. ASSUME r.endpoint \in Public \/ r.token \in {"admin", "user"},
                 "ErrForbidden" \in EntryErrors(r)
          PROVE  Allowed(r.endpoint) # {"admin", "user"} /\ r.endpoint \notin Public
      BY <2>3 DEF EntryErrors
    <2>4. r.endpoint \in Endpoints \ Public /\ Allowed(r.endpoint) # {"admin", "user"}
            => 403 \in Documented(r.endpoint)
      BY DEF Allowed, Documented, Endpoints, Public
    <2>5. ASSUME r.endpoint \in Public \/ r.token \in {"admin", "user"},
                 NEW e \in EntryErrors(r)
          PROVE  MapAPIError(e) \in Documented(r.endpoint)
      <3>1. CASE e = "page too large" BY <1>3, <2>2, <3>1
      <3>2. CASE e = "ErrForbidden"
        <4>1. "ErrForbidden" \in EntryErrors(r)
          BY <2>5, <3>2
        <4>2. 403 \in Documented(r.endpoint)
          BY <1>1, <2>3, <2>4, <2>5, <4>1
        <4>3. QED BY <2>2, <3>2, <4>2
      <3>3. QED BY <2>1, <3>1, <3>2
    <2>6. QED BY <2>5
  <1>6. \A e \in ServiceErrors(r.endpoint) : MapAPIError(e) \in Documented(r.endpoint)
    BY <1>1 DEF ServiceErrors, MapAPIError, Documented, Endpoints, Public
  <1>7. QED BY <1>2, <1>3, <1>4, <1>5, <1>6

(* A step of a request answers it with a documented status. *)
LEMMA AnswerIsDocumented ==
  ASSUME IInv, AnswersAreDocumented, NEW c \in Calls, CallStep(c)
  PROVE  AnswersAreDocumented'
  <1>1. /\ req' = req /\ req[c] \in AllRequests
        /\ \A d \in Calls : d # c => status'[d] = status[d]
    BY CallFrame DEF IInv, RequestInv
  <1>2. status'[c] \in {0} \cup Documented(req[c].endpoint)
    <2> USE DEF IInv, RequestInv, Goto, Answer
    <2>1. status[c] \in {0} \cup Documented(req[c].endpoint)
      BY DEF AnswersAreDocumented
    <2>2. CASE status' = status
      BY <2>1, <2>2
    <2>3. ASSUME NEW e \in BindErrors(req[c]) \cup AuthErrors(req[c]) \cup DecodeErrors(req[c]),
                 Answer(c, MapAPIError(e))
          PROVE  status'[c] \in Documented(req[c].endpoint)
      BY <1>1, <2>3, ErrorsAreDocumented
    <2>4. CASE Route(c)
      BY <2>2, <2>3, <2>4 DEF Route
    <2>5. CASE ReadBody(c)
      BY <2>2, <2>3, <2>5 DEF ReadBody
    <2>6. CASE Enter(c)
      <3>1. req[c].endpoint \in Public \/ req[c].token \in {"admin", "user"}
        BY <2>6 DEF Enter, NothingWithoutToken
      <3>2. QED BY <1>1, <2>2, <2>6, <3>1, ErrorsAreDocumented DEF Enter
    <2>7. CASE Reply(c)
      <3>1. Success(req[c].endpoint) \in Documented(req[c].endpoint)
        BY DEF Documented
      <3>2. QED BY <1>1, <2>7, <3>1, ErrorsAreDocumented DEF Reply
    <2>8. CASE Connect(c) \/ Drop(c) \/ Acquire(c) \/ Release(c)
      BY <2>2, <2>8 DEF Connect, Drop, Acquire, Release
    <2>9. QED BY <2>4, <2>5, <2>6, <2>7, <2>8 DEF CallStep
  <1>3. QED BY <1>1, <1>2 DEF AnswersAreDocumented

(* Every status an endpoint answers is one api.yaml lists for it.          *)
THEOREM AnswersFollowTheContract == Spec => []AnswersAreDocumented
  <1>1. Init => AnswersAreDocumented
    BY DEF Init, AnswersAreDocumented
  <1>2. IInv /\ AnswersAreDocumented /\ [Next]_vars => AnswersAreDocumented'
    <2> SUFFICES ASSUME IInv, AnswersAreDocumented, [Next]_vars PROVE AnswersAreDocumented'
      OBVIOUS
    <2>1. CASE MainStep \/ Signal \/ ListenFails \/ UNCHANGED vars
      <3>1. req' = req /\ status' = status
        BY <2>1 DEF MainStep, Start, ShutDown, Drained, ShutdownTimesOut, Exit, Signal,
                    ListenFails, vars, calls
      <3>2. QED BY <3>1 DEF AnswersAreDocumented
    <2>2. QED BY <2>1, AnswerIsDocumented DEF Next, CallStep
  <1>3. QED BY <1>1, <1>2, Invariance, PTL DEF Spec
=============================================================================
