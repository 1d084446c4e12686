----------------------------- MODULE Server -----------------------------
(***************************************************************************)
(* One run of cmd/server: it opens the pool, listens, serves requests, and *)
(* after a signal lets the requests end for a while, closes the pool and   *)
(* exits.  A request is followed from its connection to its answer; of its *)
(* queries only the connection they hold is kept.                          *)
(***************************************************************************)
EXTENDS Transport, FiniteSets

CONSTANTS
    Calls,      \* requests, each on a connection of its own
    Requests,   \* what they may be
    PoolSize,   \* connections of the pool
    MaxUses     \* bound: how often one request takes a connection

ASSUME ServerAssumption ==
    /\ Requests \subseteq AllRequests
    /\ PoolSize \in Nat \ {0} /\ MaxUses \in Nat \ {0}

VARIABLES
    main,       \* where run is
    signalled,  \* SIGINT or SIGTERM has arrived
    result,     \* what run returns: exit code 0 for "ok", 1 for "error"
    req, pc,    \* each request and where it is
    uses,       \* how often it has taken a connection of the pool
    status      \* what it was answered, 0 if nothing yet

vars == <<main, signalled, result, req, pc, uses, status>>
calls == <<req, pc, uses, status>>

Init ==
    /\ main = "starting" /\ signalled = FALSE /\ result = "none"
    /\ req \in [Calls -> Requests]
    /\ pc = [c \in Calls |-> "unsent"]
    /\ uses = [c \in Calls |-> 0]
    /\ status = [c \in Calls |-> 0]

----------------------------------------------------------------------------
(* A handler runs: its connection is active. *)
Active(c) == pc[c] \in {"body", "entry", "service", "query"}

Querying == {c \in Calls : pc[c] = "query"}

Main(from, to, r) ==
    /\ main = from /\ main' = to /\ result' = r
    /\ UNCHANGED signalled

(* buildServices: pgxpool.New and Ping. *)
Start ==
    /\ Main("starting", "serving", "none") \/ Main("starting", "exited", "error")
    /\ UNCHANGED calls

Signal ==
    /\ main # "exited" /\ ~signalled
    /\ signalled' = TRUE
    /\ UNCHANGED <<main, result, calls>>

(* run returns: its deferred db.Close begins, which refuses new Acquires.  *)
ListenFails == Main("serving", "closing", "error") /\ UNCHANGED calls

(* The select wakes up and Shutdown closes the listener. *)
ShutDown == signalled /\ Main("serving", "draining", "none") /\ UNCHANGED calls

Drained ==
    /\ \A c \in Calls : ~Active(c) /\ pc[c] # "accepted"
    /\ Main("draining", "closing", "ok")
    /\ UNCHANGED calls

(* Variant: Shutdown is given context.Background(). *)
ShutdownNeverTimesOut == FALSE /\ UNCHANGED vars

(* Variant: the error of Shutdown is logged and not returned. *)
ShutdownErrorIgnored == Main("draining", "closing", "ok") /\ UNCHANGED calls

(* serverShutdownTimeout passes while requests still run. *)
ShutdownTimesOut == Main("draining", "closing", "error") /\ UNCHANGED calls

CutOff ==
    pc' = [c \in Calls |-> CASE Active(c) -> "cut" [] pc[c] = "accepted" -> "dropped"
                             [] OTHER -> pc[c]]

(* db.Close returns once every connection of the pool is back: whatever    *)
(* still runs then ends with the process.                                  *)
Exit ==
    /\ Querying = {}
    /\ Main("closing", "exited", result)
    /\ CutOff
    /\ UNCHANGED <<req, uses, status>>

----------------------------------------------------------------------------
Stay == UNCHANGED <<main, signalled, result, req>>

Goto(c, label) == pc' = [pc EXCEPT ![c] = label] /\ UNCHANGED <<uses, status>>

Answer(c, s) ==
    /\ pc' = [pc EXCEPT ![c] = "answered"]
    /\ status' = [status EXCEPT ![c] = s]
    /\ UNCHANGED uses

Connect(c) ==
    /\ pc[c] = "unsent"
    /\ Goto(c, IF main = "serving" THEN "accepted" ELSE "refused")
    /\ Stay

(* No header within serverReadHeaderTimeout; or Shutdown, which takes a    *)
(* connection that has been silent for as long for an idle one.            *)
Drop(c) == pc[c] = "accepted" /\ Goto(c, "dropped") /\ Stay

(* The header is there: the wrapper and authMiddleware, up to the body. *)
Route(c) ==
    LET r == req[c] IN
    /\ pc[c] = "accepted" /\ main # "exited"
    /\ \/ \E e \in BindErrors(r) : Answer(c, MapAPIError(e))
       \/ BindErrors(r) = {} /\ \E e \in AuthErrors(r) : Answer(c, MapAPIError(e))
       \/ /\ BindErrors(r) \cup AuthErrors(r) = {}
          /\ Goto(c, IF r.endpoint \in HasBody THEN "body" ELSE "entry")
    /\ Stay

(* Decode waits for a body as long as the client likes: the server sets    *)
(* ReadHeaderTimeout only, and the router's timeout cannot interrupt it.   *)
ReadBody(c) ==
    /\ pc[c] = "body"
    /\ \/ \E e \in DecodeErrors(req[c]) : Answer(c, MapAPIError(e))
       \/ DecodeErrors(req[c]) = {} /\ Goto(c, "entry")
    /\ Stay

Enter(c) ==
    /\ pc[c] = "entry"
    /\ \/ \E e \in EntryErrors(req[c]) : Answer(c, MapAPIError(e))
       \/ EntryErrors(req[c]) = {} /\ Goto(c, "service")
    /\ Stay

(* Begin or a statement outside a transaction takes a connection. *)
Acquire(c) ==
    /\ pc[c] = "service" /\ req[c].endpoint # "dummyLogin"
    /\ uses[c] < MaxUses
    /\ main # "closing"
    /\ Cardinality(Querying) < PoolSize
    /\ pc' = [pc EXCEPT ![c] = "query"]
    /\ uses' = [uses EXCEPT ![c] = @ + 1]
    /\ UNCHANGED status
    /\ Stay

(* The transaction or the statement ends, at the latest with the router's  *)
(* timeout, and gives the connection back.                                 *)
Release(c) == pc[c] = "query" /\ Goto(c, "service") /\ Stay

(* "driver" stands for a failed statement, the timeout and a closed pool.  *)
Reply(c) ==
    /\ pc[c] = "service"
    /\ \/ /\ uses[c] > 0 \/ req[c].endpoint = "dummyLogin"
          /\ Answer(c, Success(req[c].endpoint))
       \/ \E e \in ServiceErrors(req[c].endpoint) : Answer(c, MapAPIError(e))
    /\ Stay

----------------------------------------------------------------------------
MainStep == Start \/ ShutDown \/ Drained \/ ShutdownTimesOut \/ Exit

Next ==
    \/ MainStep \/ Signal \/ ListenFails
    \/ \E c \in Calls :
         \/ Connect(c) \/ Drop(c) \/ Route(c) \/ ReadBody(c)
         \/ Enter(c) \/ Acquire(c) \/ Release(c) \/ Reply(c)

(* A signalled run goes on (it cancels New, wakes the select, bounds       *)
(* Shutdown), and the router's timeout ends what holds a connection.       *)
(* Clients owe nothing: a body may never arrive.                           *)
Spec ==
    /\ Init /\ [][Next]_vars
    /\ WF_vars(signalled /\ MainStep)
    /\ \A c \in Calls : WF_vars(Release(c))

----------------------------------------------------------------------------
(* A signal stops the server, whatever its clients do: one that never      *)
(* sends its body, or a request that waits for a lock, delays the exit     *)
(* (serverShutdownTimeout, then db.Close) and cannot prevent it.           *)
SignalStopsServer == signalled ~> main = "exited"

(* Exit code 0 after a signal means that every request whose handler had   *)
(* begun was answered; one that was cut makes it 1.                        *)
ExitTellsTruth ==
    main = "exited" /\ result = "ok" => \A c \in Calls : pc[c] # "cut"

(* Without a valid token a protected endpoint reads no body and takes no   *)
(* connection, and with one it takes none unless the role is allowed: a    *)
(* role is only looked at after the body.                                  *)
NothingWithoutToken ==
    \A c \in Calls : req[c].endpoint \notin Public =>
        /\ pc[c] \in {"body", "entry"} => req[c].token \in {"admin", "user"}
        /\ pc[c] \in {"service", "query"} => req[c].token \in Allowed(req[c].endpoint)
        /\ status[c] \in {200, 201} => req[c].token \in Allowed(req[c].endpoint)

(* api.yaml's responses. *)
Documented(endpoint) ==
    {Success(endpoint), 500} \cup
    CASE endpoint \in {"register", "dummyLogin"} -> {400}
      [] endpoint \in {"login", "rooms/list"} -> {401}
      [] endpoint = "rooms/create" -> {400, 401, 403}
      [] endpoint \in {"schedule/create", "bookings/create"} -> {400, 401, 403, 404, 409}
      [] endpoint = "slots/list" -> {400, 401, 404}
      [] endpoint = "bookings/list" -> {400, 401, 403}
      [] endpoint = "bookings/my" -> {401, 403}
      [] OTHER -> {401, 403, 404}

(* Every status an endpoint answers is one api.yaml lists for it, however  *)
(* far the request gets: roles, refusals and the mapping of errors agree.  *)
AnswersAreDocumented ==
    \A c \in Calls : status[c] \in {0} \cup Documented(req[c].endpoint)

(* Why they hold: the parts of an inductive invariant. *)

PCs == {"unsent", "accepted", "body", "entry", "service", "query",
        "answered", "refused", "dropped", "cut"}

RequestInv ==
    /\ req \in [Calls -> AllRequests]
    /\ pc \in [Calls -> PCs]
    /\ status \in [Calls -> Nat]

(* Nothing is sent to a server that does not listen yet. *)
StartInv == main = "starting" => \A c \in Calls : pc[c] \in {"unsent", "refused"}

(* A handler is cut by the exit only, and after a graceful stop none is    *)
(* left and none begins.                                                   *)
StopInv ==
    /\ main # "exited" => \A c \in Calls : pc[c] # "cut"
    /\ result = "ok" =>
         /\ main \in {"closing", "exited"}
         /\ \A c \in Calls : ~Active(c) /\ pc[c] # "accepted"

IInv == RequestInv /\ StartInv /\ StopInv /\ ExitTellsTruth /\ NothingWithoutToken

(* What api.yaml:522 says of the query parameter date of slots/list: it is *)
(* required, and without it the answer is 400.                             *)
MissingDateIsBadRequest ==
    \A c \in Calls : req[c].params = "no date" => status[c] \in {0, 400}
=============================================================================
