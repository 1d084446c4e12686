--------------------------- MODULE Transport ---------------------------
(***************************************************************************)
(* What an HTTP request meets before and after a service: the generated    *)
(* wrapper binds its parameters, authMiddleware looks at its token, the    *)
(* handler decodes its body, the service asks for a role, and every error  *)
(* is mapped to a status.  Tables and operators, no state.                 *)
(***************************************************************************)
EXTENDS Naturals

Public == {"dummyLogin", "login", "register"}

Endpoints == Public \cup {"rooms/list", "rooms/create", "schedule/create", "slots/list",
                          "bookings/create", "bookings/cancel", "bookings/my", "bookings/list"}

(* Variant: only users look for slots. *)
AllowedSlotsToUsers(endpoint) ==
    CASE endpoint \in {"rooms/create", "schedule/create", "bookings/list"} -> {"admin"}
      [] endpoint \in {"bookings/create", "bookings/cancel", "bookings/my",
                       "slots/list"} -> {"user"}
      [] OTHER -> {"admin", "user"}

(* The roles a service asks for, after the body was read. *)
Allowed(endpoint) ==
    CASE endpoint \in {"rooms/create", "schedule/create", "bookings/list"} -> {"admin"}
      [] endpoint \in {"bookings/create", "bookings/cancel", "bookings/my"} -> {"user"}
      [] OTHER -> {"admin", "user"}

(* Endpoints with a parameter in the path or the query; date is required. *)
Bound == {"schedule/create", "slots/list", "bookings/cancel", "bookings/list"}

HasBody == Public \cup {"rooms/create", "schedule/create", "bookings/create"}

(* "large" is a pageSize above maxBookingsPageSize. *)
ParamsOf(endpoint) ==
    {"fine"} \cup (IF endpoint \in Bound THEN {"malformed"} ELSE {})
             \cup (IF endpoint = "slots/list" THEN {"no date"} ELSE {})
             \cup (IF endpoint = "bookings/list" THEN {"large"} ELSE {})

(* An "invalid" token is expired, forged or of another secret. *)
RequestsOf(endpoint) ==
    [endpoint : {endpoint}, params : ParamsOf(endpoint),
     token : {"none", "invalid", "admin", "user"},
     body : IF endpoint \in HasBody THEN {"fine", "malformed"} ELSE {"fine"}]

AllRequests == UNION {RequestsOf(e) : e \in Endpoints}

----------------------------------------------------------------------------
(* The wrapper of api.gen.go: parameters are bound before the middleware. *)
BindErrors(r) ==
    IF r.params \in {"malformed", "no date"} THEN {"invalid parameter"} ELSE {}

(* Variant: a token that does not parse is no obstacle. *)
AuthErrorsOfHeader(r) ==
    IF r.endpoint \notin Public /\ r.token = "none" THEN {"ErrUnauthorized"} ELSE {}

AuthErrors(r) ==
    IF r.endpoint \in Public THEN {}
    ELSE IF r.token = "none" THEN {"ErrUnauthorized"}
    ELSE IF r.token = "invalid" THEN {"invalid token"} ELSE {}

DecodeErrors(r) == IF r.body = "malformed" THEN {"invalid body"} ELSE {}

(* What stands between the body and the service's first query. *)
EntryErrors(r) ==
    IF r.params = "large" THEN {"page too large"}
    ELSE IF r.endpoint \notin Public /\ r.token \notin Allowed(r.endpoint)
         THEN {"ErrForbidden"} ELSE {}

(* What a service may refuse besides; "driver" is any error without a name. *)
ServiceErrors(endpoint) ==
    {"driver"} \cup
    CASE endpoint = "dummyLogin" -> {"ErrInvalidRole"}
      [] endpoint = "register" -> {"ErrInvalidPassword", "ErrInvalidEmail", "ErrInvalidRole",
                                   "ErrEmailAlreadyExists"}
      [] endpoint = "login" -> {"ErrInvalidCredentials"}
      [] endpoint = "rooms/create" -> {"ErrInvalidRoomName", "ErrInvalidRoomCapacity"}
      [] endpoint = "schedule/create" -> {"ErrInvalidSchedule", "ErrRoomNotFound",
                                          "ErrScheduleExists"}
      [] endpoint = "slots/list" -> {"ErrDateTooFarAhead", "ErrRoomNotFound"}
      [] endpoint = "bookings/create" -> {"ErrSlotNotFound", "ErrSlotBooked",
                                          "ErrPastSlotBooking"}
      [] endpoint = "bookings/cancel" -> {"ErrBookingNotFound", "ErrForbidden"}
      [] endpoint = "bookings/list" -> {"ErrInvalidPage", "ErrInvalidPageSize"}
      [] OTHER -> {}

(* errors.Is finds the named errors of services and domain.  An apiError   *)
(* (of the parameters, the token, the body or the page size) is none of    *)
(* them and unwraps to none, whatever status it was made with.             *)
MapAPIError(err) ==
    CASE err \in {"ErrUnauthorized", "ErrInvalidCredentials"} -> 401
      [] err = "ErrForbidden" -> 403
      [] err \in {"ErrRoomNotFound", "ErrSlotNotFound", "ErrBookingNotFound"} -> 404
      [] err \in {"ErrScheduleExists", "ErrSlotBooked"} -> 409
      [] err \in {"ErrEmailAlreadyExists", "ErrInvalidPassword", "ErrInvalidPage",
                  "ErrInvalidPageSize", "ErrDateTooFarAhead", "ErrInvalidRole",
                  "ErrInvalidEmail", "ErrInvalidRoomName", "ErrInvalidRoomCapacity",
                  "ErrInvalidSchedule", "ErrPastSlotBooking"} -> 400
      [] OTHER -> 500

Success(endpoint) ==
    IF endpoint \in {"register", "rooms/create", "schedule/create", "bookings/create"}
    THEN 201 ELSE 200
=============================================================================
