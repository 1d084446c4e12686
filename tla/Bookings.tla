---------------------------- MODULE Bookings ----------------------------
(***************************************************************************)
(* The booking service: any number of concurrent HTTP calls that create or *)
(* cancel bookings, each a goroutine that runs one Postgres transaction at *)
(* READ COMMITTED.  A step is one statement of a transaction: it reads the *)
(* committed rows, takes the locks Postgres takes, and answers the client  *)
(* when the handler returns.                                               *)
(***************************************************************************)
EXTENDS Naturals

CONSTANTS
    Calls,      \* calls to POST /bookings/create and /bookings/{id}/cancel
    Actors,     \* the users behind the calls' tokens
    RoleOf,     \* the role in each actor's token, "none" without a token
    Slots,      \* the rows of table slots
    NoSlot,     \* a slot id no row of slots has
    StartAt,    \* column start_at of each slot
    Precision,  \* instants of the clock in one unit of a stored time
    Requests,   \* the requests clients may send
    FirstTime,  \* the instant at which the system is first observed
    MaxTime     \* bound: the last instant of the clock

(* The clock counts nanoseconds, TIMESTAMPTZ microseconds: the driver cuts *)
(* off the rest of every time it sends.                                    *)
Stored(t) == Precision * (t \div Precision)

CreateRequests == [op : {"create"}, actor : Actors,
                   slot : Slots \cup {NoSlot}, link : BOOLEAN]

(* Ids are random UUIDs: the booking a Create call makes is named by the call. *)
CancelRequests == [op : {"cancel"}, actor : Actors, target : Calls]

ASSUME ConstantsAssumption ==
    /\ NoSlot \notin Slots
    /\ RoleOf \in [Actors -> {"user", "admin", "none"}]
    /\ StartAt \in [Slots -> Nat]
    /\ Precision \in Nat \ {0}
    /\ \A s \in Slots : Stored(StartAt[s]) = StartAt[s]
    /\ Requests \subseteq CreateRequests \cup CancelRequests
    /\ FirstTime \in Nat /\ MaxTime \in Nat

Booking == [id : Calls, slot : Slots, user : Actors,
            status : {"active", "cancelled"}, link : BOOLEAN, createdAt : Nat]

Answers == {"none", "ok", "ErrUnauthorized", "ErrForbidden", "ErrSlotNotFound",
            "ErrSlotBooked", "ErrPastSlotBooking", "ErrBookingNotFound",
            "internal", "lost"}

PCs == {"received", "getSlot", "hasActive", "build", "insert",
        "getBooking", "update", "commit", "answered"}

VARIABLES
    clock,      \* the wall clock
    bookings,   \* the committed rows of table bookings
    links,      \* the bookings whose link the conference service has created
    req,        \* the request each call carries
    pc,         \* the next statement of each call
    now,        \* local variable now of Create
    booking,    \* local variable booking of Create and Cancel, {} when unset
    write,      \* the row the call's open transaction has written, {} if none
    answer      \* what the handler returned to the client

vars == <<clock, bookings, links, req, pc, now, booking, write, answer>>

TypeOK ==
    /\ clock \in Nat
    /\ bookings \in SUBSET Booking
    /\ links \in SUBSET Calls
    /\ req \in [Calls -> Requests]
    /\ pc \in [Calls -> PCs]
    /\ now \in [Calls -> Nat]
    /\ booking \in [Calls -> SUBSET Booking]
    /\ write \in [Calls -> SUBSET Booking]
    /\ answer \in [Calls -> Answers]

Init ==
    /\ clock = FirstTime
    /\ bookings = {}
    /\ links = {}
    /\ req \in [Calls -> Requests]
    /\ pc = [c \in Calls |-> "received"]
    /\ now = [c \in Calls |-> 0]
    /\ booking = [c \in Calls |-> {}]
    /\ write = [c \in Calls |-> {}]
    /\ answer = [c \in Calls |-> "none"]

----------------------------------------------------------------------------
(* The domain's rules. *)

IsActive(b) == b.status = "active"

(* Variant: anybody's booking. *)
BelongsToAnyone(b, user) == TRUE

BelongsTo(b, user) == b.user = user

IsPast(s, at) == StartAt[s] <= at

RequireRole(actor, role) ==
    CASE RoleOf[actor] = "none" -> "ErrUnauthorized"
      [] RoleOf[actor] # "none" /\ RoleOf[actor] # role -> "ErrForbidden"
      [] OTHER -> "ok"

(* Variant: the link is not handed to the booking. *)
NewActiveBookingUnlinked(c) ==
    [id |-> c, slot |-> req[c].slot, user |-> req[c].actor, status |-> "active",
     link |-> FALSE, createdAt |-> now[c]]

NewActiveBooking(c) ==
    [id |-> c, slot |-> req[c].slot, user |-> req[c].actor, status |-> "active",
     link |-> req[c].link, createdAt |-> now[c]]

Cancelled(b) == [b EXCEPT !.status = "cancelled"]

(* The row that a booking becomes. *)
AsStored(b) == [b EXCEPT !.createdAt = Stored(@)]

----------------------------------------------------------------------------
(* The statements, as Postgres runs them. *)

GetByID(id) == {b \in bookings : b.id = id}

HasActiveBySlotID(s) == \E b \in bookings : b.slot = s /\ IsActive(b)

(* Variant: no unique index. *)
IndexConflictNever(s) == FALSE

(* bookings_active_slot_uidx: a committed entry for s refuses the INSERT. *)
IndexConflict(s) == \E b \in bookings : b.slot = s /\ IsActive(b)

(* Variant: an INSERT does not look at uncommitted entries. *)
IndexBusyNever(c, s) == FALSE

(* An INSERT waits for any other transaction that adds or removes an entry *)
(* for s: it cannot know yet whether that entry will exist.                *)
IndexBusy(c, s) ==
    \E d \in Calls \ {c} : \E w \in write[d] :
        /\ w.slot = s
        /\ IsActive(w) \/ \E b \in GetByID(w.id) : IsActive(b)

(* An UPDATE waits for the transaction that holds the row's lock. *)
RowLocked(c, id) ==
    \E d \in Calls \ {c} : \E w \in write[d] : w.id = id

(* Variant: the UPDATE inverts the status instead of setting it. *)
UpdatedToggle(row, b) ==
    [row EXCEPT !.status = IF row.status = "active" THEN "cancelled" ELSE "active"]

(* UPDATE ... SET status, conference_link, created_at: the other columns  *)
(* keep what the latest committed version holds.                          *)
Updated(row, b) ==
    [row EXCEPT !.status = b.status, !.link = b.link, !.createdAt = Stored(b.createdAt)]

(* Variant: the cancellation is written WHERE slot_id = ..., to every      *)
(* booking of the slot.                                                    *)
PublishedBySlot(c) ==
    {IF \E w \in write[c] : ~IsActive(w) /\ w.slot = b.slot THEN Cancelled(b) ELSE b :
        b \in {x \in bookings : \A w \in write[c] : x.id # w.id}} \cup write[c]

(* COMMIT publishes what the transaction wrote. *)
Published(c) ==
    {b \in bookings : \A w \in write[c] : b.id # w.id} \cup write[c]

Goto(c, label) == pc' = [pc EXCEPT ![c] = label]

(* Variant: the deferred Rollback is missing. *)
ReturnWithoutRollback(c, a) ==
    /\ Goto(c, "answered")
    /\ answer' = [answer EXCEPT ![c] = a]
    /\ UNCHANGED write

(* The handler returns: its transaction is over and its locks are released. *)
Return(c, a) ==
    /\ Goto(c, "answered")
    /\ answer' = [answer EXCEPT ![c] = a]
    /\ write' = [write EXCEPT ![c] = {}]

(* The handler returns an error: the deferred Rollback drops its writes. *)
Abort(c, a) ==
    /\ Return(c, a)
    /\ UNCHANGED <<clock, bookings, links, req, now, booking>>

----------------------------------------------------------------------------
(* Create: now and the id are taken before the transaction begins. *)
CreateStart(c) ==
    LET role == RequireRole(req[c].actor, "user") IN
    /\ pc[c] = "received" /\ req[c].op = "create"
    /\ \/ role # "ok" /\ Abort(c, role)
       \/ /\ role = "ok"
          /\ now' = [now EXCEPT ![c] = clock]
          /\ Goto(c, "getSlot")
          /\ UNCHANGED <<clock, bookings, links, req, booking, write, answer>>

GetSlot(c) ==
    /\ pc[c] = "getSlot"
    /\ \/ req[c].slot \notin Slots /\ Abort(c, "ErrSlotNotFound")
       \/ /\ req[c].slot \in Slots
          /\ Goto(c, "hasActive")
          /\ UNCHANGED <<clock, bookings, links, req, now, booking, write, answer>>

CheckBusy(c) ==
    /\ pc[c] = "hasActive"
    /\ \/ HasActiveBySlotID(req[c].slot) /\ Abort(c, "ErrSlotBooked")
       \/ /\ ~HasActiveBySlotID(req[c].slot)
          /\ Goto(c, "build")
          /\ UNCHANGED <<clock, bookings, links, req, now, booking, write, answer>>

(* The conference service is called first and CanBeCreatedBy asked after it. *)
Build(c) ==
    /\ pc[c] = "build"
    /\ links' = IF req[c].link THEN links \cup {c} ELSE links
    /\ \/ IsPast(req[c].slot, now[c]) /\ Return(c, "ErrPastSlotBooking")
                                      /\ UNCHANGED booking
       \/ /\ ~IsPast(req[c].slot, now[c])
          /\ booking' = [booking EXCEPT ![c] = {NewActiveBooking(c)}]
          /\ Goto(c, "insert")
          /\ UNCHANGED <<write, answer>>
    /\ UNCHANGED <<clock, bookings, req, now>>

(* Variant: INSERT ... ON CONFLICT DO NOTHING, its row count ignored. *)
InsertOrNothing(c) ==
    /\ pc[c] = "insert"
    /\ ~IndexBusy(c, req[c].slot)
    /\ write' = [write EXCEPT ![c] = {AsStored(b) : b \in
                     IF IndexConflict(req[c].slot) THEN {} ELSE booking[c]}]
    /\ Goto(c, "commit")
    /\ UNCHANGED <<clock, bookings, links, req, now, booking, answer>>

(* Variant: the INSERT runs on the pool, outside the transaction. *)
InsertOutsideTransaction(c) ==
    /\ pc[c] = "insert"
    /\ \/ IndexConflict(req[c].slot) /\ Abort(c, "ErrSlotBooked")
       \/ /\ ~IndexConflict(req[c].slot)
          /\ bookings' = bookings \cup {AsStored(b) : b \in booking[c]}
          /\ Goto(c, "commit")
          /\ UNCHANGED <<clock, links, req, now, booking, write, answer>>

Insert(c) ==
    /\ pc[c] = "insert"
    /\ ~IndexBusy(c, req[c].slot)
    /\ \/ IndexConflict(req[c].slot) /\ Abort(c, "ErrSlotBooked")
       \/ /\ ~IndexConflict(req[c].slot)
          /\ write' = [write EXCEPT ![c] = {AsStored(b) : b \in booking[c]}]
          /\ Goto(c, "commit")
          /\ UNCHANGED <<clock, bookings, links, req, now, booking, answer>>

----------------------------------------------------------------------------
(* Cancel: an inactive booking is returned as it is, without an UPDATE. *)
CancelStart(c) ==
    LET role == RequireRole(req[c].actor, "user") IN
    /\ pc[c] = "received" /\ req[c].op = "cancel"
    /\ \/ role # "ok" /\ Abort(c, role)
       \/ /\ role = "ok"
          /\ Goto(c, "getBooking")
          /\ UNCHANGED <<clock, bookings, links, req, now, booking, write, answer>>

GetBooking(c) ==
    /\ pc[c] = "getBooking"
    /\ \/ GetByID(req[c].target) = {} /\ Abort(c, "ErrBookingNotFound")
       \/ \E b \in GetByID(req[c].target) :
            \/ ~BelongsTo(b, req[c].actor) /\ Abort(c, "ErrForbidden")
            \/ /\ BelongsTo(b, req[c].actor)
               /\ booking' = [booking EXCEPT ![c] = {Cancelled(b)}]
               /\ Goto(c, IF IsActive(b) THEN "update" ELSE "commit")
               /\ UNCHANGED <<clock, bookings, links, req, now, write, answer>>

(* The booking read by GetBooking may be stale by now; the row itself is   *)
(* never deleted, so the UPDATE always finds it.                           *)
Update(c) ==
    /\ pc[c] = "update"
    /\ ~RowLocked(c, req[c].target)
    /\ \E row \in GetByID(req[c].target), b \in booking[c] :
         write' = [write EXCEPT ![c] = {Updated(row, b)}]
    /\ Goto(c, "commit")
    /\ UNCHANGED <<clock, bookings, links, req, now, booking, answer>>

----------------------------------------------------------------------------
(* The end of WithinTransaction. *)
Commit(c) ==
    /\ pc[c] = "commit"
    /\ bookings' = Published(c)
    /\ Return(c, "ok")
    /\ UNCHANGED <<clock, links, req, now, booking>>

(* The database commits, but its acknowledgement does not arrive in time,  *)
(* or not before the server stops.                                         *)
CommitUnacknowledged(c) ==
    /\ pc[c] = "commit"
    /\ bookings' = Published(c)
    /\ \E a \in {"internal", "lost"} : Return(c, a)
    /\ UNCHANGED <<clock, links, req, now, booking>>

InFlight(c) == pc[c] \notin {"received", "answered"}

(* A statement fails, or the router's timeout cancels the call's context. *)
Fail(c) == InFlight(c) /\ Abort(c, "internal")

(* The server stops: the calls in flight are cut off and Postgres rolls    *)
(* their transactions back.  It keeps no state, so a restart changes none. *)
Crash ==
    /\ \E c \in Calls : InFlight(c)
    /\ pc' = [c \in Calls |-> IF InFlight(c) THEN "answered" ELSE pc[c]]
    /\ answer' = [c \in Calls |-> IF InFlight(c) THEN "lost" ELSE answer[c]]
    /\ write' = [c \in Calls |-> {}]
    /\ UNCHANGED <<clock, bookings, links, req, now, booking>>

Tick ==
    /\ clock < MaxTime
    /\ clock' = clock + 1
    /\ UNCHANGED <<bookings, links, req, pc, now, booking, write, answer>>

----------------------------------------------------------------------------
(* The steps of a handler that meets no failure. *)
Handle(c) ==
    \/ CreateStart(c) \/ GetSlot(c) \/ CheckBusy(c) \/ Build(c) \/ Insert(c)
    \/ CancelStart(c) \/ GetBooking(c) \/ Update(c)
    \/ Commit(c)

Next ==
    \/ \E c \in Calls : Handle(c) \/ CommitUnacknowledged(c) \/ Fail(c)
    \/ Crash
    \/ Tick

(* A goroutine that can run does run; nothing obliges a call to fail, the  *)
(* server to stop or the clock to move.                                    *)
Spec == Init /\ [][Next]_vars /\ \A c \in Calls : WF_vars(Handle(c))

----------------------------------------------------------------------------
(* A slot is held by at most one active booking, whatever the calls that   *)
(* passed HasActiveBySlotID together (bookings_active_slot_uidx, TASK.md:26). *)
OneActivePerSlot ==
    \A a, b \in bookings :
        IsActive(a) /\ IsActive(b) /\ a.slot = b.slot => a = b

(* What a handler returned is what the table holds, although Create and    *)
(* Cancel return a local copy, not the row: a booking it created is there, *)
(* cancelled since at most, with every column it was answered with, but    *)
(* for what created_at does not keep of the time; one it reported          *)
(* cancelled is the row as it is, and stays so.                            *)
ReplyIsStored ==
    \A c \in Calls : answer[c] = "ok" =>
        \A b \in booking[c] :
            \/ req[c].op = "create" /\ {AsStored(b), Cancelled(AsStored(b))} \cap bookings # {}
            \/ req[c].op = "cancel" /\ b \in bookings

(* A booking others can see is of a call that was told ok, or could not be *)
(* told (the commit whose acknowledgement is lost): a call that is refused, *)
(* or that may yet be refused or fail, has left none in the table.         *)
RefusedLeavesNothing ==
    \A b \in bookings : answer[b.id] \in {"ok", "internal", "lost"}

(* A booking that shows a link has its conference: the link is created     *)
(* before the row, for the booking's id, and only if it was asked for.     *)
LinkOfBookingExists ==
    \A b \in bookings : b.link <=> b.id \in links

(* A row of bookings never disappears and changes in one way only: from    *)
(* active to cancelled, every other column as it was, however stale the    *)
(* copy that Update writes back.                                           *)
CancelIsFinal ==
    [][\A b \in bookings : b \in bookings' \/ Cancelled(b) \in bookings']_vars

(* A booking is cancelled only by a Cancel call of the user who made it.   *)
OnlyOwnerCancels ==
    [][\A b \in bookings : b \notin bookings' =>
        \E c \in Calls : /\ pc[c] = "commit" /\ pc'[c] = "answered"
                         /\ req[c].op = "cancel" /\ req[c].target = b.id
                         /\ req[c].actor = b.user
                         /\ req[b.id].actor = b.user]_vars

(* Every call is answered: transactions wait for each other's locks, but   *)
(* never in a circle, and each releases its locks when it ends.            *)
EveryCallAnswered == \A c \in Calls : <>(pc[c] = "answered")

----------------------------------------------------------------------------
(* Why OneActivePerSlot holds: the parts of an inductive invariant. *)

(* What a call's next statement says about its request. *)
ControlInv ==
    \A c \in Calls :
        /\ pc[c] \in {"getSlot", "hasActive", "build", "insert"} => req[c] \in CreateRequests
        /\ pc[c] \in {"hasActive", "build", "insert"} => req[c].slot \in Slots
        /\ pc[c] \in {"getBooking", "update"} => req[c] \in CancelRequests

(* id is the primary key, a column keeps no more than its precision, and a *)
(* call that has not committed has no row.                                 *)
KeyInv ==
    /\ \A a, b \in bookings : a.id = b.id => a = b
    /\ \A b \in bookings : AsStored(b) = b
    /\ \A b \in bookings :
         req[b.id].op = "create" /\ pc[b.id] = "answered"

(* What Create is about to insert is its own booking; what Cancel is about *)
(* to write is some row of the table, cancelled.                           *)
LocalInv ==
    \A c \in Calls :
        /\ pc[c] = "insert" => booking[c] = {NewActiveBooking(c)}
        /\ pc[c] = "update" =>
             \A b \in booking[c] :
                 \E row \in bookings : row.id = req[c].target /\ b = Cancelled(row)

(* A transaction holds at most one uncommitted row: a new active one, or a *)
(* committed one cancelled.                                                *)
WriteInv ==
    \A c \in Calls :
        /\ write[c] # {} => pc[c] = "commit"
        /\ \A x, y \in write[c] : x = y
        /\ \A w \in write[c] :
             \/ req[c].op = "create" /\ w.id = c /\ IsActive(w) /\ AsStored(w) = w
             \/ \E row \in bookings : w = Cancelled(row)

(* The entries of the unique index, those of open transactions included:   *)
(* an uncommitted active row shares its slot with no other active row.     *)
IndexInv ==
    /\ \A c \in Calls : \A w \in write[c] : IsActive(w) => ~HasActiveBySlotID(w.slot)
    /\ \A c, d \in Calls : \A x \in write[c], y \in write[d] :
         IsActive(x) /\ IsActive(y) /\ x.slot = y.slot => c = d

IInv ==
    /\ TypeOK
    /\ ControlInv
    /\ KeyInv
    /\ LocalInv
    /\ WriteInv
    /\ IndexInv
    /\ OneActivePerSlot

----------------------------------------------------------------------------
(* Why the answers tell the truth: what a call was told, what its local    *)
(* copy says, and what the table and the conference service hold.          *)

(* A call has an answer exactly when it is over. *)
AnswerInv == \A c \in Calls : pc[c] = "answered" <=> answer[c] # "none"

(* A row names the user and the slot of the Create call it is named by. *)
RowInv ==
    \A b \in bookings : b.user = req[b.id].actor /\ b.slot = req[b.id].slot

(* The local copy of Create is the call's own new booking; that of Cancel  *)
(* is the target, found to be the caller's, cancelled.                     *)
CopyInv ==
    \A c \in Calls :
        /\ pc[c] \in {"received", "getSlot", "hasActive", "build", "getBooking"} =>
               booking[c] = {}
        /\ \A b \in booking[c] :
              /\ req[c].op = "create" =>
                     /\ IsActive(b) /\ b.id = c
                     /\ b.user = req[c].actor /\ b.slot = req[c].slot
              /\ req[c].op = "cancel" =>
                     /\ b.id = req[c].target /\ b.user = req[c].actor
                     /\ \E row \in bookings : b = Cancelled(row)

(* What is about to be committed is the row of the local copy, unless the  *)
(* booking was found cancelled: then nothing was written, and the copy is  *)
(* the row.                                                                *)
PendingInv ==
    \A c \in Calls :
        /\ write[c] \subseteq {AsStored(b) : b \in booking[c]}
        /\ pc[c] = "commit" =>
              \E b \in booking[c] :
                 /\ booking[c] = {b}
                 /\ \/ write[c] = {AsStored(b)}
                    \/ write[c] = {} /\ req[c].op = "cancel" /\ b \in bookings

(* A link exists only after Build, and every copy of a booking agrees.     *)
LinkInv ==
    \A c \in Calls :
        /\ pc[c] \in {"received", "getSlot", "hasActive", "build"} => c \notin links
        /\ \A b \in booking[c] : b.link <=> b.id \in links

RInv ==
    /\ AnswerInv
    /\ RowInv
    /\ CopyInv
    /\ PendingInv
    /\ LinkInv
    /\ ReplyIsStored
    /\ RefusedLeavesNothing
    /\ LinkOfBookingExists

(* The table and its index, and what the calls know and say of them. *)
BookingsInv == IInv /\ RInv
=============================================================================
