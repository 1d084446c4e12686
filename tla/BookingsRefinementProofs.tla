-------------------- MODULE BookingsRefinementProofs --------------------
(***************************************************************************)
(* The booking service implements SlotBook, for any set of calls, slots,   *)
(* users and requests: every step of a handler is one step of the abstract *)
(* book or none, under the mapping of BookingsRefinement.                  *)
(***************************************************************************)
EXTENDS BookingsRefinement, BookingsProofs

(* An active row is the holder of its slot, and the only one. *)
LEMMA ChosenHolder ==
    ASSUME NEW rows, NEW s, NEW b \in rows, b.slot = s /\ IsActive(b),
           \A x, y \in rows : IsActive(x) /\ IsActive(y) /\ x.slot = y.slot => x = y
    PROVE  (CHOOSE x \in rows : x.slot = s /\ IsActive(x)) = b
<1>1. PICK x \in rows : x = (CHOOSE y \in rows : y.slot = s /\ IsActive(y))
                        /\ x.slot = s /\ IsActive(x)
  OBVIOUS
<1> QED
  BY <1>1

LEMMA HolderHeld ==
    ASSUME OneActivePerSlot, NEW b \in bookings, IsActive(b)
    PROVE  HolderOf(b.slot) = b.id
  BY ChosenHolder DEF HolderOf, HasActiveBySlotID, OneActivePerSlot

LEMMA HolderHeldNext ==
    ASSUME OneActivePerSlot', NEW b \in bookings', IsActive(b)
    PROVE  HolderOf(b.slot)' = b.id
  BY ChosenHolder DEF HolderOf, HasActiveBySlotID, OneActivePerSlot, IsActive

LEMMA InitSimulation ==
    ASSUME Init
    PROVE  Promise!BookInit
  BY DEF Init, Promise!BookInit, holderBar, releasedBar, outcomeBar, HolderOf, Told, HasActiveBySlotID

----------------------------------------------------------------------------
(* What a step of the table and of the answers is to the abstract book. *)

LEMMA TableSame ==
    ASSUME UNCHANGED bookings
    PROVE  UNCHANGED <<holderBar, releasedBar>>
  BY DEF holderBar, releasedBar, HolderOf, HasActiveBySlotID, IsActive

LEMMA AnswerTold ==
    ASSUME TypeOK, NEW c \in Calls, NEW a, answer' = [answer EXCEPT ![c] = a]
    PROVE  Promise!Tell(c, Told(a))
  BY DEF TypeOK, Promise!Tell, outcomeBar, Told

LEMMA OpenCall ==
    ASSUME RInv, NEW c \in Calls, pc[c] # "answered"
    PROVE  Promise!Open(c)
  BY DEF RInv, AnswerInv, Promise!Open, outcomeBar, Told

(* A statement that answers nobody and commits nothing. *)
LEMMA SilentStep ==
    ASSUME UNCHANGED <<bookings, req, answer>>
    PROVE  UNCHANGED Promise!abstractVars
  BY TableSame DEF Promise!abstractVars, outcomeBar, Told

LEMMA RefusalSimulation ==
    ASSUME TypeOK, RInv, NEW c \in Calls, pc[c] # "answered",
           NEW a \in {"ErrUnauthorized", "ErrForbidden", "ErrSlotNotFound",
                      "ErrPastSlotBooking", "ErrBookingNotFound"},
           Return(c, a), UNCHANGED <<bookings, req>>
    PROVE  Promise!TurnDown(c)
<1>1. Told(a) = "refused"
  BY DEF Told
<1> QED
  BY <1>1, TableSame, AnswerTold, OpenCall DEF Return, Promise!TurnDown

LEMMA ConflictSimulation ==
    ASSUME ConstantsAssumption, FreeAssumption, IInv, RInv, NEW c \in Calls,
           pc[c] \in {"hasActive", "insert"}, HasActiveBySlotID(req[c].slot),
           Abort(c, "ErrSlotBooked")
    PROVE  Promise!Conflict(c)
<1>1. req[c].op = "create" /\ req[c].slot \in Slots
  BY RequestKinds DEF IInv, ControlInv
<1>2. PICK b \in bookings : b.slot = req[c].slot /\ IsActive(b)
  BY DEF HasActiveBySlotID
<1>3. HolderOf(req[c].slot) # Free
  BY <1>2, HolderHeld, FreeAssumption DEF IInv, TypeOK, Booking
<1>4. Told("ErrSlotBooked") = "conflict"
  BY DEF Told
<1>5. holderBar[req[c].slot] # Free
  BY <1>1, <1>3 DEF holderBar
<1>6. Promise!Tell(c, "conflict")
  BY <1>4, AnswerTold DEF Abort, Return, IInv
<1>7. UNCHANGED <<req, holderBar, releasedBar>>
  BY TableSame DEF Abort
<1>8. Promise!Open(c)
  BY OpenCall
<1> QED
  BY <1>1, <1>5, <1>6, <1>7, <1>8 DEF Promise!Conflict

LEMMA FailureSimulation ==
    ASSUME TypeOK, RInv, NEW c \in Calls, pc[c] # "answered",
           NEW a \in {"internal", "lost"},
           Return(c, a), UNCHANGED <<bookings, req>>
    PROVE  Promise!Break({c})
<1>1. Told(a) = "unknown"
  BY DEF Told
<1>2. outcomeBar' = [d \in Calls |-> IF d \in {c} THEN "unknown" ELSE outcomeBar[d]]
  BY <1>1 DEF Return, TypeOK, outcomeBar, Told
<1> QED
  BY <1>2, TableSame, OpenCall DEF Promise!Break

LEMMA CrashSimulation ==
    ASSUME RInv, Crash
    PROVE  \E failed \in SUBSET Calls : Promise!Break(failed)
<1> DEFINE failed == {c \in Calls : InFlight(c)}
<1>1. failed # {} /\ \A c \in failed : Promise!Open(c)
  BY OpenCall DEF Crash, InFlight
<1>2. outcomeBar' = [c \in Calls |-> IF c \in failed THEN "unknown" ELSE outcomeBar[c]]
  BY DEF Crash, outcomeBar, Told
<1>3. UNCHANGED <<req, holderBar, releasedBar>>
  BY TableSame DEF Crash
<1> QED
  BY <1>1, <1>2, <1>3 DEF Promise!Break

(* A slot keeps its holder as long as its active rows are the same. *)
LEMMA HolderKept ==
    ASSUME OneActivePerSlot, OneActivePerSlot', NEW s,
           \A x \in bookings : x.slot = s /\ IsActive(x) => x \in bookings',
           \A x \in bookings' : x.slot = s /\ IsActive(x) => x \in bookings
    PROVE  HolderOf(s)' = HolderOf(s)
<1>1. CASE HasActiveBySlotID(s)
  <2>1. PICK x \in bookings : x.slot = s /\ IsActive(x)
    BY <1>1 DEF HasActiveBySlotID
  <2>2. HolderOf(s) = x.id
    BY <2>1, HolderHeld
  <2>3. HolderOf(s)' = x.id
    BY <2>1, HolderHeldNext
  <2> QED
    BY <2>2, <2>3
<1>2. CASE ~HasActiveBySlotID(s)
  BY <1>2 DEF HasActiveBySlotID, HolderOf, IsActive
<1> QED
  BY <1>1, <1>2

LEMMA PublishedWrite ==
    ASSUME NEW c \in Calls, NEW w, write[c] = {w}, bookings' = Published(c)
    PROVE  \A x : x \in bookings' <=> (x \in bookings /\ x.id # w.id) \/ x = w
  BY DEF Published

LEMMA CommitTold ==
    ASSUME TypeOK, NEW c \in Calls, NEW a \in {"ok", "internal", "lost"}, Return(c, a)
    PROVE  outcomeBar' = [outcomeBar EXCEPT ![c] = IF a = "ok" THEN "done" ELSE "unknown"]
<1>1. Told(a) = IF a = "ok" THEN "done" ELSE "unknown"
  BY DEF Told
<1>2. Promise!Tell(c, Told(a))
  BY AnswerTold DEF Return
<1> QED
  BY <1>1, <1>2 DEF Promise!Tell

(* The commit of a Create takes the slot. *)
LEMMA BookSimulation ==
    ASSUME ConstantsAssumption, FreeAssumption, IInv, IInv', RInv,
           NEW c \in Calls, NEW a \in {"ok", "internal", "lost"},
           NEW copy \in booking[c], NEW b, b = AsStored(copy),
           pc[c] = "commit", req[c].op = "create", write[c] = {b},
           bookings' = Published(c), Return(c, a), UNCHANGED req
    PROVE  Promise!Book(c)
<1>1. /\ b \in Booking /\ IsActive(b) /\ b.id = c /\ b.slot = req[c].slot
      /\ req[c].slot \in Slots
  <2>1. /\ copy \in Booking /\ IsActive(copy) /\ copy.id = c /\ copy.slot = req[c].slot
        /\ copy.slot \in Slots
    BY DEF RInv, CopyInv, IInv, TypeOK, Booking
  <2> QED
    BY <2>1, StoredRow
<1>2. ~HasActiveBySlotID(req[c].slot)
  BY <1>1 DEF IInv, IndexInv
<1>3. \A x : x \in bookings' <=> x \in bookings \/ x = b
  <2>1. \A x \in bookings : x.id # b.id
    BY <1>1 DEF IInv, KeyInv
  <2> QED
    BY <2>1, PublishedWrite
<1>4. holderBar[req[c].slot] = Free
  BY <1>1, <1>2 DEF holderBar, HolderOf
<1>5. holderBar' = [holderBar EXCEPT ![req[c].slot] = c]
  <2>1. HolderOf(req[c].slot)' = c
    BY <1>1, <1>3, HolderHeldNext DEF IInv
  <2>2. ASSUME NEW s \in Slots, s # req[c].slot
        PROVE  HolderOf(s)' = HolderOf(s)
    BY <1>1, <1>3, <2>2, HolderKept DEF IInv
  <2> QED
    BY <2>1, <2>2 DEF holderBar
<1>6. UNCHANGED releasedBar
  BY <1>1, <1>3 DEF releasedBar, IsActive
<1>7. Promise!Open(c)
  BY OpenCall
<1>8. \E told \in {"done", "unknown"} : Promise!Tell(c, told)
  BY CommitTold DEF IInv, Promise!Tell
<1> QED
  BY <1>1, <1>4, <1>5, <1>6, <1>7, <1>8 DEF Promise!Book

(* The commit of a Cancel of an active booking frees the slot it held. *)
LEMMA ReleaseSimulation ==
    ASSUME ConstantsAssumption, FreeAssumption, IInv, IInv', RInv,
           NEW c \in Calls, NEW a \in {"ok", "internal", "lost"}, NEW b \in booking[c],
           pc[c] = "commit", req[c].op = "cancel", write[c] = {b},
           NEW row \in bookings, b = Cancelled(row), IsActive(row),
           bookings' = Published(c), Return(c, a), UNCHANGED req
    PROVE  Promise!Release(c)
<1>1. /\ row \in Booking /\ ~IsActive(b) /\ row.id = req[c].target /\ b.id = row.id
      /\ b.slot = row.slot /\ row.slot \in Slots
      /\ req[c].actor = row.user
  <2>1. /\ row \in Booking /\ ~IsActive(b) /\ b.id = row.id /\ b.slot = row.slot
    BY CancelledRow DEF IInv, TypeOK
  <2>2. row.slot \in Slots /\ b.user = row.user
    BY <2>1 DEF Booking, Cancelled
  <2>3. b.id = req[c].target /\ b.user = req[c].actor
    BY DEF RInv, CopyInv
  <2> QED
    BY <2>1, <2>2, <2>3
<1>2. req[row.id].actor = row.user
  BY DEF RInv, RowInv
<1>3. \A x : x \in bookings' <=> (x \in bookings /\ x # row) \/ x = b
  <2>1. \A x \in bookings : x.id = b.id <=> x = row
    BY <1>1 DEF IInv, KeyInv
  <2> QED
    BY <2>1, PublishedWrite
<1>4. holderBar[row.slot] = row.id
  BY <1>1, HolderHeld DEF holderBar, IInv
<1>5. holderBar' = [holderBar EXCEPT ![row.slot] = Free]
  <2>1. HolderOf(row.slot)' = Free
    <3>1. \A x \in bookings : IsActive(x) /\ x.slot = row.slot => x = row
      BY DEF IInv, OneActivePerSlot
    <3>2. ~HasActiveBySlotID(row.slot)'
      BY <1>1, <1>3, <3>1 DEF HasActiveBySlotID, IsActive
    <3> QED
      BY <3>2 DEF HolderOf
  <2>2. ASSUME NEW s \in Slots, s # row.slot
        PROVE  HolderOf(s)' = HolderOf(s)
    BY <1>1, <1>3, <2>2, HolderKept DEF IInv
  <2> QED
    BY <2>1, <2>2 DEF holderBar
<1>6. releasedBar' = releasedBar \cup {row.id}
  BY <1>1, <1>3 DEF releasedBar, IsActive
<1>7. Promise!Open(c)
  BY OpenCall
<1>8. \E told \in {"done", "unknown"} : Promise!Tell(c, told)
  BY CommitTold DEF IInv, Promise!Tell
<1> QED
  BY <1>1, <1>2, <1>4, <1>5, <1>6, <1>7, <1>8 DEF Promise!Release

(* Cancelling what is cancelled already, whether GetBooking found it so or *)
(* another Cancel came first, changes nothing.                             *)
LEMMA ReleaseAgainSimulation ==
    ASSUME ConstantsAssumption, FreeAssumption, IInv, RInv,
           NEW c \in Calls, NEW a \in {"ok", "internal", "lost"}, NEW b \in booking[c],
           pc[c] = "commit", req[c].op = "cancel",
           b \in bookings, write[c] = {b} \/ write[c] = {},
           bookings' = Published(c), Return(c, a), UNCHANGED req
    PROVE  Promise!ReleaseAgain(c) \/ Promise!Break({c})
<1>1. UNCHANGED bookings
  <2>1. \A x \in bookings : x.id = b.id => x = b
    BY DEF IInv, KeyInv
  <2> QED
    BY <2>1 DEF Published
<1>2. CASE a = "ok"
  <2>1. /\ b.id = req[c].target /\ b.user = req[c].actor /\ ~IsActive(b)
        /\ req[b.id].actor = b.user
    BY CancelledRow DEF RInv, CopyInv, RowInv, IInv, TypeOK
  <2>2. req[c].target \in releasedBar
    BY <2>1 DEF releasedBar
  <2>3. Promise!Tell(c, "done")
    BY <1>2, CommitTold DEF IInv, Promise!Tell
  <2>4. UNCHANGED <<req, holderBar, releasedBar>>
    BY <1>1, TableSame
  <2>5. Promise!Open(c)
    BY OpenCall
  <2> QED
    BY <2>1, <2>2, <2>3, <2>4, <2>5 DEF Promise!ReleaseAgain
<1>3. CASE a # "ok"
  BY <1>1, <1>3, FailureSimulation DEF IInv
<1> QED
  BY <1>2, <1>3

LEMMA CommitSimulation ==
    ASSUME ConstantsAssumption, FreeAssumption, IInv, IInv', RInv,
           NEW c \in Calls, NEW a \in {"ok", "internal", "lost"},
           pc[c] = "commit", bookings' = Published(c), Return(c, a), UNCHANGED req
    PROVE  Promise!BookNext
<1>1. PICK b \in booking[c] :
        \/ write[c] = {AsStored(b)}
        \/ write[c] = {} /\ req[c].op = "cancel" /\ b \in bookings
  BY DEF RInv, PendingInv
<1>copy. req[c].op = "cancel" => AsStored(b) = b
  <2>1. ASSUME req[c].op = "cancel"
        PROVE  \E row \in bookings : b = Cancelled(row)
    BY <2>1 DEF RInv, CopyInv
  <2>2. \A row \in bookings : row \in Booking /\ AsStored(row) = row
    BY DEF IInv, TypeOK, KeyInv
  <2> QED
    BY <2>1, <2>2, StoredRow
<1>2. CASE req[c].op = "create"
  BY <1>1, <1>2, BookSimulation DEF Promise!BookNext
<1>3. CASE req[c].op = "cancel" /\ b \in bookings
  <2>1. Promise!ReleaseAgain(c) \/ Promise!Break({c})
    BY <1>1, <1>copy, <1>3, ReleaseAgainSimulation
  <2> QED
    BY <2>1 DEF Promise!BookNext
<1>4. CASE req[c].op = "cancel" /\ b \notin bookings
  <2>1. PICK row \in bookings : b = Cancelled(row)
    BY <1>4 DEF RInv, CopyInv
  <2>2. IsActive(row)
    BY <1>4, <2>1 DEF IsActive, Cancelled, IInv, TypeOK, Booking
  <2>3. Promise!Release(c)
    BY <1>1, <1>copy, <1>4, <2>1, <2>2, ReleaseSimulation
  <2> QED
    BY <2>3 DEF Promise!BookNext
<1> QED
  BY <1>2, <1>3, <1>4 DEF ConstantsAssumption, IInv, TypeOK, CreateRequests, CancelRequests

LEMMA HandleSimulation ==
    ASSUME ConstantsAssumption, FreeAssumption, IInv, IInv', RInv,
           NEW c \in Calls, Handle(c)
    PROVE  [Promise!BookNext]_(Promise!abstractVars)
<1> DEFINE Refused == \E a \in {"ErrUnauthorized", "ErrForbidden", "ErrSlotNotFound",
                               "ErrPastSlotBooking", "ErrBookingNotFound"} :
                        Return(c, a) /\ UNCHANGED <<bookings, req>>
           Conflicted == /\ pc[c] \in {"hasActive", "insert"}
                         /\ HasActiveBySlotID(req[c].slot)
                         /\ Abort(c, "ErrSlotBooked")
           Silent == UNCHANGED <<bookings, req, answer>>
<1>1. \/ pc[c] # "answered" /\ (Refused \/ Conflicted \/ Silent)
      \/ Commit(c)
  <2>1. RequireRole(req[c].actor, "user") \in {"ErrUnauthorized", "ErrForbidden", "ok"}
    BY DEF RequireRole
  <2>2. CASE CreateStart(c) \/ CancelStart(c)
    BY <2>1, <2>2 DEF CreateStart, CancelStart, Abort
  <2>3. CASE GetSlot(c) \/ GetBooking(c)
    BY <2>3 DEF GetSlot, GetBooking, Abort
  <2>4. CASE CheckBusy(c)
    BY <2>4 DEF CheckBusy
  <2>5. CASE Build(c)
    BY <2>5 DEF Build
  <2>6. CASE Insert(c)
    BY <2>6 DEF Insert, IndexConflict, HasActiveBySlotID
  <2>7. CASE Update(c)
    BY <2>7 DEF Update
  <2> QED
    BY <2>2, <2>3, <2>4, <2>5, <2>6, <2>7 DEF Handle
<1>2. CASE pc[c] # "answered" /\ Refused
  BY <1>2, RefusalSimulation DEF Promise!BookNext, IInv
<1>3. CASE Conflicted
  BY <1>3, ConflictSimulation DEF Promise!BookNext
<1>4. CASE Silent
  BY <1>4, SilentStep
<1>5. CASE Commit(c)
  BY <1>5, CommitSimulation DEF Commit
<1> QED
  BY <1>1, <1>2, <1>3, <1>4, <1>5

LEMMA StepSimulation ==
    ASSUME ConstantsAssumption, FreeAssumption, IInv, IInv', RInv, [Next]_vars
    PROVE  [Promise!BookNext]_(Promise!abstractVars)
<1>1. ASSUME NEW c \in Calls, Handle(c)
      PROVE  [Promise!BookNext]_(Promise!abstractVars)
  BY <1>1, HandleSimulation
<1>2. ASSUME NEW c \in Calls, CommitUnacknowledged(c)
      PROVE  Promise!BookNext
  <2>1. PICK a \in {"internal", "lost"} : Return(c, a)
    BY <1>2 DEF CommitUnacknowledged
  <2> QED
    BY <1>2, <2>1, CommitSimulation DEF CommitUnacknowledged
<1>3. ASSUME NEW c \in Calls, Fail(c)
      PROVE  Promise!BookNext
  <2>1. Promise!Break({c})
    BY <1>3, FailureSimulation DEF Fail, InFlight, Abort, IInv
  <2> QED
    BY <2>1 DEF Promise!BookNext
<1>4. CASE Crash
  BY <1>4, CrashSimulation DEF Promise!BookNext
<1>5. CASE Tick \/ UNCHANGED vars
  BY <1>5, SilentStep DEF Tick, vars
<1> QED
  BY <1>1, <1>2, <1>3, <1>4, <1>5 DEF Next

(* Every call of the booking service takes effect in one step between its  *)
(* arrival and its answer, or not at all.                                  *)
THEOREM Refinement == Spec => CallsTakeEffectAtOnce
<1>1. Init => Promise!BookInit
  BY InitSimulation
<1>2. IInv /\ IInv' /\ RInv /\ [Next]_vars => [Promise!BookNext]_(Promise!abstractVars)
  BY StepSimulation, ConstantsAssumption, FreeAssumption
<1> QED
  BY <1>1, <1>2, Invariance, AnswersInvariance, PTL
     DEF Spec, CallsTakeEffectAtOnce, Promise!BookSpec
=============================================================================
