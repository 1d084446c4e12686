------------------------- MODULE BookingsProofs -------------------------
(***************************************************************************)
(* Proofs about Bookings, for any set of calls, slots, users and requests: *)
(* the inductive invariant IInv, the uniqueness of the active booking that *)
(* follows from it and the finality of a cancellation; then RInv, and that *)
(* answers agree with the table, refusals leave nothing behind and only    *)
(* owners cancel.                                                          *)
(***************************************************************************)
EXTENDS Bookings, TLAPS

(* Cancelling changes the status and nothing else, and once is enough      *)
(* (Booking.Cancel).                                                       *)
LEMMA CancelledRow ==
    ASSUME NEW b \in Booking
    PROVE  /\ Cancelled(b) \in Booking
           /\ Cancelled(b).id = b.id
           /\ Cancelled(b).slot = b.slot
           /\ ~IsActive(Cancelled(b))
           /\ Cancelled(Cancelled(b)) = Cancelled(b)
  BY DEF Booking, Cancelled, IsActive

(* A stored time is a time, not later than the one it was made from, and   *)
(* storing it again leaves it as it is (TIMESTAMPTZ).                      *)
LEMMA StoredTime ==
    ASSUME ConstantsAssumption, NEW t \in Nat
    PROVE  /\ Stored(t) \in Nat /\ Stored(t) <= t
           /\ Stored(Stored(t)) = Stored(t)
<1>1. Precision \in Nat \ {0}
  BY DEF ConstantsAssumption
<1> QED
  BY <1>1 DEF Stored

(* A row differs from its booking in the time alone (TIMESTAMPTZ).         *)
LEMMA StoredRow ==
    ASSUME ConstantsAssumption, NEW b \in Booking
    PROVE  /\ AsStored(b) \in Booking
           /\ AsStored(b).id = b.id /\ AsStored(b).slot = b.slot
           /\ AsStored(b).user = b.user /\ AsStored(b).link = b.link
           /\ IsActive(AsStored(b)) <=> IsActive(b)
           /\ AsStored(AsStored(b)) = AsStored(b)
           /\ AsStored(Cancelled(b)) = Cancelled(AsStored(b))
<1>1. Stored(b.createdAt) \in Nat /\ Stored(Stored(b.createdAt)) = Stored(b.createdAt)
  BY StoredTime DEF Booking
<1> QED
  BY <1>1 DEF Booking, AsStored, Cancelled, IsActive

(* Writing a cancelled copy of a row back over that row cancels it         *)
(* (BookingRepository.Update).                                             *)
LEMMA UpdatedRow ==
    ASSUME NEW b \in Booking, AsStored(b) = b
    PROVE  Updated(b, Cancelled(b)) = Cancelled(b)
<1>1. Stored(b.createdAt) = b.createdAt
  BY DEF AsStored, Booking
<1> QED
  BY <1>1 DEF Booking, Updated, Cancelled

(* A commit brings in the transaction's own rows and no others, and a row  *)
(* it replaces is replaced by its cancelled self.                          *)
LEMMA PublishedRows ==
    ASSUME IInv, NEW c \in Calls, pc[c] = "commit"
    PROVE  /\ \A b \in Published(c) : b \in bookings \/ b \in write[c]
           /\ \A b \in bookings : b \in Published(c) \/ Cancelled(b) \in Published(c)
           /\ \A w \in write[c] : w \in Published(c)
           /\ \A b \in Published(c), w \in write[c] : b.id = w.id => b = w
<1>1. /\ \A b \in Published(c) : b \in bookings \/ b \in write[c]
      /\ \A w \in write[c] : w \in Published(c)
  BY DEF Published
<1>2. ASSUME NEW b \in Published(c), NEW w \in write[c], b.id = w.id
      PROVE  b = w
  BY <1>2 DEF Published, IInv, WriteInv
<1>3. ASSUME NEW b \in bookings, b \notin Published(c)
      PROVE  Cancelled(b) \in Published(c)
  <2>1. PICK w \in write[c] : b.id = w.id
    BY <1>3 DEF Published
  <2>2. ~(w.id = c)
    BY <2>1 DEF IInv, KeyInv
  <2>3. PICK row \in bookings : w = Cancelled(row)
    BY <2>2 DEF IInv, WriteInv
  <2>4. row.id = b.id
    BY <2>1, <2>3, CancelledRow DEF IInv, TypeOK
  <2>5. row = b
    BY <2>4 DEF IInv, KeyInv
  <2> QED
    BY <1>1, <2>3, <2>5
<1> QED
  BY <1>1, <1>2, <1>3

LEMMA InitInv ==
    ASSUME ConstantsAssumption, Init
    PROVE  IInv
<1>1. TypeOK
  BY DEF Init, TypeOK, PCs, Answers
<1>2. ControlInv /\ KeyInv /\ LocalInv /\ WriteInv /\ IndexInv /\ OneActivePerSlot
  BY DEF Init, ControlInv, KeyInv, LocalInv, WriteInv, IndexInv, OneActivePerSlot
<1> QED
  BY <1>1, <1>2 DEF IInv

----------------------------------------------------------------------------
(* The table and the open transactions' rows are all that the invariants   *)
(* of the table are about.                                                 *)
LEMMA TableUnchanged ==
    ASSUME IInv,
           UNCHANGED <<bookings, req>>,
           \A c \in Calls : write'[c] \subseteq write[c],
           \A c \in Calls : pc[c] = "answered" => pc'[c] = "answered"
    PROVE  KeyInv' /\ IndexInv' /\ OneActivePerSlot'
<1>1. KeyInv'
  BY DEF IInv, TypeOK, KeyInv, Booking
<1>2. IndexInv'
  BY DEF IInv, IndexInv, IsActive, HasActiveBySlotID
<1>3. OneActivePerSlot'
  BY DEF IInv, OneActivePerSlot, IsActive
<1> QED
  BY <1>1, <1>2, <1>3

(* A handler that returns an error leaves everything but its own call's    *)
(* transaction as it was.                                                  *)
LEMMA AbortInv ==
    ASSUME ConstantsAssumption, IInv,
           NEW c \in Calls, NEW a \in Answers, Abort(c, a)
    PROVE  IInv'
<1> USE DEF Abort, Return, Goto
<1>1. TypeOK'
  BY DEF IInv, TypeOK, PCs
<1>2. ControlInv'
  BY DEF IInv, TypeOK, ControlInv
<1>3. LocalInv'
  BY DEF IInv, TypeOK, LocalInv, NewActiveBooking
<1>4. WriteInv'
  BY DEF IInv, TypeOK, WriteInv
<1>5. KeyInv' /\ IndexInv' /\ OneActivePerSlot'
  <2>1. /\ \A d \in Calls : write'[d] \subseteq write[d]
        /\ \A d \in Calls : pc[d] = "answered" => pc'[d] = "answered"
    BY DEF IInv, TypeOK
  <2> QED
    BY <2>1, TableUnchanged
<1> QED
  BY <1>1, <1>2, <1>3, <1>4, <1>5 DEF IInv

(* A statement that only reads moves its own call on. *)
LEMMA MoveInv ==
    ASSUME ConstantsAssumption, IInv,
           NEW c \in Calls, NEW label \in {"getSlot", "hasActive", "build", "getBooking"},
           pc[c] # "answered", pc[c] # "commit",
           label \in {"getSlot", "hasActive", "build"} => req[c] \in CreateRequests,
           label \in {"hasActive", "build"} => req[c].slot \in Slots,
           label = "getBooking" => req[c] \in CancelRequests,
           Goto(c, label),
           \/ UNCHANGED now
           \/ now' = [now EXCEPT ![c] = clock],
           pc[c] # "insert",
           UNCHANGED <<clock, bookings, links, req, booking, write, answer>>
    PROVE  IInv'
<1> USE DEF Goto
<1>1. TypeOK'
  BY DEF IInv, TypeOK, PCs
<1>2. ControlInv'
  BY DEF IInv, TypeOK, ControlInv
<1>3. LocalInv'
  BY DEF IInv, TypeOK, LocalInv, NewActiveBooking
<1>4. WriteInv'
  BY DEF IInv, TypeOK, WriteInv
<1>5. KeyInv' /\ IndexInv' /\ OneActivePerSlot'
  <2>1. /\ \A d \in Calls : write'[d] \subseteq write[d]
        /\ \A d \in Calls : pc[d] = "answered" => pc'[d] = "answered"
    BY DEF IInv, TypeOK
  <2> QED
    BY <2>1, TableUnchanged
<1> QED
  BY <1>1, <1>2, <1>3, <1>4, <1>5 DEF IInv

(* The operation decides which of the two kinds a request is. *)
LEMMA RequestKinds ==
    ASSUME ConstantsAssumption, TypeOK, NEW c \in Calls
    PROVE  /\ req[c].op = "create" => req[c] \in CreateRequests
           /\ req[c].op = "cancel" => req[c] \in CancelRequests
           /\ req[c] \in CreateRequests => req[c].op = "create"
           /\ req[c] \in CancelRequests => req[c].op = "cancel"
  BY DEF ConstantsAssumption, TypeOK, CreateRequests, CancelRequests

(* A commit publishes one transaction's row. *)
LEMMA CommitInv ==
    ASSUME ConstantsAssumption, IInv,
           NEW c \in Calls, NEW a \in {"ok", "internal", "lost"},
           pc[c] = "commit", bookings' = Published(c), Return(c, a),
           UNCHANGED <<clock, links, req, now, booking>>
    PROVE  IInv'
<1> USE DEF Return, Goto
<1>rows. /\ \A b \in bookings' : b \in bookings \/ b \in write[c]
         /\ \A b \in bookings : b \in bookings' \/ Cancelled(b) \in bookings'
         /\ \A w \in write[c] : w \in bookings'
         /\ \A b \in bookings', w \in write[c] : b.id = w.id => b = w
  BY PublishedRows
<1>1. TypeOK'
  <2>1. bookings' \in SUBSET Booking
    BY <1>rows DEF IInv, TypeOK
  <2> QED
    BY <2>1 DEF IInv, TypeOK, PCs, Answers
<1>2. ControlInv'
  BY DEF IInv, TypeOK, ControlInv
<1>3. LocalInv'
  <2>1. ASSUME NEW row \in bookings
        PROVE  \E r \in bookings' : r.id = row.id /\ Cancelled(r) = Cancelled(row)
    BY <1>rows, CancelledRow DEF IInv, TypeOK
  <2>2. ASSUME NEW d \in Calls, pc'[d] = "update", NEW b \in booking'[d]
        PROVE  \E r \in bookings' : r.id = req'[d].target /\ b = Cancelled(r)
    <3>1. pc[d] = "update" /\ b \in booking[d]
      BY <2>2 DEF IInv, TypeOK
    <3>2. PICK row \in bookings : row.id = req[d].target /\ b = Cancelled(row)
      BY <3>1 DEF IInv, LocalInv
    <3> QED
      BY <2>1, <3>2
  <2>3. ASSUME NEW d \in Calls, pc'[d] = "insert"
        PROVE  booking'[d] = {NewActiveBooking(d)'}
    BY <2>3 DEF IInv, TypeOK, LocalInv, NewActiveBooking
  <2> QED
    BY <2>2, <2>3 DEF LocalInv
<1>4. WriteInv'
  <2>1. ASSUME NEW d \in Calls, NEW w \in write'[d]
        PROVE  \/ req'[d].op = "create" /\ w.id = d /\ IsActive(w) /\ AsStored(w) = w
               \/ \E r \in bookings' : w = Cancelled(r)
    <3>1. w \in write[d]
      BY <2>1 DEF IInv, TypeOK
    <3>2. CASE req[d].op = "create" /\ w.id = d /\ IsActive(w) /\ AsStored(w) = w
      BY <3>2
    <3>3. CASE \E row \in bookings : w = Cancelled(row)
      BY <3>3, <1>rows, CancelledRow DEF IInv, TypeOK
    <3> QED
      BY <3>1, <3>2, <3>3 DEF IInv, WriteInv
  <2>2. ASSUME NEW d \in Calls
        PROVE  (write'[d] # {} => pc'[d] = "commit") /\ \A x, y \in write'[d] : x = y
    BY DEF IInv, TypeOK, WriteInv
  <2> QED
    BY <2>1, <2>2 DEF WriteInv
<1>5. KeyInv'
  <2>1. \A x, y \in bookings' : x.id = y.id => x = y
    BY <1>rows DEF IInv, KeyInv
  <2>2. ASSUME NEW b \in bookings'
        PROVE  req'[b.id].op = "create" /\ pc'[b.id] = "answered"
    <3>1. CASE b \in bookings
      BY <3>1 DEF IInv, KeyInv, TypeOK
    <3>2. CASE b \in write[c]
      <4>1. CASE req[c].op = "create" /\ b.id = c
        BY <4>1 DEF IInv, TypeOK
      <4>2. CASE \E row \in bookings : b = Cancelled(row)
        BY <4>2, CancelledRow DEF IInv, KeyInv, TypeOK
      <4> QED
        BY <3>2, <4>1, <4>2 DEF IInv, WriteInv
    <3> QED
      BY <1>rows, <3>1, <3>2
  <2>3. ASSUME NEW b \in bookings'
        PROVE  AsStored(b) = b
    <3>1. CASE b \in bookings
      BY <3>1 DEF IInv, KeyInv
    <3>2. CASE b \in write[c] /\ \E row \in bookings : b = Cancelled(row)
      <4>1. PICK row \in bookings : b = Cancelled(row)
        BY <3>2
      <4>2. AsStored(row) = row /\ row \in Booking
        BY DEF IInv, KeyInv, TypeOK
      <4> QED
        BY <4>1, <4>2, StoredRow
    <3>3. CASE b \in write[c] /\ AsStored(b) = b
      BY <3>3
    <3> QED
      BY <1>rows, <3>1, <3>2, <3>3 DEF IInv, WriteInv
  <2> QED
    BY <2>1, <2>2, <2>3 DEF KeyInv
<1>6. IndexInv'
  <2>1. ASSUME NEW d \in Calls, NEW w \in write'[d], IsActive(w),
               NEW b \in bookings', b.slot = w.slot, IsActive(b)
        PROVE  FALSE
    <3>1. w \in write[d] /\ d # c
      BY <2>1 DEF IInv, TypeOK
    <3>2. b \notin bookings
      BY <2>1, <3>1 DEF IInv, IndexInv, HasActiveBySlotID
    <3>3. b \in write[c]
      BY <1>rows, <3>2
    <3> QED
      BY <2>1, <3>1, <3>3 DEF IInv, IndexInv
  <2>2. ASSUME NEW d \in Calls, NEW e \in Calls, NEW x \in write'[d], NEW y \in write'[e],
               IsActive(x), IsActive(y), x.slot = y.slot
        PROVE  d = e
    <3>1. x \in write[d] /\ y \in write[e]
      BY DEF IInv, TypeOK
    <3> QED
      BY <2>2, <3>1 DEF IInv, IndexInv
  <2> QED
    BY <2>1, <2>2 DEF IndexInv, HasActiveBySlotID, IsActive
<1>7. OneActivePerSlot'
  <2>1. ASSUME NEW x \in bookings', NEW y \in bookings',
               IsActive(x), IsActive(y), x.slot = y.slot
        PROVE  x = y
    <3>1. CASE x \in bookings /\ y \in bookings
      BY <2>1, <3>1 DEF IInv, OneActivePerSlot
    <3>2. CASE x \in write[c] /\ y \in bookings
      BY <2>1, <3>2 DEF IInv, IndexInv, HasActiveBySlotID
    <3>3. CASE x \in bookings /\ y \in write[c]
      BY <2>1, <3>3 DEF IInv, IndexInv, HasActiveBySlotID
    <3>4. CASE x \in write[c] /\ y \in write[c]
      BY <3>4 DEF IInv, WriteInv
    <3> QED
      BY <1>rows, <3>1, <3>2, <3>3, <3>4
  <2> QED
    BY <2>1 DEF OneActivePerSlot, IsActive
<1> QED
  BY <1>1, <1>2, <1>3, <1>4, <1>5, <1>6, <1>7 DEF IInv

(* Building the booking touches the call's local copy only. *)
LEMMA BuildInv ==
    ASSUME ConstantsAssumption, IInv, NEW c \in Calls, Build(c)
    PROVE  IInv'
<1> USE DEF Build, Return, Goto
<1>0. req[c] \in CreateRequests /\ req[c].slot \in Slots
  BY DEF IInv, ControlInv
<1>1. TypeOK'
  <2>1. NewActiveBooking(c) \in Booking
    BY <1>0 DEF IInv, TypeOK, NewActiveBooking, Booking, CreateRequests
  <2>2. links' \in SUBSET Calls
    BY DEF IInv, TypeOK
  <2> QED
    BY <2>1, <2>2 DEF IInv, TypeOK, PCs, Answers
<1>2. ControlInv'
  BY <1>0 DEF IInv, TypeOK, ControlInv
<1>3. LocalInv'
  BY DEF IInv, TypeOK, LocalInv, NewActiveBooking
<1>4. WriteInv'
  BY DEF IInv, TypeOK, WriteInv
<1>5. KeyInv' /\ IndexInv' /\ OneActivePerSlot'
  <2>1. /\ \A d \in Calls : write'[d] \subseteq write[d]
        /\ \A d \in Calls : pc[d] = "answered" => pc'[d] = "answered"
    BY DEF IInv, TypeOK
  <2> QED
    BY <2>1, TableUnchanged
<1> QED
  BY <1>1, <1>2, <1>3, <1>4, <1>5 DEF IInv

(* The INSERT enters the unique index: nobody else is in it for the slot.  *)
LEMMA InsertInv ==
    ASSUME ConstantsAssumption, IInv, NEW c \in Calls,
           pc[c] = "insert",
           ~IndexBusy(c, req[c].slot),
           ~IndexConflict(req[c].slot),
           write' = [write EXCEPT ![c] = {AsStored(b) : b \in booking[c]}],
           Goto(c, "commit"),
           UNCHANGED <<clock, bookings, links, req, now, booking, answer>>
    PROVE  IInv'
<1> USE DEF Goto
<1>0. /\ req[c].op = "create" /\ req[c] \in CreateRequests
      /\ write[c] = {}
      /\ booking[c] = {NewActiveBooking(c)}
  BY RequestKinds DEF IInv, ControlInv, LocalInv, WriteInv
<1> DEFINE row == AsStored(NewActiveBooking(c))
<1>1. write' = [write EXCEPT ![c] = {row}]
  BY <1>0
<1>2. /\ row \in Booking /\ row.id = c /\ row.slot = req[c].slot
      /\ IsActive(row) /\ AsStored(row) = row
  <2>1. NewActiveBooking(c) \in Booking
    BY <1>0 DEF IInv, TypeOK
  <2>2. /\ NewActiveBooking(c).id = c /\ NewActiveBooking(c).slot = req[c].slot
        /\ IsActive(NewActiveBooking(c))
    BY DEF NewActiveBooking, IsActive
  <2> QED
    BY <2>1, <2>2, StoredRow
<1> HIDE DEF row
<1>3. TypeOK'
  BY <1>1, <1>2 DEF IInv, TypeOK, PCs
<1>4. ControlInv'
  BY DEF IInv, TypeOK, ControlInv
<1>5. LocalInv'
  BY DEF IInv, TypeOK, LocalInv, NewActiveBooking
<1>6. KeyInv'
  BY DEF IInv, TypeOK, KeyInv, Booking
<1>7. WriteInv'
  <2>1. ASSUME NEW d \in Calls, d # c
        PROVE  write'[d] = write[d] /\ pc'[d] = pc[d]
    BY <2>1 DEF IInv, TypeOK
  <2>2. write'[c] = {row} /\ pc'[c] = "commit"
    BY <1>1 DEF IInv, TypeOK
  <2> QED
    BY <1>0, <1>2, <2>1, <2>2 DEF IInv, WriteInv, IsActive
<1>8. IndexInv'
  <2>1. /\ \A d \in Calls \ {c} : write'[d] = write[d]
        /\ write'[c] = {row}
    BY <1>1 DEF IInv, TypeOK
  <2>2. ASSUME NEW d \in Calls, NEW w \in write'[d], IsActive(w),
               NEW b \in bookings, b.slot = w.slot, IsActive(b)
        PROVE  FALSE
    <3>1. CASE d = c
      BY <1>2, <2>1, <2>2, <3>1 DEF IndexConflict
    <3>2. CASE d # c
      BY <2>1, <2>2, <3>2 DEF IInv, IndexInv, HasActiveBySlotID
    <3> QED
      BY <3>1, <3>2
  <2>3. ASSUME NEW d \in Calls \ {c}, NEW w \in write[d], IsActive(w)
        PROVE  w.slot # req[c].slot
    BY <2>3 DEF IndexBusy
  <2>4. ASSUME NEW d \in Calls, NEW e \in Calls, NEW x \in write'[d], NEW y \in write'[e],
               IsActive(x), IsActive(y), x.slot = y.slot
        PROVE  d = e
    <3>1. CASE d # c /\ e # c
      BY <2>1, <2>4, <3>1 DEF IInv, IndexInv
    <3>2. CASE d = c \/ e = c
      BY <1>2, <2>1, <2>3, <2>4, <3>2
    <3> QED
      BY <3>1, <3>2
  <2> QED
    BY <2>2, <2>4 DEF IndexInv, HasActiveBySlotID, IsActive
<1>9. OneActivePerSlot'
  BY DEF IInv, OneActivePerSlot, IsActive
<1> QED
  BY <1>3, <1>4, <1>5, <1>6, <1>7, <1>8, <1>9 DEF IInv

(* Reading a booking to cancel prepares its cancelled copy. *)
LEMMA GetBookingInv ==
    ASSUME ConstantsAssumption, IInv, NEW c \in Calls,
           pc[c] = "getBooking",
           NEW b \in GetByID(req[c].target),
           booking' = [booking EXCEPT ![c] = {Cancelled(b)}],
           Goto(c, IF IsActive(b) THEN "update" ELSE "commit"),
           UNCHANGED <<clock, bookings, links, req, now, write, answer>>
    PROVE  IInv'
<1> USE DEF Goto
<1>0. b \in bookings /\ b.id = req[c].target /\ Cancelled(b) \in Booking
  BY CancelledRow DEF GetByID, IInv, TypeOK
<1>1. TypeOK'
  BY <1>0 DEF IInv, TypeOK, PCs
<1>2. ControlInv'
  BY DEF IInv, TypeOK, ControlInv
<1>3. LocalInv'
  <2>1. booking'[c] = {Cancelled(b)} /\ pc'[c] # "insert"
    BY DEF IInv, TypeOK
  <2>2. \A d \in Calls \ {c} : booking'[d] = booking[d] /\ pc'[d] = pc[d]
    BY DEF IInv, TypeOK
  <2> QED
    BY <1>0, <2>1, <2>2 DEF IInv, LocalInv, NewActiveBooking, Cancelled
<1>4. WriteInv'
  BY DEF IInv, TypeOK, WriteInv
<1>5. KeyInv' /\ IndexInv' /\ OneActivePerSlot'
  <2>1. /\ \A d \in Calls : write'[d] \subseteq write[d]
        /\ \A d \in Calls : pc[d] = "answered" => pc'[d] = "answered"
    BY DEF IInv, TypeOK
  <2> QED
    BY <2>1, TableUnchanged
<1> QED
  BY <1>1, <1>2, <1>3, <1>4, <1>5 DEF IInv

(* The UPDATE of Cancel writes the row it finds, cancelled, even if the    *)
(* copy it was made from is stale.                                         *)
LEMMA UpdateInv ==
    ASSUME ConstantsAssumption, IInv, NEW c \in Calls, Update(c)
    PROVE  IInv'
<1> USE DEF Goto
<1>0. PICK row \in bookings, b \in booking[c] :
        row.id = req[c].target /\ write' = [write EXCEPT ![c] = {Updated(row, b)}]
  BY DEF Update, GetByID
<1>1. pc[c] = "update" /\ pc' = [pc EXCEPT ![c] = "commit"]
      /\ UNCHANGED <<clock, bookings, links, req, now, booking, answer>>
  BY DEF Update
<1>2. Updated(row, b) = Cancelled(row)
  <2>1. PICK r \in bookings : r.id = req[c].target /\ b = Cancelled(r)
    BY <1>0, <1>1 DEF IInv, LocalInv
  <2>2. r = row
    BY <1>0, <2>1 DEF IInv, KeyInv
  <2> QED
    BY <2>1, <2>2, UpdatedRow DEF IInv, TypeOK, KeyInv
<1>3. /\ write' = [write EXCEPT ![c] = {Cancelled(row)}]
      /\ Cancelled(row) \in Booking
      /\ ~IsActive(Cancelled(row))
  BY <1>0, <1>2, CancelledRow DEF IInv, TypeOK
<1>4. /\ write'[c] = {Cancelled(row)} /\ pc'[c] = "commit"
      /\ \A d \in Calls \ {c} : write'[d] = write[d] /\ pc'[d] = pc[d]
  BY <1>1, <1>3 DEF IInv, TypeOK
<1>5. TypeOK'
  BY <1>1, <1>3 DEF IInv, TypeOK, PCs
<1>6. ControlInv'
  BY <1>1 DEF IInv, TypeOK, ControlInv
<1>7. LocalInv'
  BY <1>1 DEF IInv, TypeOK, LocalInv, NewActiveBooking
<1>8. KeyInv' /\ OneActivePerSlot'
  BY <1>1 DEF IInv, TypeOK, KeyInv, Booking, OneActivePerSlot, IsActive
<1>9. WriteInv'
  BY <1>1, <1>4 DEF IInv, WriteInv, IsActive, Cancelled
<1>10. IndexInv'
  BY <1>1, <1>3, <1>4 DEF IInv, IndexInv, HasActiveBySlotID, IsActive
<1> QED
  BY <1>5, <1>6, <1>7, <1>8, <1>9, <1>10 DEF IInv

(* A crash empties every open transaction. *)
LEMMA CrashInv ==
    ASSUME ConstantsAssumption, IInv, Crash
    PROVE  IInv'
<1> USE DEF Crash, InFlight
<1>1. TypeOK'
  BY DEF IInv, TypeOK, PCs, Answers
<1>2. ControlInv' /\ LocalInv' /\ WriteInv'
  BY DEF IInv, TypeOK, ControlInv, LocalInv, WriteInv, NewActiveBooking
<1>3. KeyInv' /\ IndexInv' /\ OneActivePerSlot'
  <2>1. /\ \A d \in Calls : write'[d] \subseteq write[d]
        /\ \A d \in Calls : pc[d] = "answered" => pc'[d] = "answered"
    BY DEF IInv, TypeOK
  <2> QED
    BY <2>1, TableUnchanged
<1> QED
  BY <1>1, <1>2, <1>3 DEF IInv

----------------------------------------------------------------------------
LEMMA HandleInv ==
    ASSUME ConstantsAssumption, IInv, NEW c \in Calls, Handle(c)
    PROVE  IInv'
<1> USE AbortInv, MoveInv, RequestKinds
<1>0. TypeOK
  BY DEF IInv
<1>1. CASE CreateStart(c)
  <2>1. RequireRole(req[c].actor, "user") \in {"ErrUnauthorized", "ErrForbidden", "ok"}
    BY DEF RequireRole
  <2> QED
    BY <1>0, <1>1, <2>1 DEF CreateStart, Answers
<1>2. CASE GetSlot(c)
  <2>1. req[c] \in CreateRequests
    BY <1>2 DEF GetSlot, IInv, ControlInv
  <2> QED
    BY <1>2, <2>1 DEF GetSlot, Answers
<1>3. CASE CheckBusy(c)
  <2>1. req[c] \in CreateRequests /\ req[c].slot \in Slots
    BY <1>3 DEF CheckBusy, IInv, ControlInv
  <2> QED
    BY <1>3, <2>1 DEF CheckBusy, Answers
<1>4. CASE Build(c)
  BY <1>4, BuildInv
<1>5. CASE Insert(c)
  BY <1>5, InsertInv DEF Insert, Answers
<1>6. CASE CancelStart(c)
  <2>1. RequireRole(req[c].actor, "user") \in {"ErrUnauthorized", "ErrForbidden", "ok"}
    BY DEF RequireRole
  <2> QED
    BY <1>0, <1>6, <2>1 DEF CancelStart, Answers
<1>7. CASE GetBooking(c)
  <2>1. CASE Abort(c, "ErrBookingNotFound") \/ Abort(c, "ErrForbidden")
    BY <2>1 DEF Answers
  <2>2. CASE ~(Abort(c, "ErrBookingNotFound") \/ Abort(c, "ErrForbidden"))
    BY <1>7, <2>2, GetBookingInv DEF GetBooking
  <2> QED
    BY <2>1, <2>2
<1>8. CASE Update(c)
  BY <1>8, UpdateInv
<1>9. CASE Commit(c)
  BY <1>9, CommitInv DEF Commit
<1> QED
  BY <1>1, <1>2, <1>3, <1>4, <1>5, <1>6, <1>7, <1>8, <1>9 DEF Handle

LEMMA NextInv ==
    ASSUME ConstantsAssumption, IInv, [Next]_vars
    PROVE  IInv'
<1>1. ASSUME NEW c \in Calls, Handle(c)
      PROVE  IInv'
  BY <1>1, HandleInv
<1>2. ASSUME NEW c \in Calls, CommitUnacknowledged(c)
      PROVE  IInv'
  <2>1. PICK a \in {"internal", "lost"} : Return(c, a)
    BY <1>2 DEF CommitUnacknowledged
  <2> QED
    BY <1>2, <2>1, CommitInv DEF CommitUnacknowledged
<1>3. ASSUME NEW c \in Calls, Fail(c)
      PROVE  IInv'
  BY <1>3, AbortInv DEF Fail, Answers
<1>4. CASE Crash
  BY <1>4, CrashInv
<1>5. CASE Tick
  <2>1. TypeOK' /\ ControlInv' /\ LocalInv' /\ WriteInv'
    BY <1>5 DEF Tick, ConstantsAssumption, IInv, TypeOK, ControlInv, LocalInv,
                WriteInv, NewActiveBooking, IsActive
  <2>2. KeyInv' /\ IndexInv' /\ OneActivePerSlot'
    BY <1>5, TableUnchanged DEF Tick
  <2> QED
    BY <2>1, <2>2 DEF IInv
<1>6. CASE UNCHANGED vars
  <2>1. TypeOK' /\ ControlInv' /\ LocalInv' /\ WriteInv'
    BY <1>6 DEF vars, IInv, TypeOK, ControlInv, LocalInv, WriteInv,
                NewActiveBooking, IsActive
  <2>2. KeyInv' /\ IndexInv' /\ OneActivePerSlot'
    BY <1>6, TableUnchanged DEF vars
  <2> QED
    BY <2>1, <2>2 DEF IInv
<1> QED
  BY <1>1, <1>2, <1>3, <1>4, <1>5, <1>6 DEF Next

(* IInv holds in every state the booking service can reach. *)
THEOREM Invariance == Spec => []IInv
<1>1. Init => IInv
  BY InitInv, ConstantsAssumption
<1>2. IInv /\ [Next]_vars => IInv'
  BY NextInv, ConstantsAssumption
<1> QED
  BY <1>1, <1>2, PTL DEF Spec

(* Every variable of the booking service keeps its type. *)
THEOREM TypeCorrect == Spec => []TypeOK
<1>1. IInv => TypeOK
  BY DEF IInv
<1> QED
  BY <1>1, Invariance, PTL

(* No slot ever has two active bookings, with any number of concurrent     *)
(* Create and Cancel calls, failures and restarts.                         *)
THEOREM NoDoubleBooking == Spec => []OneActivePerSlot
<1>1. IInv => OneActivePerSlot
  BY DEF IInv
<1> QED
  BY <1>1, Invariance, PTL

----------------------------------------------------------------------------
(* What a single step may do to the answers and to the table. *)

LEMMA CancelStep ==
    ASSUME IInv, [Next]_vars
    PROVE  \A b \in bookings : b \in bookings' \/ Cancelled(b) \in bookings'
<1>1. CASE UNCHANGED bookings
  BY <1>1
<1>2. ASSUME NEW c \in Calls, Commit(c) \/ CommitUnacknowledged(c)
      PROVE  \A b \in bookings : b \in bookings' \/ Cancelled(b) \in bookings'
  BY <1>2, PublishedRows DEF Commit, CommitUnacknowledged
<1>3. UNCHANGED bookings \/ \E c \in Calls : Commit(c) \/ CommitUnacknowledged(c)
  BY DEF Next, Handle, CreateStart, GetSlot, CheckBusy, Build, Insert, CancelStart,
         GetBooking, Update, Fail, Crash, Tick, Abort, vars
<1> QED
  BY <1>1, <1>2, <1>3

(* A booking is never lost and never comes back from cancelled to active:  *)
(* no step, however stale the copy it writes, undoes a cancellation.       *)
THEOREM CancellationIsFinal == Spec => CancelIsFinal
<1>1. IInv /\ [Next]_vars =>
        [\A b \in bookings : b \in bookings' \/ Cancelled(b) \in bookings']_vars
  BY CancelStep
<1> QED
  BY <1>1, Invariance, PTL DEF Spec, CancelIsFinal

----------------------------------------------------------------------------
(* What calls are told, hold and leave behind: RInv is inductive on top of *)
(* IInv.                                                                   *)

(* ErrSlotBooked and the other refusals: the call is over and nothing that *)
(* others can see has changed.                                             *)
LEMMA AbortAnswers ==
    ASSUME ConstantsAssumption, IInv, RInv,
           NEW c \in Calls, NEW a \in Answers \ {"none", "ok"},
           pc[c] # "answered", Abort(c, a)
    PROVE  RInv'
<1> USE DEF Abort, Return, Goto, IInv, TypeOK, RInv
<1>1. AnswerInv'
  BY DEF AnswerInv
<1>2. RowInv' /\ LinkOfBookingExists'
  BY DEF RowInv, LinkOfBookingExists
<1>3. CopyInv'
  BY DEF CopyInv, IsActive
<1>4. PendingInv'
  BY DEF PendingInv
<1>5. LinkInv'
  BY DEF LinkInv
<1>6. ReplyIsStored'
  BY DEF ReplyIsStored
<1>7. RefusedLeavesNothing'
  BY DEF RefusedLeavesNothing, KeyInv, Booking
<1> QED
  BY <1>1, <1>2, <1>3, <1>4, <1>5, <1>6, <1>7

(* A statement that only reads leaves the call without a copy or a link. *)
LEMMA MoveAnswers ==
    ASSUME ConstantsAssumption, IInv, RInv,
           NEW c \in Calls, NEW label \in {"getSlot", "hasActive", "build", "getBooking"},
           pc[c] \in {"received", "getSlot", "hasActive"},
           Goto(c, label),
           UNCHANGED <<bookings, links, req, booking, write, answer>>
    PROVE  RInv'
<1> USE DEF Goto, IInv, TypeOK, RInv
<1>1. AnswerInv'
  BY DEF AnswerInv
<1>2. RowInv' /\ LinkOfBookingExists' /\ ReplyIsStored' /\ RefusedLeavesNothing'
  BY DEF RowInv, LinkOfBookingExists, ReplyIsStored, RefusedLeavesNothing
<1>3. CopyInv'
  BY DEF CopyInv, IsActive
<1>4. PendingInv'
  BY DEF PendingInv
<1>5. LinkInv'
  BY DEF LinkInv
<1> QED
  BY <1>1, <1>2, <1>3, <1>4, <1>5

(* Build makes the link and, unless the slot has begun, the call's copy. *)
LEMMA BuildAnswers ==
    ASSUME ConstantsAssumption, IInv, RInv, NEW c \in Calls, Build(c)
    PROVE  RInv'
<1> USE DEF Build, Return, Goto, IInv, TypeOK, RInv
<1>0. req[c].op = "create" /\ c \notin links /\ booking[c] = {}
  BY RequestKinds DEF ControlInv, LinkInv, CopyInv
<1>1. \A b \in bookings : b.id # c
  BY DEF KeyInv
<1>2. ASSUME NEW d \in Calls \ {c}, NEW b \in booking[d]
      PROVE  b.id # c
  <2>1. CASE req[d].op = "create"
    BY <1>2, <2>1 DEF CopyInv
  <2>2. CASE req[d].op = "cancel"
    <3>1. PICK row \in bookings : b = Cancelled(row)
      BY <1>2, <2>2 DEF CopyInv
    <3> QED
      BY <1>1, <3>1, CancelledRow
  <2> QED
    BY <2>1, <2>2 DEF ConstantsAssumption, CreateRequests, CancelRequests
<1>3. AnswerInv' /\ RowInv'
  BY DEF AnswerInv, RowInv
<1>4. CopyInv'
  BY <1>0 DEF CopyInv, IsActive, NewActiveBooking
<1>5. PendingInv'
  BY DEF PendingInv, WriteInv
<1>6. LinkInv'
  <2>1. ASSUME NEW d \in Calls
        PROVE  pc'[d] \in {"received", "getSlot", "hasActive", "build"} => d \notin links'
    BY DEF LinkInv
  <2>2. ASSUME NEW d \in Calls, d # c, NEW b \in booking'[d]
        PROVE  b.link <=> b.id \in links'
    BY <1>2, <2>2 DEF LinkInv
  <2>3. ASSUME NEW b \in booking'[c]
        PROVE  b.link <=> b.id \in links'
    BY <1>0, <2>3 DEF NewActiveBooking
  <2> QED
    BY <2>1, <2>2, <2>3 DEF LinkInv
<1>7. ReplyIsStored'
  BY DEF ReplyIsStored, AnswerInv
<1>8. RefusedLeavesNothing'
  BY <1>1 DEF RefusedLeavesNothing, Booking
<1>9. LinkOfBookingExists'
  BY <1>1 DEF LinkOfBookingExists
<1> QED
  BY <1>3, <1>4, <1>5, <1>6, <1>7, <1>8, <1>9

(* Insert writes the call's own copy. *)
LEMMA InsertAnswers ==
    ASSUME ConstantsAssumption, IInv, RInv, NEW c \in Calls,
           pc[c] = "insert",
           write' = [write EXCEPT ![c] = {AsStored(b) : b \in booking[c]}],
           Goto(c, "commit"),
           UNCHANGED <<clock, bookings, links, req, now, booking, answer>>
    PROVE  RInv'
<1> USE DEF Goto, IInv, TypeOK, RInv
<1>1. AnswerInv'
  BY DEF AnswerInv
<1>2. RowInv' /\ LinkOfBookingExists' /\ ReplyIsStored' /\ RefusedLeavesNothing'
  BY DEF RowInv, LinkOfBookingExists, ReplyIsStored, RefusedLeavesNothing
<1>3. CopyInv'
  BY DEF CopyInv, IsActive
<1>4. PendingInv'
  BY DEF PendingInv, LocalInv
<1>5. LinkInv'
  BY DEF LinkInv
<1> QED
  BY <1>1, <1>2, <1>3, <1>4, <1>5

(* GetBooking copies a row that is the caller's own; one that is cancelled *)
(* already needs no UPDATE.                                                *)
LEMMA GetBookingAnswers ==
    ASSUME ConstantsAssumption, IInv, RInv, NEW c \in Calls,
           pc[c] = "getBooking",
           NEW b \in GetByID(req[c].target),
           BelongsTo(b, req[c].actor),
           booking' = [booking EXCEPT ![c] = {Cancelled(b)}],
           Goto(c, IF IsActive(b) THEN "update" ELSE "commit"),
           UNCHANGED <<clock, bookings, links, req, now, write, answer>>
    PROVE  RInv'
<1> USE DEF Goto, IInv, TypeOK, RInv
<1>0. /\ req[c].op = "cancel" /\ write[c] = {} /\ answer[c] = "none"
      /\ b \in bookings /\ b.id = req[c].target /\ b.user = req[c].actor
  BY RequestKinds DEF ControlInv, WriteInv, AnswerInv, GetByID, BelongsTo
<1>1. /\ Cancelled(b).id = b.id /\ Cancelled(b).user = b.user
      /\ Cancelled(b).link = b.link
      /\ ~IsActive(b) => Cancelled(b) = b
  BY <1>0 DEF Cancelled, IsActive, Booking
<1>2. AnswerInv'
  BY DEF AnswerInv
<1>3. RowInv' /\ LinkOfBookingExists' /\ RefusedLeavesNothing'
  BY DEF RowInv, LinkOfBookingExists, RefusedLeavesNothing
<1>4. CopyInv'
  BY <1>0, <1>1 DEF CopyInv, IsActive
<1>5. PendingInv'
  BY <1>0, <1>1 DEF PendingInv
<1>6. LinkInv'
  BY <1>0, <1>1 DEF LinkInv, LinkOfBookingExists
<1>7. ReplyIsStored'
  BY <1>0 DEF ReplyIsStored
<1> QED
  BY <1>2, <1>3, <1>4, <1>5, <1>6, <1>7

(* Update writes the copy Cancel returns, for it cancels the row it finds. *)
LEMMA UpdateAnswers ==
    ASSUME ConstantsAssumption, IInv, RInv, NEW c \in Calls, Update(c)
    PROVE  RInv'
<1> USE DEF Goto, IInv, TypeOK, RInv
<1>0. PICK row \in bookings, b \in booking[c] :
        row.id = req[c].target /\ write' = [write EXCEPT ![c] = {Updated(row, b)}]
  BY DEF Update, GetByID
<1>1. pc[c] = "update" /\ pc' = [pc EXCEPT ![c] = "commit"]
      /\ UNCHANGED <<clock, bookings, links, req, now, booking, answer>>
  BY DEF Update
<1>2. Updated(row, b) = b /\ AsStored(b) = b
  <2>1. PICK r \in bookings : r.id = req[c].target /\ b = Cancelled(r)
    BY <1>0, <1>1 DEF LocalInv
  <2>2. r = row
    BY <1>0, <2>1 DEF KeyInv
  <2>3. row \in Booking /\ AsStored(row) = row
    BY DEF KeyInv
  <2> QED
    BY <2>1, <2>2, <2>3, UpdatedRow, StoredRow
<1>3. AnswerInv' /\ RowInv' /\ LinkOfBookingExists' /\ ReplyIsStored' /\ RefusedLeavesNothing'
  BY <1>1 DEF AnswerInv, RowInv, LinkOfBookingExists, ReplyIsStored, RefusedLeavesNothing
<1>4. CopyInv' /\ LinkInv'
  BY <1>1 DEF CopyInv, LinkInv, IsActive
<1>5. PendingInv'
  <2>1. booking[c] = {b}
    <3>1. \A x \in booking[c] : \E r \in bookings : r.id = req[c].target /\ x = Cancelled(r)
      BY <1>1 DEF LocalInv
    <3> QED
      BY <3>1 DEF KeyInv
  <2> QED
    BY <1>0, <1>1, <1>2, <2>1 DEF PendingInv
<1> QED
  BY <1>3, <1>4, <1>5

(* A commit puts the call's copy in the table, or finds it there. *)
LEMMA CommitAnswers ==
    ASSUME ConstantsAssumption, IInv, RInv,
           NEW c \in Calls, NEW a \in {"ok", "internal", "lost"},
           pc[c] = "commit", bookings' = Published(c), Return(c, a),
           UNCHANGED <<clock, links, req, now, booking>>
    PROVE  RInv'
<1> USE DEF Return, Goto, IInv, TypeOK, RInv
<1>0. PICK b \in booking[c] :
        /\ booking[c] = {b}
        /\ \/ write[c] = {AsStored(b)}
           \/ write[c] = {} /\ req[c].op = "cancel" /\ b \in bookings
  BY DEF PendingInv
<1> DEFINE new == AsStored(b)
<1>1. /\ \A x \in bookings' : x \in bookings \/ x = new
      /\ \A x \in bookings : x \in bookings' \/ Cancelled(x) \in bookings'
      /\ write[c] = {new} => new \in bookings'
  BY <1>0, PublishedRows
<1>2. b \in Booking /\ (req[c].op = "create" \/ req[c].op = "cancel")
  BY <1>0 DEF ConstantsAssumption, CreateRequests, CancelRequests
<1>copies. ASSUME NEW d \in Calls, req[d].op = "cancel", NEW y \in booking[d]
           PROVE  AsStored(y) = y /\ Cancelled(y) = y
  <2>1. PICK row \in bookings : y = Cancelled(row)
    BY <1>copies DEF CopyInv
  <2>2. row \in Booking /\ AsStored(row) = row
    BY DEF KeyInv
  <2> QED
    BY <2>1, <2>2, CancelledRow, StoredRow
<1>row. /\ new.id = b.id /\ new.user = b.user /\ new.slot = b.slot /\ new.link = b.link
        /\ req[c].op = "cancel" => new = b
  BY <1>2, <1>copies, StoredRow
<1> HIDE DEF new
<1>3. \/ new.id = c /\ new.user = req[c].actor /\ new.slot = req[c].slot
      \/ \E row \in bookings : new = Cancelled(row)
  BY <1>0, <1>2, <1>row DEF CopyInv
<1>4. \A x \in bookings : /\ x.id # c /\ x.id \in Calls
                           /\ Cancelled(x).id = x.id
                           /\ Cancelled(x).user = x.user /\ Cancelled(x).slot = x.slot
  BY DEF KeyInv, Booking, Cancelled
<1>5. ASSUME NEW row \in bookings
      PROVE  \E r \in bookings' : Cancelled(row) = Cancelled(r)
  BY <1>1, CancelledRow
<1>6. AnswerInv'
  BY DEF AnswerInv
<1>7. RowInv'
  BY <1>1, <1>3, <1>4 DEF RowInv
<1>8. CopyInv'
  <2>1. ASSUME NEW d \in Calls, NEW y \in booking[d], req[d].op = "cancel"
        PROVE  \E r \in bookings' : y = Cancelled(r)
    BY <1>5, <2>1 DEF CopyInv
  <2> QED
    BY <2>1 DEF CopyInv, IsActive
<1>9. PendingInv'
  <2>1. ASSUME NEW d \in Calls, d # c
        PROVE  pc'[d] = pc[d] /\ write'[d] = write[d] /\ booking'[d] = booking[d]
    BY <2>1
  <2>2. ASSUME NEW d \in Calls, d # c
        PROVE  /\ write'[d] \subseteq {AsStored(y) : y \in booking'[d]}
               /\ pc'[d] = "commit" =>
                     \E y \in booking'[d] :
                        /\ booking'[d] = {y}
                        /\ \/ write'[d] = {AsStored(y)}
                           \/ write'[d] = {} /\ req'[d].op = "cancel" /\ y \in bookings'
    <3>1. CASE pc[d] = "commit"
      <4>1. PICK y \in booking[d] :
              /\ booking[d] = {y}
              /\ \/ write[d] = {AsStored(y)}
                 \/ write[d] = {} /\ req[d].op = "cancel" /\ y \in bookings
        BY <3>1 DEF PendingInv
      <4>2. req[d].op = "cancel" /\ y \in bookings => y \in bookings'
        BY <1>1, <1>copies
      <4> QED
        BY <2>1, <2>2, <4>1, <4>2
    <3>2. CASE pc[d] # "commit"
      BY <2>1, <2>2, <3>2 DEF PendingInv
    <3> QED
      BY <3>1, <3>2
  <2>3. write'[c] = {} /\ pc'[c] = "answered"
    OBVIOUS
  <2> QED
    BY <2>2, <2>3 DEF PendingInv
<1>10. LinkInv'
  BY DEF LinkInv
<1>11. ReplyIsStored'
  <2>1. ASSUME NEW d \in Calls, NEW y \in booking[d], answer'[d] = "ok", req[d].op = "create"
        PROVE  AsStored(y) \in bookings' \/ Cancelled(AsStored(y)) \in bookings'
    <3>1. CASE d = c
      BY <1>0, <1>1, <2>1, <3>1 DEF new, ConstantsAssumption, CreateRequests, CancelRequests
    <3>2. CASE d # c
      <4>1. AsStored(y) \in bookings \/ Cancelled(AsStored(y)) \in bookings
        BY <2>1, <3>2 DEF ReplyIsStored
      <4>2. AsStored(y) \in Booking
        BY <2>1, StoredRow
      <4> QED
        BY <1>1, <4>1, <4>2, CancelledRow
    <3> QED
      BY <3>1, <3>2
  <2>2. ASSUME NEW d \in Calls, NEW y \in booking[d], answer'[d] = "ok", req[d].op = "cancel"
        PROVE  y \in bookings'
    <3>1. CASE d = c
      BY <1>0, <1>1, <1>row, <1>copies, <2>2, <3>1 DEF new
    <3>2. CASE d # c
      <4>1. y \in bookings
        BY <2>2, <3>2 DEF ReplyIsStored
      <4> QED
        BY <1>1, <1>copies, <2>2, <4>1
    <3> QED
      BY <3>1, <3>2
  <2>3. ASSUME NEW d \in Calls
        PROVE  req[d].op = "create" \/ req[d].op = "cancel"
    BY DEF ConstantsAssumption, CreateRequests, CancelRequests
  <2> QED
    BY <2>1, <2>2, <2>3 DEF ReplyIsStored
<1>12. RefusedLeavesNothing'
  BY <1>1, <1>3, <1>4 DEF RefusedLeavesNothing
<1>13. LinkOfBookingExists'
  BY <1>0, <1>1, <1>row DEF LinkOfBookingExists, LinkInv
<1> QED
  BY <1>6, <1>7, <1>8, <1>9, <1>10, <1>11, <1>12, <1>13

(* A crash answers every call in flight with nothing. *)
LEMMA CrashAnswers ==
    ASSUME ConstantsAssumption, IInv, RInv, Crash
    PROVE  RInv'
<1> USE DEF Crash, InFlight, IInv, TypeOK, RInv
<1>1. AnswerInv'
  BY DEF AnswerInv
<1>2. RowInv' /\ LinkOfBookingExists'
  BY DEF RowInv, LinkOfBookingExists
<1>3. CopyInv' /\ PendingInv' /\ LinkInv'
  BY DEF CopyInv, PendingInv, LinkInv, IsActive
<1>4. ReplyIsStored' /\ RefusedLeavesNothing'
  BY DEF ReplyIsStored, RefusedLeavesNothing, Booking
<1> QED
  BY <1>1, <1>2, <1>3, <1>4

LEMMA InitAnswers ==
    ASSUME Init
    PROVE  RInv
  BY DEF Init, RInv, AnswerInv, RowInv, CopyInv, PendingInv, LinkInv, ReplyIsStored,
         RefusedLeavesNothing, LinkOfBookingExists

LEMMA HandleAnswers ==
    ASSUME ConstantsAssumption, IInv, RInv, NEW c \in Calls, Handle(c)
    PROVE  RInv'
<1> USE AbortAnswers, MoveAnswers
<1>1. CASE CreateStart(c) \/ CancelStart(c)
  <2>1. RequireRole(req[c].actor, "user") \in {"ErrUnauthorized", "ErrForbidden", "ok"}
    BY DEF RequireRole
  <2> QED
    BY <1>1, <2>1 DEF CreateStart, CancelStart, Answers
<1>2. CASE GetSlot(c)
  BY <1>2 DEF GetSlot, Answers
<1>3. CASE CheckBusy(c)
  BY <1>3 DEF CheckBusy, Answers
<1>4. CASE Build(c)
  BY <1>4, BuildAnswers
<1>5. CASE Insert(c)
  BY <1>5, InsertAnswers DEF Insert, Answers
<1>6. CASE GetBooking(c)
  <2>1. CASE Abort(c, "ErrBookingNotFound") \/ Abort(c, "ErrForbidden")
    BY <1>6, <2>1 DEF GetBooking, Answers
  <2>2. CASE ~(Abort(c, "ErrBookingNotFound") \/ Abort(c, "ErrForbidden"))
    BY <1>6, <2>2, GetBookingAnswers DEF GetBooking
  <2> QED
    BY <2>1, <2>2
<1>7. CASE Update(c)
  BY <1>7, UpdateAnswers
<1>8. CASE Commit(c)
  BY <1>8, CommitAnswers DEF Commit
<1> QED
  BY <1>1, <1>2, <1>3, <1>4, <1>5, <1>6, <1>7, <1>8 DEF Handle

LEMMA NextAnswers ==
    ASSUME ConstantsAssumption, IInv, RInv, [Next]_vars
    PROVE  RInv'
<1>1. ASSUME NEW c \in Calls, Handle(c)
      PROVE  RInv'
  BY <1>1, HandleAnswers
<1>2. ASSUME NEW c \in Calls, CommitUnacknowledged(c)
      PROVE  RInv'
  <2>1. PICK a \in {"internal", "lost"} : Return(c, a)
    BY <1>2 DEF CommitUnacknowledged
  <2> QED
    BY <1>2, <2>1, CommitAnswers DEF CommitUnacknowledged
<1>3. ASSUME NEW c \in Calls, Fail(c)
      PROVE  RInv'
  BY <1>3, AbortAnswers DEF Fail, InFlight, Answers
<1>4. CASE Crash
  BY <1>4, CrashAnswers
<1>5. CASE Tick \/ UNCHANGED vars
  BY <1>5 DEF Tick, vars, RInv, AnswerInv, RowInv, CopyInv, PendingInv, LinkInv, IsActive,
              ReplyIsStored, RefusedLeavesNothing, LinkOfBookingExists
<1> QED
  BY <1>1, <1>2, <1>3, <1>4, <1>5 DEF Next

(* What the calls were told, the copies they hold and the table agree in   *)
(* every state the booking service can reach.                              *)
THEOREM AnswersInvariance == Spec => []RInv
<1>1. Init => RInv
  BY InitAnswers
<1>2. IInv /\ RInv /\ [Next]_vars => RInv'
  BY NextAnswers, ConstantsAssumption
<1> QED
  BY <1>1, <1>2, Invariance, PTL DEF Spec

(* The inductive invariant as a whole, which the runs check. *)
THEOREM WholeInvariance == Spec => []BookingsInv
  BY Invariance, AnswersInvariance, PTL DEF BookingsInv

(* A client that was told ok finds in the table what it was told, for good, *)
(* up to a later cancellation.                                             *)
THEOREM RepliesAreStored == Spec => []ReplyIsStored
<1>1. RInv => ReplyIsStored
  BY DEF RInv
<1> QED
  BY <1>1, AnswersInvariance, PTL

(* No call that was refused, or has not been answered, has left a row.     *)
THEOREM NoTraceOfRefused == Spec => []RefusedLeavesNothing
<1>1. RInv => RefusedLeavesNothing
  BY DEF RInv
<1> QED
  BY <1>1, AnswersInvariance, PTL

(* A stored booking shows a link exactly if the conference exists.         *)
THEOREM LinksExist == Spec => []LinkOfBookingExists
<1>1. RInv => LinkOfBookingExists
  BY DEF RInv
<1> QED
  BY <1>1, AnswersInvariance, PTL

(* The row a commit replaces is the target of a Cancel call of its user.   *)
LEMMA OwnerStep ==
    ASSUME ConstantsAssumption, IInv, RInv, [Next]_vars,
           NEW b \in bookings, b \notin bookings'
    PROVE  \E c \in Calls : /\ pc[c] = "commit" /\ pc'[c] = "answered"
                            /\ req[c].op = "cancel" /\ req[c].target = b.id
                            /\ req[c].actor = b.user
                            /\ req[b.id].actor = b.user
<1>1. PICK c \in Calls : Commit(c) \/ CommitUnacknowledged(c)
  BY DEF Next, Handle, CreateStart, GetSlot, CheckBusy, Build, Insert, CancelStart,
         GetBooking, Update, Fail, Crash, Tick, Abort, vars
<1>2. /\ pc[c] = "commit" /\ pc'[c] = "answered"
      /\ bookings' = Published(c)
  BY <1>1 DEF Commit, CommitUnacknowledged, Return, Goto, IInv, TypeOK
<1>3. PICK w \in write[c] : w.id = b.id
  BY <1>2 DEF Published
<1>4. PICK y \in booking[c] : w = AsStored(y)
  BY <1>3 DEF RInv, PendingInv
<1>5. req[c].op = "cancel"
  <2>1. y.id # c
    BY <1>2, <1>3, <1>4, StoredRow DEF IInv, KeyInv, TypeOK
  <2> QED
    BY <1>4, <2>1 DEF RInv, CopyInv, ConstantsAssumption, IInv, TypeOK,
                      CreateRequests, CancelRequests
<1>6. PICK row \in bookings : w = Cancelled(row)
  <2>1. PICK row \in bookings : y = Cancelled(row)
    BY <1>5 DEF RInv, CopyInv
  <2>2. row \in Booking /\ AsStored(row) = row
    BY DEF IInv, TypeOK, KeyInv
  <2> QED
    BY <1>4, <2>1, <2>2, StoredRow
<1>7. row = b
  BY <1>3, <1>6, CancelledRow DEF IInv, TypeOK, KeyInv
<1>8. w.id = req[c].target /\ w.user = req[c].actor /\ w.user = b.user
  <2>1. y \in Booking /\ y.id = req[c].target /\ y.user = req[c].actor
    BY <1>5 DEF RInv, CopyInv, IInv, TypeOK
  <2>2. w.id = y.id /\ w.user = y.user
    BY <1>4, <2>1, StoredRow
  <2>3. w.user = b.user
    BY <1>6, <1>7 DEF Cancelled, IInv, TypeOK, Booking
  <2> QED
    BY <2>1, <2>2, <2>3
<1>9. req[b.id].actor = b.user
  BY DEF RInv, RowInv
<1> QED
  BY <1>2, <1>3, <1>5, <1>8, <1>9

(* Nobody but the user who made a booking cancels it.                      *)
THEOREM OwnersCancel == Spec => OnlyOwnerCancels
<1>1. IInv /\ RInv /\ [Next]_vars =>
        [\A b \in bookings : b \notin bookings' =>
            \E c \in Calls : /\ pc[c] = "commit" /\ pc'[c] = "answered"
                             /\ req[c].op = "cancel" /\ req[c].target = b.id
                             /\ req[c].actor = b.user
                             /\ req[b.id].actor = b.user]_vars
  BY OwnerStep, ConstantsAssumption
<1> QED
  BY <1>1, Invariance, AnswersInvariance, PTL DEF Spec, OnlyOwnerCancels
=============================================================================
