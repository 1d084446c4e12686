-------------------------- MODULE Reservations --------------------------
(***************************************************************************)
(* Rooms as their users see them: bookers pick a slot out of an answer to  *)
(* a listing, which may be old by now, and book it by its id, while admins *)
(* give rooms their schedules and other listings generate days.  A booking *)
(* or a cancellation is one step here: the refinement of SlotBook by       *)
(* Bookings shows that its calls behave so.                                *)
(***************************************************************************)
EXTENDS Availability

CONSTANT Bookers    \* clients that book one slot each

VARIABLES
    bpc,    \* where each booker's call is
    want,   \* the slot whose id it sends, {} for an id nobody was shown
    held,   \* the slot of its active booking
    told    \* what it was answered with

bookerVars == <<bpc, want, held, told>>
allVars == <<vars, bookerVars>>

ReservationsInit ==
    /\ Init
    /\ bpc = [b \in Bookers |-> "browsing"]
    /\ want = [b \in Bookers |-> {}]
    /\ held = [b \in Bookers |-> {}]
    /\ told = [b \in Bookers |-> "none"]

----------------------------------------------------------------------------
Shown == UNION {reply[c] : c \in {d \in Calls : answer[d] = "ok"}}

BookerAnswered(b, a) ==
    /\ bpc' = [bpc EXCEPT ![b] = "answered"]
    /\ told' = [told EXCEPT ![b] = a]

Choose(b) ==
    /\ bpc[b] = "browsing"
    /\ \E w \in {{}} \cup {{s} : s \in Shown} : want' = [want EXCEPT ![b] = w]
    /\ bpc' = [bpc EXCEPT ![b] = "getSlot"]
    /\ UNCHANGED <<vars, held, told>>

GetSlot(b) ==
    /\ bpc[b] = "getSlot"
    /\ \/ /\ want[b] \cap slots = {}
          /\ BookerAnswered(b, "ErrSlotNotFound")
       \/ /\ want[b] \cap slots # {}
          /\ bpc' = [bpc EXCEPT ![b] = "take"]
          /\ UNCHANGED told
    /\ UNCHANGED <<vars, want, held>>

Refuse(b) ==
    /\ bpc[b] = "take"
    /\ \/ want[b] \subseteq taken /\ BookerAnswered(b, "ErrSlotBooked")
       \/ (\E s \in want[b] : s.date <= today) /\ BookerAnswered(b, "ErrPastSlotBooking")
    /\ UNCHANGED <<vars, want, held>>

TouchBookings(t) ==
    /\ taken' = t
    /\ UNCHANGED <<today, schedules, slots, req, pc, locals>>

(* now was read when the call arrived, at the latest today: a slot of a    *)
(* day that has passed may still be booked by a call that came in time.    *)
Take(b) ==
    /\ bpc[b] = "take"
    /\ want[b] \cap taken = {}
    /\ TouchBookings(taken \cup want[b])
    /\ held' = [held EXCEPT ![b] = want[b]]
    /\ \E a \in {"ok", "internal", "lost"} : BookerAnswered(b, a)
    /\ UNCHANGED want

(* The booker may cancel even if it was never told of its booking.         *)
Release(b) ==
    /\ bpc[b] = "answered" /\ held[b] # {}
    /\ TouchBookings(taken \ held[b])
    /\ held' = [held EXCEPT ![b] = {}]
    /\ UNCHANGED <<bpc, want, told>>

BookerInFlight(b) == bpc[b] \in {"getSlot", "take"}

BookerFails(b) ==
    /\ BookerInFlight(b)
    /\ BookerAnswered(b, "internal")
    /\ UNCHANGED <<vars, want, held>>

(* The server stops: all the calls in flight are cut off together.         *)
ServerStops ==
    /\ \/ Crash
       \/ /\ ~(\E c \in Calls : InFlight(c)) /\ (\E b \in Bookers : BookerInFlight(b))
          /\ UNCHANGED vars
    /\ bpc' = [b \in Bookers |-> IF BookerInFlight(b) THEN "answered" ELSE bpc[b]]
    /\ told' = [b \in Bookers |-> IF BookerInFlight(b) THEN "lost" ELSE told[b]]
    /\ UNCHANGED <<want, held>>

----------------------------------------------------------------------------
ReservationsNext ==
    \/ /\ \/ \E c \in Calls : Handle(c) \/ CommitUnacknowledged(c) \/ Fail(c)
          \/ Midnight
       /\ UNCHANGED bookerVars
    \/ \E b \in Bookers :
         Choose(b) \/ GetSlot(b) \/ Refuse(b) \/ Take(b) \/ Release(b) \/ BookerFails(b)
    \/ ServerStops

ReservationsSpec == ReservationsInit /\ [][ReservationsNext]_allVars

----------------------------------------------------------------------------
(* A room is never promised to two people for the same half-hour, though   *)
(* the only index on bookings is by slot id: a day that two listings or a  *)
(* schedule creation generate at once must not show two ids for one time.  *)
RoomNeverDoubleBooked ==
    \A a, b \in Bookers : \A s \in held[a], t \in held[b] : SameStart(s, t) => a = b

(* Whoever books a slot out of any answer, however old, finds it: no       *)
(* answer shows an id that is not stored, and none is ever replaced by     *)
(* one generated again.                                                    *)
ShownSlotIsFound == \A b \in Bookers : told[b] = "ErrSlotNotFound" => want[b] = {}

----------------------------------------------------------------------------
(* Why both hold: bookers want what is stored and hold what is taken.      *)
BookersInv ==
    /\ bpc \in [Bookers -> {"browsing", "getSlot", "take", "answered"}]
    /\ want \in [Bookers -> SUBSET slots]
    /\ held \in [Bookers -> SUBSET taken]
    /\ told \in [Bookers -> {"none", "ok", "ErrSlotNotFound", "ErrSlotBooked",
                            "ErrPastSlotBooking", "internal", "lost"}]
    /\ \A a, b \in Bookers : held[a] \cap held[b] # {} => a = b
    /\ \A b \in Bookers : bpc[b] # "answered" => told[b] = "none"
    /\ ShownSlotIsFound

ReservationsInv == IInv /\ BookersInv
=============================================================================
