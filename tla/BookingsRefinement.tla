----------------------- MODULE BookingsRefinement -----------------------
(***************************************************************************)
(* The handlers of Bookings, run statement by statement, implement the     *)
(* one-step calls of SlotBook.                                             *)
(***************************************************************************)
EXTENDS Bookings

CONSTANT Free

ASSUME FreeAssumption == Free \notin Calls

(* The booking whose committed row holds the slot. *)
HolderOf(s) ==
    IF HasActiveBySlotID(s)
        THEN (CHOOSE b \in bookings : b.slot = s /\ IsActive(b)).id
        ELSE Free

Told(a) ==
    CASE a = "none" -> "open"
      [] a = "ok" -> "done"
      [] a = "ErrSlotBooked" -> "conflict"
      [] a \in {"internal", "lost"} -> "unknown"
      [] OTHER -> "refused"

holderBar == [s \in Slots |-> HolderOf(s)]
releasedBar == {b.id : b \in {x \in bookings : ~IsActive(x)}}
outcomeBar == [c \in Calls |-> Told(answer[c])]

Promise == INSTANCE SlotBook
    WITH holder <- holderBar, released <- releasedBar, outcome <- outcomeBar

(* Every call of the booking service takes effect in one step or not at    *)
(* all: a Create takes a slot that is free at that step, a conflict is     *)
(* told while the slot is held, a Cancel frees the slot of the caller's    *)
(* own booking and, repeated, leaves the slot's next holder alone.         *)
CallsTakeEffectAtOnce == Promise!BookSpec
=============================================================================
