---------------------------- MODULE SlotBook ----------------------------
(***************************************************************************)
(* What the booking service promises its clients, with no database in      *)
(* sight: every slot is held by at most one booking, and every call takes  *)
(* effect in one step between its arrival and its answer, or not at all.   *)
(* Module Bookings, which runs the handlers statement by statement, is     *)
(* shown to implement it.                                                  *)
(***************************************************************************)
CONSTANTS
    Calls,      \* the calls clients make; a Create call names the booking it makes
    Slots,      \* the slots that exist
    Free        \* the holder of a slot nobody holds

VARIABLES
    req,        \* what each call asks for
    holder,     \* the booking that holds each slot
    released,   \* the bookings that were cancelled
    outcome     \* what each call's client was told

abstractVars == <<req, holder, released, outcome>>

Open(c) == outcome[c] = "open"

Tell(c, told) == outcome' = [outcome EXCEPT ![c] = told]

BookInit ==
    /\ holder = [s \in Slots |-> Free]
    /\ released = {}
    /\ outcome = [c \in Calls |-> "open"]

(* A Create call takes a free slot; its client may not learn of it. *)
Book(c) ==
    /\ Open(c)
    /\ req[c].op = "create"
    /\ req[c].slot \in Slots
    /\ holder[req[c].slot] = Free
    /\ holder' = [holder EXCEPT ![req[c].slot] = c]
    /\ \E told \in {"done", "unknown"} : Tell(c, told)
    /\ UNCHANGED <<req, released>>

(* A Create call is told of a conflict at a moment when there is one. *)
Conflict(c) ==
    /\ Open(c)
    /\ req[c].op = "create"
    /\ req[c].slot \in Slots
    /\ holder[req[c].slot] # Free
    /\ Tell(c, "conflict")
    /\ UNCHANGED <<req, holder, released>>

(* A Cancel call of the booking's own user frees the slot it held. *)
Release(c) ==
    LET b == req[c].target IN
    /\ Open(c)
    /\ req[c].op = "cancel"
    /\ req[b].actor = req[c].actor
    /\ \E s \in Slots :
         /\ holder[s] = b
         /\ holder' = [holder EXCEPT ![s] = Free]
    /\ released' = released \cup {b}
    /\ \E told \in {"done", "unknown"} : Tell(c, told)
    /\ UNCHANGED req

(* Cancelling again succeeds and disturbs no later holder of the slot. *)
ReleaseAgain(c) ==
    /\ Open(c)
    /\ req[c].op = "cancel"
    /\ req[c].target \in released
    /\ req[req[c].target].actor = req[c].actor
    /\ Tell(c, "done")
    /\ UNCHANGED <<req, holder, released>>

(* A call turned down for what it asks leaves no trace. *)
TurnDown(c) ==
    /\ Open(c)
    /\ Tell(c, "refused")
    /\ UNCHANGED <<req, holder, released>>

(* Calls that fail without effect, several of them when the server stops. *)
Break(failed) ==
    /\ failed # {} /\ \A c \in failed : Open(c)
    /\ outcome' = [c \in Calls |-> IF c \in failed THEN "unknown" ELSE outcome[c]]
    /\ UNCHANGED <<req, holder, released>>

BookNext ==
    \/ \E c \in Calls : \/ Book(c) \/ Conflict(c) \/ Release(c)
                        \/ ReleaseAgain(c) \/ TurnDown(c)
    \/ \E failed \in SUBSET Calls : Break(failed)

BookSpec == BookInit /\ [][BookNext]_abstractVars
=============================================================================
