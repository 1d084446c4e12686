---------------------- MODULE MCBookingsRefinement ----------------------
(* The instances of MCBookings, for the refinement of SlotBook. *)
EXTENDS BookingsRefinement, MCBookings
=============================================================================
