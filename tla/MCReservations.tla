------------------------ MODULE MCReservations ------------------------
(* Instances of Reservations for TLC. *)
EXTENDS Reservations, MCAvailability

BookerSymmetry == Permutations(Calls) \cup Permutations(Bookers)
=============================================================================
