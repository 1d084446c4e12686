--------------------------- MODULE MCBookings ---------------------------
(* Instances of Bookings for TLC. *)
EXTENDS Bookings, TLC

CONSTANTS ann, bob, admin, anon, s1, s2

MCRoleOf == (ann :> "user") @@ (bob :> "user") @@ (admin :> "admin") @@ (anon :> "none")

\* Both begin at instants that a stored time can hold.
MCStartAt == (s1 :> 2) @@ (s2 :> 4)

\* One slot, two users, with and without a link; one of them cancels, also what is not theirs.
ContentionRequests ==
    [op : {"create"}, actor : {ann}, slot : {s1}, link : {TRUE}]
        \cup [op : {"create"}, actor : {bob}, slot : {s1}, link : {FALSE}]
        \cup [op : {"cancel"}, actor : {ann}, target : Calls]

CallSymmetry == Permutations(Calls)
=============================================================================
