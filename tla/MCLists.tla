---------------------------- MODULE MCLists ----------------------------
(* Instances of Lists for TLC. *)
EXTENDS Lists, MCBookings

CONSTANTS c1, c2

MCIdOrder == (c1 :> 1) @@ (c2 :> 2)

\* Both users book and cancel, and every refusal happens.
WriteRequests ==
    [op : {"create"}, actor : {ann}, slot : {s1, s2}, link : {FALSE}]
        \cup [op : {"create"}, actor : {bob}, slot : {s1}, link : {TRUE}]
        \cup [op : {"create"}, actor : {ann}, slot : {NoSlot}, link : {FALSE}]
        \cup [op : {"create"}, actor : {admin, anon}, slot : {s1}, link : {FALSE}]
        \cup [op : {"cancel"}, actor : {ann, bob, admin}, target : Calls]

\* Pages of one booking, a user's own, and offsets 8 and 16, which wrap.
ReadRequests ==
    [op : {"mine"}, actor : {ann, admin}]
        \cup [op : {"list"}, actor : {admin}, page : {0, 1}, pageSize : {1}]
        \cup [op : {"list"}, actor : {admin}, page : {5}, pageSize : {2, 4}]
        \cup {[op |-> "list", actor |-> admin, page |-> 1, pageSize |-> 0],
              [op |-> "list", actor |-> bob, page |-> 1, pageSize |-> 1]}
=============================================================================
