----------------------------- MODULE MCSeed -----------------------------
(* Instances of Seed for TLC. *)
EXTENDS Seed, TLC

MCRoomNames == {"Atlas", "atlas", "Orion"}
MCFold == ("Atlas" :> "atlas") @@ ("atlas" :> "atlas") @@ ("Orion" :> "Orion")

\* One room of the seed's name in another case, and every refusal.
MCAdminRequests ==
    {[role |-> "admin", name |-> "atlas", capacity |-> 4],
     [role |-> "user", name |-> "atlas", capacity |-> 4],
     [role |-> "admin", name |-> "", capacity |-> 4],
     [role |-> "admin", name |-> "atlas", capacity |-> 0]}

SeedSymmetry == Permutations(Seeds)
=============================================================================
