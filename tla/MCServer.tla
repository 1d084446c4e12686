---------------------------- MODULE MCServer ----------------------------
(* Instances of Server for TLC. *)
EXTENDS Server

Faults(r) ==
    {f \in {"params", "body"} : r[f] # "fine"}
        \cup (IF r.token \in {"none", "invalid"} /\ r.endpoint \notin Public
              THEN {"token"} ELSE {})

\* Every endpoint, role and fault, but no two faults in one request and no
\* tokens where nobody looks at them.
EveryRequest ==
    {r \in AllRequests :
        Cardinality(Faults(r)) <= 1 /\ (r.endpoint \in Public => r.token = "none")}
=============================================================================
