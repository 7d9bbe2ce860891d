----------------------------- MODULE MCAuditJobs -----------------------------
(***************************************************************************)
(* Small instances of AuditJobs: two uploads, by one or two customers.     *)
(***************************************************************************)
EXTENDS AuditJobs, TLC

CONSTANTS
    j1, j2,             \* two uploads
    alice, bob, root    \* two customers and an admin

\* A customer and the admin upload once each, and ask for each other's report
OwnAlice == (j1 :> alice) @@ (j2 :> root)

\* One customer uploads everything
OneCustomer == [j \in Jobs |-> alice]
=============================================================================
