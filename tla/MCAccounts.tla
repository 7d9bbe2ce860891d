------------------------------ MODULE MCAccounts ------------------------------
(***************************************************************************)
(* Small instances of Accounts: two registrations of one address in two    *)
(* spellings, and a third one.                                             *)
(***************************************************************************)
EXTENDS Accounts, TLC

CONSTANTS
    r1, r2,             \* two requests
    Ann, ann, bob       \* two spellings of one address, and another address

LowerCase == (Ann :> ann) @@ (ann :> ann) @@ (bob :> bob)

\* ann is made an admin, or not
Lists == {{}, {ann}}

\* The requests only differ in what they ask
SameRequests == Permutations(Requests)
=============================================================================
