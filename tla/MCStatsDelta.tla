---------------------------- MODULE MCStatsDelta ----------------------------
(***************************************************************************)
(* A small instance of StatsDelta: the rows of two users for one statement *)
(* and a row of another.                                                   *)
(***************************************************************************)
EXTENDS StatsDelta, TLC

CONSTANTS
    u1, u2, v,      \* two rows of one statement, the row of another
    one, other      \* their digests

MCDigestOf == [r \in Rows |-> IF r = v THEN other ELSE one]

\* The two users are alike
Users == Permutations({u1, u2})
=============================================================================
