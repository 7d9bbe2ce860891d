------------------------------ MODULE MCBilling ------------------------------
(***************************************************************************)
(* Small instances of Billing: two checkouts for one job and one for       *)
(* another, across the end of a fiscal year.                               *)
(***************************************************************************)
EXTENDS Billing, TLC

CONSTANTS
    p1, p2, p3,     \* three checkouts
    j1, j2          \* two jobs

\* The first two are for the same job
JobsPaidFor == [p \in Payments |-> IF p = p3 THEN j2 ELSE j1]

\* The listed prices: 9999.00 rupees in the state of the seller and in another,
\* 199.00 dollars abroad
ListedPrices ==
    [p \in Payments |->
       IF p = p1 THEN [amount |-> 999900, currency |-> "INR", state |-> "36"]
       ELSE IF p = p2 THEN [amount |-> 999900, currency |-> "INR", state |-> "27"]
       ELSE [amount |-> 19900, currency |-> "USD", state |-> "none"]]
=============================================================================
