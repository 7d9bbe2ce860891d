---------------------------- MODULE InvoiceSeries ----------------------------
(***************************************************************************)
(* What the billing service promises about invoice numbers, without        *)
(* webhooks, transactions or files: each payment is invoiced at most once, *)
(* for good, with the next number of some fiscal year.  Billing implements *)
(* it.                                                                     *)
(***************************************************************************)
EXTENDS Naturals

CONSTANTS
    Payments,   \* the payments that may be invoiced
    Years,      \* the fiscal years
    Numbers,    \* the invoice numbers, from 1 on
    None        \* no invoice yet

VARIABLE issued \* [Payments -> Invoice or None]

InYear(y) == {p \in Payments : issued[p] # None /\ issued[p].year = y}
Used(y) == {issued[p].number : p \in InYear(y)}

Init == issued = [p \in Payments |-> None]

\* The numbers of the year before n are used, and no other
Issue(p, y, n) ==
    /\ issued[p] = None
    /\ Used(y) = 1..(n - 1)
    /\ issued' = [issued EXCEPT ![p] = [year |-> y, number |-> n]]

Next == \E p \in Payments, y \in Years, n \in Numbers : Issue(p, y, n)

Spec == Init /\ [][Next]_issued
=============================================================================
