----------------------------------- MODULE Gst -----------------------------------
(***************************************************************************)
(* The GST arithmetic of the invoices: compute_gst in billing.py of        *)
(* src/webapp/backend/app/.  Amounts are in paise or cents; the program    *)
(* calculates with decimal fractions and rounds at the end, in money.      *)
(***************************************************************************)
EXTENDS Integers

\* money: the nearest multiple of 0.01 of n / d, ROUND_HALF_UP
HalfUp(n, d) == (2 * n + d) \div (2 * d)

Parts(supply_type, taxable, cgst, sgst, igst) ==
    [supply_type |-> supply_type, taxable |-> taxable, cgst |-> cgst, sgst |-> sgst, igst |-> igst]

\* Mutant: the tax comes on top of the price
TaxOnTop(amount, rate, parts) == HalfUp(amount * rate, 100 * parts)

\* The tax a price contains, in one part or in two; each part is rounded
Tax(amount, rate, parts) == HalfUp(amount * rate, (100 + rate) * parts)

Taxable(amount, rate) == HalfUp(amount * 100, 100 + rate)

\* A buyer without a state code, "none", counts as one of another state
ComputeGst(amount, currency, buyer, seller, rate) ==
    IF currency # "INR" THEN Parts("export", amount, 0, 0, 0)
    ELSE IF buyer # "none" /\ buyer = seller
         THEN Parts("intra_state", Taxable(amount, rate), Tax(amount, rate, 2), Tax(amount, rate, 2), 0)
         ELSE Parts("inter_state", Taxable(amount, rate), 0, 0, Tax(amount, rate, 1))

Sum(gst) == gst.taxable + gst.cgst + gst.sgst + gst.igst
=============================================================================
