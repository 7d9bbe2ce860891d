---------------------------- MODULE BillingProofs ----------------------------
(***************************************************************************)
(* Proofs about Billing for every finite set of payments, every set of     *)
(* jobs, every number of fiscal years, with and without the PDF and with   *)
(* every kind of fault; and about Gst for any amount and rate: the parts   *)
(* of an invoice make up its total but for a paisa, and that paisa is      *)
(* missing or too much on invoices of the listed price.                    *)
(***************************************************************************)
EXTENDS Billing, FiniteSetTheorems, TLAPS

-----------------------------------------------------------------------------
(* The parts of an invoice                                                 *)

\* Rounding moves a quotient by half a unit at most
LEMMA HalfUpBounds ==
    ASSUME NEW n \in Nat, NEW d \in Nat \ {0}
    PROVE  /\ HalfUp(n, d) \in Nat
           /\ 2 * d * HalfUp(n, d) <= 2 * n + d
           /\ 2 * n + d < 2 * d * HalfUp(n, d) + 2 * d
<1> DEFINE a == 2 * n + d
           b == 2 * d
<1>1. a \in Nat /\ b \in Nat \ {0}
  OBVIOUS
<1>2. a \div b \in Nat /\ a % b \in 0..(b - 1) /\ a = b * (a \div b) + (a % b)
  <2> HIDE DEF a, b
  <2> QED
    BY <1>1
<1> QED
  BY <1>2 DEF HalfUp

\* The parts of an amount add up to it, in one state or between two
LEMMA SumOfParts ==
    ASSUME NEW supply_type, NEW a \in Int, NEW b \in Int, NEW c \in Int, NEW d \in Int
    PROVE  Sum(Parts(supply_type, a, b, c, d)) = a + b + c + d
BY DEF Sum, Parts

\* The two halves of the tax and the taxable value, or the whole tax and the
\* taxable value, differ from the total by a paisa at most
THEOREM WithinAPaisa ==
    ASSUME NEW amount \in Nat, NEW rate \in Nat, NEW currency, NEW buyer, NEW seller
    PROVE  LET gst == ComputeGst(amount, currency, buyer, seller, rate)
           IN  Sum(gst) \in Nat /\ Sum(gst) - amount \in {-1, 0, 1}
<1> DEFINE r == 100 + rate
           t == Taxable(amount, rate)
           h == Tax(amount, rate, 2)
           i == Tax(amount, rate, 1)
<1>1. r \in Nat \ {0} /\ amount * 100 \in Nat /\ amount * rate \in Nat
      /\ amount * 100 + amount * rate = amount * r
  OBVIOUS
<1>2. t \in Nat /\ 2 * r * t <= 2 * (amount * 100) + r
      /\ 2 * (amount * 100) + r < 2 * r * t + 2 * r
  BY <1>1, HalfUpBounds DEF Taxable
<1>3. h \in Nat /\ 2 * (r * 2) * h <= 2 * (amount * rate) + r * 2
      /\ 2 * (amount * rate) + r * 2 < 2 * (r * 2) * h + 2 * (r * 2)
  BY <1>1, HalfUpBounds, r * 2 \in Nat \ {0} DEF Tax
<1>4. i \in Nat /\ 2 * (r * 1) * i <= 2 * (amount * rate) + r * 1
      /\ 2 * (amount * rate) + r * 1 < 2 * (r * 1) * i + 2 * (r * 1)
  BY <1>1, HalfUpBounds, r * 1 \in Nat \ {0} DEF Tax
<1> HIDE DEF t, h, i, r
\* Inter-state: two roundings
<1>5. t + i - amount \in {-1, 0, 1}
  <2> DEFINE e == t + i - amount
  <2>1. e \in Int /\ r * e = r * t + r * i - amount * r
    BY <1>1, <1>2, <1>4
  <2>2. 2 * (r * e) <= 2 * r /\ -2 * r < 2 * (r * e) + 1
    BY <1>1, <1>2, <1>4, <2>1
  <2> HIDE DEF e
  <2>3. r * e <= r * 1 /\ r * (-1) <= r * e
    BY <1>1, <2>1, <2>2
  <2>4. e <= 1 /\ -1 <= e
    BY <1>1, <2>1, <2>3
  <2> QED
    BY <2>1, <2>4 DEF e
\* Intra-state: three roundings
<1>6. t + h + h - amount \in {-1, 0, 1}
  <2> DEFINE e == t + h + h - amount
  <2>1. e \in Int /\ r * e = r * t + 2 * (r * h) - amount * r
    BY <1>1, <1>2, <1>3
  <2>2. 2 * (r * e) <= 3 * r /\ -3 * r <= 2 * (r * e)
    BY <1>1, <1>2, <1>3, <2>1
  <2> HIDE DEF e
  <2>3. 2 * e <= 3 /\ -3 <= 2 * e
    BY <1>1, <2>1, <2>2
  <2> QED
    BY <2>1, <2>3 DEF e
<1>7. ComputeGst(amount, currency, buyer, seller, rate) \in
        {Parts("export", amount, 0, 0, 0), Parts("intra_state", t, h, h, 0),
         Parts("inter_state", t, 0, 0, i)}
  BY DEF ComputeGst, t, h, i
<1>8. /\ Sum(Parts("export", amount, 0, 0, 0)) = amount
      /\ Sum(Parts("intra_state", t, h, h, 0)) = t + h + h
      /\ Sum(Parts("inter_state", t, 0, 0, i)) = t + i
  <2>1. t \in Int /\ h \in Int /\ i \in Int
    BY <1>2, <1>3, <1>4
  <2> QED
    BY <2>1, SumOfParts
<1> QED
  BY <1>2, <1>3, <1>4, <1>5, <1>6, <1>7, <1>8

\* At 18 % the whole tax and the taxable value make up the total exactly
THEOREM InterStateIsExact ==
    ASSUME NEW amount \in Nat, NEW buyer, NEW seller, buyer = "none" \/ buyer # seller
    PROVE  Sum(ComputeGst(amount, "INR", buyer, seller, 18)) = amount
<1> DEFINE t == Taxable(amount, 18)
           i == Tax(amount, 18, 1)
<1>1. 100 + 18 \in Nat \ {0} /\ (100 + 18) * 1 \in Nat \ {0}
      /\ amount * 100 \in Nat /\ amount * 18 \in Nat
  OBVIOUS
<1>2. t \in Nat /\ 236 * t <= 200 * amount + 118 /\ 200 * amount + 118 < 236 * t + 236
  <2>1. /\ t \in Nat
        /\ 2 * (100 + 18) * t <= 2 * (amount * 100) + (100 + 18)
        /\ 2 * (amount * 100) + (100 + 18) < 2 * (100 + 18) * t + 2 * (100 + 18)
    BY <1>1, HalfUpBounds DEF Taxable
  <2> HIDE DEF t
  <2> QED
    BY <2>1
<1>3. i \in Nat /\ 236 * i <= 36 * amount + 118 /\ 36 * amount + 118 < 236 * i + 236
  <2>1. /\ i \in Nat
        /\ 2 * ((100 + 18) * 1) * i <= 2 * (amount * 18) + (100 + 18) * 1
        /\ 2 * (amount * 18) + (100 + 18) * 1
             < 2 * ((100 + 18) * 1) * i + 2 * ((100 + 18) * 1)
    BY <1>1, HalfUpBounds DEF Tax
  <2> HIDE DEF i
  <2> QED
    BY <2>1
<1> HIDE DEF t, i
\* Both quotients end in one half, or neither does; and 118 is even
<1>4. t + i = amount
  BY <1>2, <1>3
<1>5. ComputeGst(amount, "INR", buyer, seller, 18) = Parts("inter_state", t, 0, 0, i)
  BY DEF ComputeGst, t, i
<1>6. t \in Int /\ i \in Int
  BY <1>2, <1>3
<1>7. Sum(Parts("inter_state", t, 0, 0, i)) = t + i
  BY <1>6, SumOfParts
<1> QED
  BY <1>4, <1>5, <1>7

\* "The parts must reconstruct the total to the paisa" (test_billing.py): for
\* 9999.00 in the seller's state they make 9999.01
THEOREM ListedPriceIsAPaisaOver ==
    Sum(ComputeGst(999900, "INR", "36", "36", 18)) = 999901
<1>1. Taxable(999900, 18) = 847373 /\ Tax(999900, 18, 2) = 76264
  BY DEF Taxable, Tax, HalfUp
<1> QED
  BY <1>1 DEF ComputeGst, Parts, Sum

-----------------------------------------------------------------------------
(* The inductive invariant                                                 *)

\* A payment row exists from the insert on, and is not paid before a charge
CheckoutInv ==
    \A p \in Payments :
      /\ checkout[p] \in {"new", "checked"} => status[p] = "none"
      /\ checkout[p] \in {"inserted", "open"} => status[p] # "none"
      /\ charged[p] => checkout[p] = "open"

\* The webhook under way handles a payment that is charged and not yet paid,
\* its number is still the next one, and its files are written in order
HookInv ==
    hook # None =>
      /\ status[hook.payment] = "created" /\ charged[hook.payment]
      /\ hook.claim = NextInvoice(hook.claim.year)
      /\ hook.stage \in {"pdf", "commit"} => html[hook.claim] = hook.payment

IInv ==
    /\ TypeOK /\ NumbersDense /\ InvoiceOnDisk /\ PaidTogether /\ AckedIsPaid
    /\ CheckoutInv /\ HookInv

-----------------------------------------------------------------------------
(* The series and its next number                                          *)

\* The invoices of a year are finitely many, and fewer than the payments as
\* long as one payment has none
LEMMA SeriesSize ==
    ASSUME NEW y \in Years
    PROVE  /\ IsFiniteSet(InSeries(y))
           /\ Cardinality(InSeries(y)) \in Nat
           /\ Cardinality(Payments) \in Nat
           /\ \A p \in Payments : invoice[p] = None =>
                 Cardinality(InSeries(y)) + 1 <= Cardinality(Payments)
<1>1. IsFiniteSet(Payments) /\ Cardinality(Payments) \in Nat
  BY PaymentsAssumption, FS_CardinalityType
<1>2. IsFiniteSet(InSeries(y)) /\ Cardinality(InSeries(y)) <= Cardinality(Payments)
  <2>1. InSeries(y) \in SUBSET Payments
    BY DEF InSeries
  <2>2. QED
    BY <1>1, <2>1, FS_Subset
<1>3. Cardinality(InSeries(y)) \in Nat
  BY <1>2, FS_CardinalityType
<1>4. ASSUME NEW p \in Payments, invoice[p] = None
      PROVE  Cardinality(InSeries(y)) + 1 <= Cardinality(Payments)
  <2>1. InSeries(y) \in SUBSET (Payments \ {p})
    BY <1>4 DEF InSeries
  <2>2. /\ IsFiniteSet(Payments \ {p})
        /\ Cardinality(Payments \ {p}) = Cardinality(Payments) - 1
    BY <1>1, <1>4, FS_RemoveElement
  <2>3. Cardinality(InSeries(y)) <= Cardinality(Payments \ {p})
    BY <2>1, <2>2, FS_Subset
  <2>4. QED
    BY <1>1, <1>3, <2>2, <2>3
<1>5. QED
  BY <1>1, <1>2, <1>3, <1>4

\* While a payment has no number the next number is one
LEMMA NextInvoiceType ==
    ASSUME NEW y \in Years, NEW p \in Payments, invoice[p] = None
    PROVE  NextInvoice(y) \in Invoice
<1>1. Cardinality(InSeries(y)) + 1 \in Numbers
  BY SeriesSize DEF Numbers
<1>2. QED
  BY <1>1 DEF NextInvoice, Invoice

\* The next number is nobody's
LEMMA ClaimFresh ==
    ASSUME TypeOK, NumbersDense, NEW y \in Years, NEW p \in Payments, invoice[p] # None
    PROVE  invoice[p] # NextInvoice(y)
<1>1. CASE invoice[p].year # y
  BY <1>1 DEF NextInvoice
<1>2. CASE invoice[p].year = y
  <2>1. p \in InSeries(y)
    BY <1>2 DEF InSeries
  <2>2. invoice[p].number \in 1..Cardinality(InSeries(y))
    BY <2>1 DEF NumbersDense
  <2>3. invoice[p].number # Cardinality(InSeries(y)) + 1
    BY <2>2, SeriesSize
  <2>4. QED
    BY <2>3 DEF NextInvoice
<1>3. QED
  BY <1>1, <1>2

-----------------------------------------------------------------------------
(* Type correctness                                                        *)

\* The empty ledger satisfies the invariant
LEMMA InitInv == Init => IInv
<1> SUFFICES ASSUME Init PROVE IInv
  OBVIOUS
<1>1. TypeOK
  BY LastYearAssumption, BillingSettingsAssumption DEF Init, TypeOK, Checkout, Years, File
<1>2. NumbersDense
  <2>1. \A y \in Years : InSeries(y) = {}
    BY DEF Init, InSeries
  <2>2. Cardinality({}) = 0
    BY FS_EmptySet
  <2>3. QED
    BY <2>1, <2>2 DEF NumbersDense
<1>3. InvoiceOnDisk /\ PaidTogether /\ AckedIsPaid /\ CheckoutInv /\ HookInv
  BY DEF Init, InvoiceOnDisk, PaidTogether, AckedIsPaid, CheckoutInv, HookInv
<1>4. QED
  BY <1>1, <1>2, <1>3 DEF IInv

\* Every step keeps the types: one case per action
LEMMA NextType == IInv /\ [Next]_vars => TypeOK'
<1> SUFFICES ASSUME IInv, [Next]_vars PROVE TypeOK'
  OBVIOUS
<1>0. TypeOK
  BY DEF IInv
<1> USE DEF TypeOK, Checkout, Hook, HookStage, loopVars
<1>1. ASSUME NEW p \in Payments, CreateCheckout(p) \/ Charge(p) \/ Redeliver(p) PROVE TypeOK'
  <2>1. CASE CheckPaid(p) \/ OpenCheckout(p) \/ CheckoutFails(p)
    BY <1>0, <2>1 DEF CheckPaid, OpenCheckout, CheckoutFails
  <2>2. CASE InsertPayment(p)
    BY <1>0, <2>2 DEF InsertPayment
  <2>3. CASE Charge(p) \/ Redeliver(p)
    BY <1>0, <2>3 DEF Charge, Redeliver
  <2>4. QED
    BY <1>1, <2>1, <2>2, <2>3 DEF CreateCheckout
<1>2. ASSUME NEW p \in Payments, Deliver(p) PROVE TypeOK'
  <2>1. invoice[p] = None
    BY <1>2 DEF Deliver, IInv, PaidTogether
  <2>2. NextInvoice(year) \in Invoice
    BY <1>0, <2>1, NextInvoiceType
  <2>3. QED
    BY <1>0, <1>2, <2>2 DEF Deliver
<1>3. CASE WriteInvoice
  BY <1>0, <1>3 DEF WriteInvoice, AfterHtml, File
<1>4. CASE PrintRaises
  BY <1>0, <1>4 DEF PrintRaises, AnswerError
<1>5. CASE Commit
  BY <1>0, <1>5, JobOfAssumption DEF Commit, PayJob
<1>6. CASE MarkPaidFails
  BY <1>0, <1>6 DEF MarkPaidFails, AnswerError, File
<1>7. CASE NewYear
  BY <1>0, <1>7, LastYearAssumption DEF NewYear, Years
<1>8. CASE CrashRestart
  BY <1>0, <1>8, BillingSettingsAssumption DEF CrashRestart, File
<1>9. CASE UNCHANGED vars
  BY <1>0, <1>9 DEF vars
<1>10. QED
  BY <1>1, <1>2, <1>3, <1>4, <1>5, <1>6, <1>7, <1>8, <1>9 DEF Next

-----------------------------------------------------------------------------
(* The commit of a webhook                                                 *)

\* It gives the payment the next number of the year its claim names
LEMMA CommitSeries ==
    ASSUME IInv, Commit
    PROVE  \E p \in Payments, c \in Invoice :
              /\ hook.payment = p /\ hook.claim = c /\ c = NextInvoice(c.year)
              /\ invoice[p] = None /\ invoice' = [invoice EXCEPT ![p] = c]
              /\ c.year \in Years
              /\ InSeries(c.year)' = InSeries(c.year) \cup {p}
              /\ p \notin InSeries(c.year)
              /\ \A y \in Years \ {c.year} : InSeries(y)' = InSeries(y)
<1>1. PICK p \in Payments, c \in Invoice :
         /\ hook.payment = p /\ hook.claim = c /\ c = NextInvoice(c.year)
         /\ status[p] = "created" /\ invoice' = [invoice EXCEPT ![p] = c]
  BY DEF Commit, IInv, TypeOK, Hook, HookInv
<1>2. invoice[p] = None
  BY <1>1 DEF IInv, PaidTogether
<1>3. invoice \in [Payments -> Invoice \cup {None}]
  BY DEF IInv, TypeOK
<1>4. c # None /\ c.year \in Years
  BY NoneAssumption DEF Invoice
<1>5. \A q \in Payments : invoice'[q] = IF q = p THEN c ELSE invoice[q]
  BY <1>1, <1>3
<1>6. /\ InSeries(c.year)' = InSeries(c.year) \cup {p} /\ p \notin InSeries(c.year)
      /\ \A y \in Years \ {c.year} : InSeries(y)' = InSeries(y)
  BY <1>2, <1>4, <1>5 DEF InSeries
<1>7. QED
  BY <1>1, <1>2, <1>4, <1>6

\* So the numbers stay dense
LEMMA CommitDense ==
    ASSUME IInv, Commit
    PROVE  NumbersDense'
<1> PICK p \in Payments, c \in Invoice :
       /\ c = NextInvoice(c.year)
       /\ invoice[p] = None /\ invoice' = [invoice EXCEPT ![p] = c]
       /\ c.year \in Years
       /\ InSeries(c.year)' = InSeries(c.year) \cup {p} /\ p \notin InSeries(c.year)
       /\ \A y \in Years \ {c.year} : InSeries(y)' = InSeries(y)
  BY CommitSeries
<1>0. invoice \in [Payments -> Invoice \cup {None}] /\ NumbersDense
  BY DEF IInv, TypeOK
<1> SUFFICES ASSUME NEW y \in Years
             PROVE  /\ {invoice'[q].number : q \in InSeries(y)'} = 1..Cardinality(InSeries(y)')
                    /\ \A q, r \in InSeries(y)' : invoice'[q].number = invoice'[r].number => q = r
  BY DEF NumbersDense
<1>1. CASE y # c.year
  <2>1. InSeries(y)' = InSeries(y) /\ p \notin InSeries(y)
    BY <1>1 DEF InSeries
  <2>2. \A q \in InSeries(y) : invoice'[q] = invoice[q]
    BY <1>0, <2>1 DEF InSeries
  <2>3. QED
    BY <1>0, <2>1, <2>2 DEF NumbersDense
<1>2. CASE y = c.year
  <2> DEFINE S == InSeries(y)
             n == Cardinality(S)
  <2>1. n \in Nat /\ Cardinality(InSeries(y)') = n + 1
    BY <1>2, SeriesSize, FS_AddElement
  <2>2. \A q \in S : invoice'[q] = invoice[q]
    BY <1>0, <1>2 DEF InSeries
  <2>3. invoice'[p].number = n + 1
    BY <1>0, <1>2 DEF NextInvoice
  <2>4. InSeries(y)' = S \cup {p}
    BY <1>2
  <2>5. /\ {invoice[q].number : q \in S} = 1..n
        /\ \A q, r \in S : invoice[q].number = invoice[r].number => q = r
    BY <1>0 DEF NumbersDense
  <2> HIDE DEF S, n
  <2>6. {invoice'[q].number : q \in S \cup {p}} = 1..(n + 1)
    <3>1. {invoice'[q].number : q \in S \cup {p}} = {invoice[q].number : q \in S} \cup {n + 1}
      BY <2>2, <2>3
    <3>2. 1..(n + 1) = (1..n) \cup {n + 1}
      BY <2>1
    <3>3. QED
      BY <2>5, <3>1, <3>2
  <2>7. \A q \in S : invoice'[q].number \in 1..n
    BY <2>2, <2>5
  <2>8. \A q, r \in S \cup {p} : invoice'[q].number = invoice'[r].number => q = r
    BY <2>1, <2>2, <2>3, <2>5, <2>7
  <2>9. QED
    BY <2>1, <2>4, <2>6, <2>8
<1>3. QED
  BY <1>1, <1>2

-----------------------------------------------------------------------------
(* The rest of the invariant                                               *)

\* Steps that record no payment leave every series as it is
LEMMA SeriesFrame ==
    ASSUME UNCHANGED invoice
    PROVE  /\ \A y \in Years : InSeries(y)' = InSeries(y)
           /\ \A y \in Years : NextInvoice(y)' = NextInvoice(y)
           /\ NumbersDense => NumbersDense'
BY DEF InSeries, NextInvoice, NumbersDense

\* The files of committed numbers are never touched: a webhook writes under a
\* number that is nobody's, and what it has written is its own at the commit
LEMMA NextOnDisk == IInv /\ Next => InvoiceOnDisk'
<1> SUFFICES ASSUME IInv, Next PROVE InvoiceOnDisk'
  OBVIOUS
<1>0. TypeOK /\ NumbersDense /\ InvoiceOnDisk /\ HookInv
  BY DEF IInv
<1>1. CASE UNCHANGED <<invoice, html>>
  BY <1>0, <1>1 DEF InvoiceOnDisk
<1>2. CASE /\ hook # None /\ UNCHANGED invoice
           /\ \A i \in Invoice : i # hook.claim => html'[i] = html[i]
  <2>1. \A p \in Payments : invoice[p] # None => invoice[p] # hook.claim
    BY <1>0, <1>2, ClaimFresh DEF HookInv, TypeOK, Hook, Invoice
  <2>2. QED
    BY <1>0, <1>2, <2>1 DEF InvoiceOnDisk, TypeOK
<1>3. CASE Commit
  BY <1>0, <1>3 DEF Commit, InvoiceOnDisk, HookInv, TypeOK
<1>4. QED
  <2>1. ASSUME NEW p \in Payments,
               CreateCheckout(p) \/ Charge(p) \/ Redeliver(p) \/ Deliver(p)
        PROVE  UNCHANGED <<invoice, html>>
    BY <2>1 DEF CreateCheckout, CheckPaid, InsertPayment, OpenCheckout, CheckoutFails,
       Charge, Redeliver, Deliver, loopVars
  <2>2. CASE WriteInvoice \/ PrintRaises \/ MarkPaidFails
    BY <1>0, <1>2, <2>2 DEF WriteInvoice, PrintRaises, MarkPaidFails, TypeOK
  <2>3. CASE NewYear
    BY <1>1, <2>3 DEF NewYear, loopVars
  <2>4. CASE CrashRestart
    BY <1>0, <1>1, <1>2, <2>4 DEF CrashRestart, TypeOK
  <2>5. QED
    BY <1>1, <1>3, <2>1, <2>2, <2>3, <2>4 DEF Next

\* The rows agree after every step, and only a recorded payment is answered
LEMMA NextLedger ==
    IInv /\ Next => PaidTogether' /\ AckedIsPaid' /\ CheckoutInv'
<1> SUFFICES ASSUME IInv, Next PROVE PaidTogether' /\ AckedIsPaid' /\ CheckoutInv'
  OBVIOUS
<1>0. TypeOK /\ PaidTogether /\ AckedIsPaid /\ CheckoutInv /\ HookInv
  BY DEF IInv
<1> USE <1>0 DEF TypeOK, PaidTogether, AckedIsPaid, CheckoutInv, Checkout
<1>1. ASSUME NEW p \in Payments, CreateCheckout(p)
      PROVE  PaidTogether' /\ AckedIsPaid' /\ CheckoutInv'
  <2>1. CASE CheckPaid(p)
    BY <2>1 DEF CheckPaid
  <2>2. CASE InsertPayment(p)
    BY <2>2 DEF InsertPayment
  <2>3. CASE OpenCheckout(p)
    BY <2>3 DEF OpenCheckout
  <2>4. CASE CheckoutFails(p)
    BY <2>4 DEF CheckoutFails
  <2>5. QED
    BY <1>1, <2>1, <2>2, <2>3, <2>4 DEF CreateCheckout
<1>2. ASSUME NEW p \in Payments, Charge(p) \/ Redeliver(p) \/ Deliver(p)
      PROVE  PaidTogether' /\ AckedIsPaid' /\ CheckoutInv'
  BY <1>2 DEF Charge, Redeliver, Deliver
<1>3. CASE Commit
  <2>1. PICK p \in Payments, c \in Invoice :
           /\ hook.payment = p /\ c # None
           /\ status[p] = "created" /\ charged[p]
           /\ status' = [status EXCEPT ![p] = "paid"]
           /\ invoice' = [invoice EXCEPT ![p] = c]
           /\ jobPaid' = [jobPaid EXCEPT ![JobOf[p]] = TRUE]
           /\ acked' \in [Payments -> BOOLEAN]
           /\ \A q \in Payments : q # p => acked'[q] = acked[q]
           /\ UNCHANGED <<checkout, charged>>
    <3>1. /\ hook.payment \in Payments /\ hook.claim \in Invoice
          /\ status[hook.payment] = "created" /\ charged[hook.payment]
      BY <1>3 DEF Commit, Hook, HookInv
    <3>2. PICK answered \in BOOLEAN : acked' = [acked EXCEPT ![hook.payment] = answered]
      BY <1>3 DEF Commit
    <3>3. /\ acked' \in [Payments -> BOOLEAN]
          /\ \A q \in Payments : q # hook.payment => acked'[q] = acked[q]
      BY <3>1, <3>2
    <3>4. hook.claim # None
      BY <3>1, NoneAssumption
    <3>5. /\ status' = [status EXCEPT ![hook.payment] = "paid"]
          /\ invoice' = [invoice EXCEPT ![hook.payment] = hook.claim]
          /\ jobPaid' = [jobPaid EXCEPT ![JobOf[hook.payment]] = TRUE]
          /\ UNCHANGED <<checkout, charged>>
      BY <1>3 DEF Commit, PayJob
    <3>6. QED
      BY ONLY <3>1, <3>3, <3>4, <3>5
  <2>2. JobOf[p] \in Jobs
    BY JobOfAssumption
  <2>3. PaidTogether'
    BY <2>1, <2>2
  <2>4. QED
    BY <2>1, <2>3
<1>4. CASE WriteInvoice \/ PrintRaises \/ MarkPaidFails \/ NewYear
  BY <1>4 DEF WriteInvoice, PrintRaises, MarkPaidFails, AnswerError, NewYear, loopVars
<1>5. CASE CrashRestart
  BY <1>5 DEF CrashRestart
<1>6. QED
  BY <1>1, <1>2, <1>3, <1>4, <1>5 DEF Next

\* The webhook under way keeps its claim: no other can commit before it
LEMMA NextHookInv == IInv /\ Next => HookInv'
<1> SUFFICES ASSUME IInv, Next, hook' # None PROVE HookInv'
  BY DEF HookInv
<1>0. TypeOK /\ HookInv /\ CheckoutInv /\ PaidTogether
  BY DEF IInv
<1> USE <1>0
<1>1. ASSUME NEW p \in Payments, CreateCheckout(p) \/ Charge(p) \/ Redeliver(p)
      PROVE  HookInv'
  <2>1. UNCHANGED <<invoice, loopVars>> /\ hook # None /\ hook.claim.year \in Years
    BY <1>1 DEF CreateCheckout, CheckPaid, InsertPayment, OpenCheckout, CheckoutFails,
       Charge, Redeliver, loopVars, TypeOK, Hook, Invoice
  <2>2. status'[hook.payment] = "created" /\ charged'[hook.payment]
    BY <1>1, <2>1 DEF CreateCheckout, CheckPaid, InsertPayment, OpenCheckout, CheckoutFails,
       Charge, Redeliver, loopVars, HookInv, TypeOK, CheckoutInv, Hook
  <2>3. QED
    BY <2>1, <2>2, SeriesFrame DEF HookInv, loopVars
<1>2. ASSUME NEW p \in Payments, Deliver(p) PROVE HookInv'
  <2>1. /\ hook' = [payment |-> p, claim |-> NextInvoice(year), stage |-> "html"]
        /\ UNCHANGED <<invoice, status, charged>> /\ charged[p] /\ status[p] = "created"
    BY <1>2 DEF Deliver
  <2>2. NextInvoice(year)' = NextInvoice(year) /\ NextInvoice(year).year = year
    BY <1>2, SeriesFrame DEF Deliver, NextInvoice, InSeries
  <2>3. NextInvoice(NextInvoice(year).year)' = NextInvoice(year)
    BY <1>2, <2>2 DEF Deliver, NextInvoice, InSeries
  <2>4. QED
    BY <2>1, <2>2, <2>3 DEF HookInv
<1>3. CASE WriteInvoice
  <2>1. /\ hook # None /\ hook' = [hook EXCEPT !.stage = hook'.stage]
        /\ hook'.payment = hook.payment /\ hook'.claim = hook.claim
        /\ hook.claim \in Invoice /\ hook.claim.year \in Years
        /\ UNCHANGED <<invoice, status, charged>>
    BY <1>3 DEF WriteInvoice, AfterHtml, TypeOK, Hook, Invoice
  <2>2. NextInvoice(hook.claim.year)' = NextInvoice(hook.claim.year)
    BY <2>1, SeriesFrame DEF NextInvoice, InSeries
  <2>3. html'[hook.claim] = hook.payment
    BY <1>3, <2>1 DEF WriteInvoice, TypeOK
  <2>4. QED
    BY <2>1, <2>2, <2>3 DEF HookInv
<1>4. CASE Commit \/ PrintRaises \/ MarkPaidFails \/ CrashRestart
  BY <1>4 DEF Commit, PrintRaises, MarkPaidFails, CrashRestart
<1>5. CASE NewYear
  BY <1>5, SeriesFrame DEF NewYear, loopVars, HookInv, TypeOK, Hook, Invoice
<1>6. QED
  BY <1>1, <1>2, <1>3, <1>4, <1>5 DEF Next

\* Every step keeps the inductive invariant
LEMMA NextInv == IInv /\ [Next]_vars => IInv'
<1> SUFFICES ASSUME IInv, [Next]_vars PROVE IInv'
  OBVIOUS
<1>1. TypeOK'
  BY NextType
<1>2. CASE Next
  <2>1. NumbersDense'
    <3>1. CASE Commit
      BY <3>1, CommitDense
    <3>2. CASE UNCHANGED invoice
      BY <3>2, SeriesFrame DEF IInv
    <3>3. QED
      BY <1>2, <3>1, <3>2 DEF Next, CreateCheckout, CheckPaid, InsertPayment, OpenCheckout,
         CheckoutFails, Charge, Redeliver, Deliver, WriteInvoice, PrintRaises,
         MarkPaidFails, NewYear, CrashRestart
  <2>2. QED
    BY <1>1, <1>2, <2>1, NextOnDisk, NextLedger, NextHookInv DEF IInv
<1>3. CASE UNCHANGED vars
  <2>1. UNCHANGED invoice
    BY <1>3 DEF vars
  <2>2. NumbersDense'
    BY <2>1, SeriesFrame DEF IInv
  <2>3. HookInv'
    <3>1. hook # None => NextInvoice(hook.claim.year)' = NextInvoice(hook.claim.year)
      BY <1>3 DEF vars, loopVars, NextInvoice, InSeries
    <3>2. QED
      BY <1>3, <3>1 DEF IInv, HookInv, vars, loopVars
  <2>4. InvoiceOnDisk' /\ PaidTogether' /\ AckedIsPaid' /\ CheckoutInv'
    BY <1>3 DEF IInv, vars, loopVars, InvoiceOnDisk, PaidTogether, AckedIsPaid, CheckoutInv
  <2>5. QED
    BY <1>1, <2>2, <2>3, <2>4 DEF IInv
<1>4. QED
  BY <1>2, <1>3

\* The invariant the theorems below rest on
THEOREM Invariance == Spec => []IInv
BY InitInv, NextInv, PTL DEF Spec

-----------------------------------------------------------------------------
(* The theorems                                                            *)

\* Every variable keeps its type; in particular no number of a series exceeds
\* the number of payments
THEOREM TypeCorrect == Spec => []TypeOK
<1>1. IInv => TypeOK
  BY DEF IInv
<1>2. QED
  BY <1>1, Invariance, PTL

\* Invoice numbers are sequential per fiscal year, without gap or repetition,
\* whatever webhooks fail, are repeated or are interrupted
THEOREM SequentialNumbers == Spec => []NumbersDense
<1>1. IInv => NumbersDense
  BY DEF IInv
<1>2. QED
  BY <1>1, Invariance, PTL

\* A committed invoice has its own complete files
THEOREM InvoicesAreOnDisk == Spec => []InvoiceOnDisk
<1>1. IInv => InvoiceOnDisk
  BY DEF IInv
<1>2. QED
  BY <1>1, Invariance, PTL

\* Payment, number and job never disagree
THEOREM PaymentsAgree == Spec => []PaidTogether
<1>1. IInv => PaidTogether
  BY DEF IInv
<1>2. QED
  BY <1>1, Invariance, PTL

\* The provider is never told that a payment is recorded when it is not
THEOREM AnswersAreTrue == Spec => []AckedIsPaid
<1>1. IInv => AckedIsPaid
  BY DEF IInv
<1>2. QED
  BY <1>1, Invariance, PTL

\* Provider, payments, invoices and jobs agree about what is paid
THEOREM BooksAreKept == Spec => []BooksAgree
<1>1. PaidTogether /\ AckedIsPaid => BooksAgree
  BY DEF BooksAgree
<1> QED
  BY <1>1, PaymentsAgree, AnswersAreTrue, PTL

\* The parts of every invoice make up what was charged: exactly on an export, and
\* between states at 18 %; but for a paisa on every other order, at every rate
THEOREM InvoicesAddUp == Spec => []InvoiceAddsUp
<1>1. InvoiceAddsUp
  <2> SUFFICES ASSUME NEW p \in Payments
               PROVE  LET gst == ComputeGst(OrderOf[p].amount, OrderOf[p].currency,
                                            OrderOf[p].state, SellerState, GstRate)
                          off == Sum(gst) - OrderOf[p].amount
                      IN  /\ off \in {-1, 0, 1}
                          /\ \/ gst.supply_type = "export"
                             \/ gst.supply_type = "inter_state" /\ GstRate = 18
                             => off = 0
    BY DEF InvoiceAddsUp, Document
  <2> DEFINE gst == ComputeGst(OrderOf[p].amount, OrderOf[p].currency,
                               OrderOf[p].state, SellerState, GstRate)
  <2>1. OrderOf[p].amount \in Nat /\ GstRate \in Nat /\ OrderOf[p].currency \in {"USD", "INR"}
    BY OrderAssumption
  <2>2. Sum(gst) - OrderOf[p].amount \in {-1, 0, 1}
    BY <2>1, WithinAPaisa
  <2>3. gst.supply_type = "export" => Sum(gst) = OrderOf[p].amount
    BY <2>1, SumOfParts DEF ComputeGst, Parts
  <2>4. gst.supply_type = "inter_state" /\ GstRate = 18 => Sum(gst) = OrderOf[p].amount
    <3> SUFFICES ASSUME gst.supply_type = "inter_state", GstRate = 18
                 PROVE  Sum(gst) = OrderOf[p].amount
      OBVIOUS
    <3>1. OrderOf[p].currency = "INR"
          /\ (OrderOf[p].state = "none" \/ OrderOf[p].state # SellerState)
      BY <2>1 DEF ComputeGst, Parts
    <3> QED
      BY <2>1, <3>1, InterStateIsExact
  <2> QED
    BY <2>1, <2>2, <2>3, <2>4
<1> QED
  BY <1>1, PTL

\* No row and no claim is of a year to come, and a claim is of the year of its
\* row or a later one
DateInv ==
    /\ \A p \in Payments : opened[p] <= year
    /\ hook # None => /\ hook.claim.year <= year
                     /\ opened[hook.payment] <= hook.claim.year
    /\ DatedInTime

\* Every step keeps the dates in order
LEMMA NextDates == IInv /\ DateInv /\ [Next]_vars => DateInv'
<1> SUFFICES ASSUME IInv, DateInv, [Next]_vars PROVE DateInv'
  OBVIOUS
<1>0. /\ TypeOK /\ CheckoutInv /\ HookInv /\ PaidTogether /\ TypeOK'
      /\ Years \subseteq Int
  BY NextType, LastYearAssumption DEF IInv, Years
<1> USE <1>0 DEF TypeOK, DateInv, DatedInTime, Document
<1>1. ASSUME NEW p \in Payments, CreateCheckout(p) PROVE DateInv'
  <2>1. CASE InsertPayment(p)
    <3>1. status[p] = "none"
      BY <2>1 DEF InsertPayment, CheckoutInv
    <3>2. invoice[p] = None /\ (hook # None => hook.payment # p)
      BY <3>1 DEF PaidTogether, HookInv
    <3> QED
      BY <2>1, <3>2 DEF InsertPayment, loopVars
  <2>2. CASE CheckPaid(p) \/ OpenCheckout(p) \/ CheckoutFails(p)
    BY <2>2 DEF CheckPaid, OpenCheckout, CheckoutFails, loopVars
  <2> QED
    BY <1>1, <2>1, <2>2 DEF CreateCheckout
<1>2. ASSUME NEW p \in Payments, Charge(p) \/ Redeliver(p) PROVE DateInv'
  BY <1>2 DEF Charge, Redeliver, loopVars
<1>3. ASSUME NEW p \in Payments, Deliver(p) PROVE DateInv'
  BY <1>3 DEF Deliver, NextInvoice
<1>4. CASE WriteInvoice
  <2>1. /\ hook # None /\ hook'.payment = hook.payment /\ hook'.claim = hook.claim
        /\ UNCHANGED <<opened, invoice, year>>
    BY <1>4 DEF WriteInvoice, Hook
  <2> QED
    BY <2>1
<1>5. CASE Commit
  <2>1. hook # None /\ hook.payment \in Payments /\ hook.claim \in Invoice
        /\ hook.claim.year <= year /\ opened[hook.payment] <= hook.claim.year
    BY <1>5 DEF Commit, Hook
  <2>2. invoice' = [invoice EXCEPT ![hook.payment] = hook.claim] /\ hook' = None
        /\ UNCHANGED <<opened, year>>
    BY <1>5 DEF Commit
  <2> QED
    BY <2>1, <2>2
<1>6. CASE PrintRaises \/ MarkPaidFails \/ CrashRestart
  BY <1>6 DEF PrintRaises, MarkPaidFails, CrashRestart
<1>7. CASE NewYear
  <2>1. /\ year' = year + 1 /\ year \in Int
        /\ UNCHANGED <<opened, invoice, hook>>
    BY <1>7 DEF NewYear, loopVars
  <2>2. ASSUME NEW p \in Payments PROVE opened[p] \in Int /\ opened[p] <= year'
    <3>1. opened[p] \in Int /\ opened[p] <= year
      OBVIOUS
    <3> QED
      BY <2>1, <3>1
  <2>3. \A p \in Payments : invoice[p] # None => invoice[p].year \in Int
    BY DEF Invoice
  <2>4. hook # None => hook.claim.year \in Int
    BY DEF Hook, Invoice
  <2> QED
    BY <2>1, <2>2, <2>3, <2>4
<1>8. CASE UNCHANGED vars
  BY <1>8 DEF vars, loopVars
<1> QED
  BY <1>1, <1>2, <1>3, <1>4, <1>5, <1>6, <1>7, <1>8 DEF Next

\* No invoice is dated after the year of its number, and none is numbered ahead
\* of the clock
THEOREM DatesInTime == Spec => []DatedInTime
<1>1. Init => DateInv
  <2> SUFFICES ASSUME Init PROVE DateInv
    OBVIOUS
  <2> QED
    BY DEF Init, DateInv, DatedInTime
<1>2. DateInv => DatedInTime
  BY DEF DateInv
<1> QED
  BY <1>1, <1>2, NextDates, Invariance, PTL DEF Spec

\* An invoice says what was charged, and not before it was
THEOREM InvoicesAreRight == Spec => []InvoiceIsRight
<1>1. InvoiceAddsUp /\ DatedInTime => InvoiceIsRight
  BY DEF InvoiceIsRight
<1> QED
  BY <1>1, InvoicesAddUp, DatesInTime, PTL

\* Each step issues the next number of one year, or none
LEMMA NextRefines == IInv /\ [Next]_vars => [IS!Next]_invoice
<1> SUFFICES ASSUME IInv, [Next]_vars, invoice' # invoice PROVE IS!Next
  OBVIOUS
<1>1. Commit
  BY DEF vars, Next, CreateCheckout, CheckPaid, InsertPayment, OpenCheckout,
     CheckoutFails, Charge, Redeliver, Deliver, WriteInvoice, PrintRaises,
     MarkPaidFails, NewYear, CrashRestart
<1>2. PICK p \in Payments, c \in Invoice :
         /\ c = NextInvoice(c.year) /\ c.year \in Years
         /\ invoice[p] = None /\ invoice' = [invoice EXCEPT ![p] = c]
  BY <1>1, CommitSeries
<1>3. PICK y \in Years, n \in Numbers :
         c = [year |-> y, number |-> n] /\ n = Cardinality(InSeries(y)) + 1
  BY <1>2 DEF NextInvoice, Invoice
<1>4. IS!Used(y) = 1..(n - 1)
  <2>1. IS!Used(y) = {invoice[q].number : q \in InSeries(y)}
    BY DEF IS!Used, IS!InYear, InSeries
  <2>2. {invoice[q].number : q \in InSeries(y)} = 1..Cardinality(InSeries(y))
    BY DEF IInv, NumbersDense
  <2>3. n - 1 = Cardinality(InSeries(y))
    BY <1>3, SeriesSize
  <2>4. QED
    BY <2>1, <2>2, <2>3
<1>5. IS!Issue(p, y, n)
  BY <1>2, <1>3, <1>4 DEF IS!Issue
<1>6. QED
  BY <1>5 DEF IS!Next

\* The ledger implements the abstract series: what is issued stays issued
THEOREM ImplementsInvoiceSeries == Spec => IssuesInSeries
<1>1. Init => IS!Init
  BY DEF Init, IS!Init
<1>2. QED
  BY <1>1, NextRefines, Invariance, PTL DEF Spec, IssuesInSeries, IS!Spec
=============================================================================
