------------------------------- MODULE Billing -------------------------------
(***************************************************************************)
(* Checkouts, payment webhooks and invoice numbers of the web backend      *)
(* (src/webapp/backend/app/billing.py) in one API process.                 *)
(*                                                                         *)
(* create_checkout runs on worker threads.  A webhook runs on the event    *)
(* loop: once its body is read it is not interrupted by another webhook,   *)
(* only by a crash, while threads go on beside it.  Its session writes     *)
(* nothing visible before its one commit; the invoice's HTML is written    *)
(* before that.  With enable_pdf the webhook then asks the synchronous     *)
(* browser API for the PDF, from the loop it runs on, and that API refuses *)
(* to: no webhook gets past that call.  The payment provider is external.  *)
(***************************************************************************)
EXTENDS Gst, FiniteSets

CONSTANTS
    Payments,   \* checkout requests, each the id of the row it may create
    Jobs,       \* the audit jobs they pay for
    JobOf,      \* JobOf[p]: the job p pays for
    OrderOf,    \* OrderOf[p]: its amount, currency and the state of the buyer
    SellerState,    \* settings.seller_state_code
    GstRate,    \* settings.gst_rate_pct
    LastYear,   \* bound: the clock passes from fiscal year 1 to LastYear
    PdfSettings,    \* the values settings.enable_pdf may be started with
    Faults,     \* which faults may occur: "crash", "disk", "db"
    None        \* no payment, no invoice

ASSUME PaymentsAssumption == IsFiniteSet(Payments) /\ None \notin Payments
ASSUME JobOfAssumption == JobOf \in [Payments -> Jobs]
ASSUME OrderAssumption ==
    /\ OrderOf \in [Payments -> [amount : Nat, currency : {"USD", "INR"}, state : STRING]]
    /\ SellerState \in STRING /\ GstRate \in Nat
ASSUME LastYearAssumption == LastYear \in Nat \ {0}
ASSUME BillingSettingsAssumption ==
    /\ PdfSettings \subseteq BOOLEAN /\ PdfSettings # {}
    /\ Faults \subseteq {"crash", "disk", "db"}

VARIABLES
    checkout,   \* [Payments -> Checkout]: how far create_checkout got
    status,     \* [Payments -> ...]: the committed payments.status
    opened,     \* [Payments -> Years]: the fiscal year of the committed
                \* payments.created_at; 1 before the row is there
    invoice,    \* [Payments -> ...]: the committed payments.invoice_number
    jobPaid,    \* [Jobs -> BOOLEAN]: the committed audit_jobs.paid
    charged,    \* [Payments -> BOOLEAN]: the provider took the money
    acked,      \* [Payments -> BOOLEAN]: the provider got a 200
    year,       \* the fiscal year of datetime.now(UTC)
    hook,       \* the webhook on the event loop, if any
    html,       \* [Invoice -> ...]: whose invoice <number>.html holds
    enablePdf   \* settings.enable_pdf, read once in the life of the process

loopVars == <<hook, html, enablePdf>>
vars == <<checkout, status, opened, invoice, jobPaid, charged, acked, year, loopVars>>

Years == 1..LastYear
Numbers == 1..Cardinality(Payments)
Invoice == [year : Years, number : Numbers]
Checkout == {"new", "checked", "inserted", "open", "refused", "failed"}
HookStage == {"html", "pdf", "commit"}
Hook == [payment : Payments, claim : Invoice, stage : HookStage]
\* A file is missing, holds the invoice of a payment, or is torn
Torn == "torn"
File == Payments \cup {None, Torn}

ASSUME TornAssumption == Torn \notin Payments /\ None # Torn
ASSUME NoneAssumption == None \notin Invoice

Init ==
    /\ checkout = [p \in Payments |-> "new"]
    /\ status = [p \in Payments |-> "none"]
    /\ opened = [p \in Payments |-> 1]
    /\ invoice = [p \in Payments |-> None]
    /\ jobPaid = [j \in Jobs |-> FALSE]
    /\ charged = [p \in Payments |-> FALSE]
    /\ acked = [p \in Payments |-> FALSE]
    /\ year = 1
    /\ hook = None
    /\ html = [i \in Invoice |-> None]
    /\ enablePdf \in PdfSettings

-----------------------------------------------------------------------------
(* create_checkout                                                         *)

\* The job is loaded and is not paid; a paid job is refused with 409
CheckPaid(p) ==
    /\ checkout[p] = "new"
    /\ checkout' = [checkout EXCEPT ![p] = IF jobPaid[JobOf[p]] THEN "refused" ELSE "checked"]
    /\ UNCHANGED <<status, invoice, jobPaid, charged, acked, opened, year, loopVars>>

\* Amount, currency and state of the order are fixed here
InsertPayment(p) ==
    /\ checkout[p] = "checked"
    /\ checkout' = [checkout EXCEPT ![p] = "inserted"]
    /\ status' = [status EXCEPT ![p] = "created"]
    /\ opened' = [opened EXCEPT ![p] = year]
    /\ UNCHANGED <<invoice, jobPaid, charged, acked, year, loopVars>>

\* The provider opens a checkout session for the payment
OpenCheckout(p) ==
    /\ checkout[p] = "inserted"
    /\ checkout' = [checkout EXCEPT ![p] = "open"]
    /\ UNCHANGED <<status, invoice, jobPaid, charged, acked, opened, year, loopVars>>

\* The insert fails, or the provider refuses: an error, and in the second case
\* a payment row that stays "created"
CheckoutFails(p) ==
    /\ \/ checkout[p] = "checked" /\ "db" \in Faults
       \/ checkout[p] = "inserted"
    /\ checkout' = [checkout EXCEPT ![p] = "failed"]
    /\ UNCHANGED <<status, invoice, jobPaid, charged, acked, opened, year, loopVars>>

-----------------------------------------------------------------------------
(* The provider and the clock                                              *)

\* The customer pays in an open session, whatever happened meanwhile
Charge(p) ==
    /\ checkout[p] = "open"
    /\ ~charged[p]
    /\ charged' = [charged EXCEPT ![p] = TRUE]
    /\ UNCHANGED <<checkout, status, invoice, jobPaid, acked, opened, year, loopVars>>

NewYear ==
    /\ year < LastYear
    /\ year' = year + 1
    /\ UNCHANGED <<checkout, status, invoice, jobPaid, charged, acked, opened, loopVars>>

-----------------------------------------------------------------------------
(* The webhooks: _mark_paid                                                *)

\* The invoices of a year, which share the prefix of their numbers
InSeries(y) == {p \in Payments : invoice[p] # None /\ invoice[p].year = y}

\* Mutant: payments that are not paid are counted too
NextInvoiceOfAll(y) ==
    [year |-> y, number |-> Cardinality({p \in Payments : status[p] # "none"}) + 1]

\* Mutant: the series goes on from year to year
NextInvoiceAllYears(y) ==
    [year |-> y, number |-> Cardinality({p \in Payments : invoice[p] # None}) + 1]

\* next_invoice_number: counted, not remembered
NextInvoice(y) == [year |-> y, number |-> Cardinality(InSeries(y)) + 1]

\* A signed event for a payment already paid is answered and changes nothing
Redeliver(p) ==
    /\ hook = None
    /\ charged[p]
    /\ status[p] = "paid"
    /\ acked' = [acked EXCEPT ![p] = TRUE]
    /\ UNCHANGED <<checkout, status, invoice, jobPaid, charged, opened, year, loopVars>>

\* Mutant: an event for a paid payment is handled again
DeliverAgain(p) ==
    /\ hook = None
    /\ charged[p]
    /\ status[p] \in {"created", "paid"}
    /\ hook' = [payment |-> p, claim |-> NextInvoice(year), stage |-> "html"]
    /\ UNCHANGED <<checkout, status, invoice, jobPaid, charged, acked, opened, year, html, enablePdf>>

\* A signed event for a payment of this database that is not paid
Deliver(p) ==
    /\ hook = None
    /\ charged[p]
    /\ status[p] = "created"
    /\ hook' = [payment |-> p, claim |-> NextInvoice(year), stage |-> "html"]
    /\ UNCHANGED <<checkout, status, invoice, jobPaid, charged, acked, opened, year, html, enablePdf>>

\* render_invoice_html: what the file of a payment says.  The date is that of the
\* checkout, the number that of the webhook
Document(p, number) ==
    [number |-> number, date |-> opened[p],
     gst |-> ComputeGst(OrderOf[p].amount, OrderOf[p].currency, OrderOf[p].state,
                        SellerState, GstRate)]

AfterHtml == IF enablePdf THEN "pdf" ELSE "commit"

\* Mutant: a file that is there is not written again
WriteInvoiceOnce ==
    /\ hook # None /\ hook.stage = "html"
    /\ html' = [html EXCEPT ![hook.claim] = IF @ = None THEN hook.payment ELSE @]
    /\ hook' = [hook EXCEPT !.stage = AfterHtml]
    /\ UNCHANGED <<checkout, status, invoice, jobPaid, charged, acked, opened, year, enablePdf>>

WriteInvoice ==
    /\ hook # None /\ hook.stage = "html"
    /\ html' = [html EXCEPT ![hook.claim] = hook.payment]
    /\ hook' = [hook EXCEPT !.stage = AfterHtml]
    /\ UNCHANGED <<checkout, status, invoice, jobPaid, charged, acked, opened, year, enablePdf>>

\* Mutant: the job is not marked
PayNoJob == UNCHANGED jobPaid

PayJob == jobPaid' = [jobPaid EXCEPT ![JobOf[hook.payment]] = TRUE]

\* The payment, its number and the job become visible together, and the
\* provider gets its 200 unless the answer is lost
Commit ==
    /\ hook # None /\ hook.stage = "commit"
    /\ status' = [status EXCEPT ![hook.payment] = "paid"]
    /\ invoice' = [invoice EXCEPT ![hook.payment] = hook.claim]
    /\ PayJob
    /\ \E answered \in BOOLEAN : acked' = [acked EXCEPT ![hook.payment] = answered]
    /\ hook' = None
    /\ UNCHANGED <<checkout, charged, opened, year, html, enablePdf>>

\* Mutant: the error is swallowed and the webhook answered with a 200
AnswerAnyway == acked' = [acked EXCEPT ![hook.payment] = TRUE]

AnswerError == UNCHANGED acked

\* html_to_pdf raises on the running event loop, before it writes anything: the
\* session is closed without a commit and the provider gets a 500
PrintRaises ==
    /\ hook # None /\ hook.stage = "pdf"
    /\ AnswerError
    /\ hook' = None
    /\ UNCHANGED <<checkout, status, invoice, jobPaid, charged, opened, year, html, enablePdf>>

\* A write or the commit raises, with the same end; the file may be left torn
MarkPaidFails ==
    /\ hook # None
    /\ \/ /\ hook.stage = "html" /\ "disk" \in Faults
          /\ \E left \in {html[hook.claim], Torn} : html' = [html EXCEPT ![hook.claim] = left]
       \/ /\ hook.stage = "commit" /\ "db" \in Faults
          /\ UNCHANGED html
    /\ AnswerError
    /\ hook' = None
    /\ UNCHANGED <<checkout, status, invoice, jobPaid, charged, opened, year, enablePdf>>

\* The process dies and is started again, perhaps with another setting: requests
\* under way are lost, one of them perhaps half way through its file
CrashRestart ==
    /\ "crash" \in Faults
    /\ checkout' = [p \in Payments |-> IF checkout[p] \in {"checked", "inserted"}
                                         THEN "failed" ELSE checkout[p]]
    /\ \/ UNCHANGED html
       \/ /\ hook # None /\ hook.stage = "html"
          /\ html' = [html EXCEPT ![hook.claim] = Torn]
    /\ hook' = None
    /\ enablePdf' \in PdfSettings
    /\ UNCHANGED <<status, invoice, jobPaid, charged, acked, opened, year>>

CreateCheckout(p) == CheckPaid(p) \/ InsertPayment(p) \/ OpenCheckout(p) \/ CheckoutFails(p)

Next ==
    \/ \E p \in Payments : CreateCheckout(p) \/ Charge(p) \/ Redeliver(p) \/ Deliver(p)
    \/ WriteInvoice \/ PrintRaises \/ Commit \/ MarkPaidFails
    \/ NewYear \/ CrashRestart

Spec == Init /\ [][Next]_vars

\* The provider delivers again until it is answered, a webhook on the event loop
\* runs to its end, and where a step of it can succeed no fault hits it for
\* ever.  Nothing is assumed of customers, checkouts or the clock.
Fairness ==
    /\ \A p \in Payments : SF_vars(~acked[p] /\ (Deliver(p) \/ Redeliver(p)))
    /\ WF_vars(WriteInvoice \/ PrintRaises \/ Commit \/ MarkPaidFails)
    /\ SF_vars(WriteInvoice) /\ SF_vars(Commit)

FairSpec == Spec /\ Fairness

-----------------------------------------------------------------------------
(* Properties                                                              *)

\* Every variable has its type; no number exceeds the number of payments
TypeOK ==
    /\ checkout \in [Payments -> Checkout]
    /\ status \in [Payments -> {"none", "created", "paid"}]
    /\ opened \in [Payments -> Years]
    /\ invoice \in [Payments -> Invoice \cup {None}]
    /\ jobPaid \in [Jobs -> BOOLEAN]
    /\ charged \in [Payments -> BOOLEAN]
    /\ acked \in [Payments -> BOOLEAN]
    /\ year \in Years
    /\ hook \in Hook \cup {None}
    /\ html \in [Invoice -> File]
    /\ enablePdf \in BOOLEAN

\* The numbers of each fiscal year are 1, 2, ... without a gap and without a
\* repetition, though each is counted from the committed rows and a failed or
\* interrupted webhook gives its number up
NumbersDense ==
    \A y \in Years :
      /\ {invoice[p].number : p \in InSeries(y)} = 1..Cardinality(InSeries(y))
      /\ \A p, q \in InSeries(y) : invoice[p].number = invoice[q].number => p = q

\* The file under a committed number is complete and of that payment, though an
\* abandoned attempt may have written it first, for another payment
InvoiceOnDisk ==
    \A p \in Payments : invoice[p] # None => html[invoice[p]] = p

\* The payment, its invoice number and the job agree about what is paid
PaidTogether ==
    /\ \A p \in Payments : status[p] = "paid" <=> invoice[p] # None
    /\ \A j \in Jobs :
          jobPaid[j] <=> \E p \in Payments : JobOf[p] = j /\ status[p] = "paid"

\* The provider and the database agree: a 200 is never sent before the payment
\* is recorded, a charge is never for a row that does not exist, and only a
\* charge is recorded
AckedIsPaid ==
    \A p \in Payments :
      /\ acked[p] => status[p] = "paid"
      /\ charged[p] => status[p] # "none"
      /\ status[p] = "paid" => charged[p]

\* Provider, payments, invoices and jobs agree about what is paid, however often
\* a webhook fails, is interrupted or comes again
BooksAgree == PaidTogether /\ AckedIsPaid

\* "The parts must reconstruct the total to the paisa" (test_billing.py): the
\* taxable value and the taxes of an invoice make up the amount that was charged
PartsReconstructTotal ==
    \A p \in Payments : invoice[p] # None =>
        Sum(Document(p, invoice[p]).gst) = OrderOf[p].amount

\* They do on an export, and between states at the rate of the settings; in one
\* state, where two halves of the tax are rounded each, but for one paisa
InvoiceAddsUp ==
    \A p \in Payments : invoice[p] # None =>
        LET gst == Document(p, invoice[p]).gst
            off == Sum(gst) - OrderOf[p].amount
        IN  /\ off \in {-1, 0, 1}
            /\ \/ gst.supply_type = "export"
               \/ gst.supply_type = "inter_state" /\ GstRate = 18
               => off = 0

\* An invoice is not dated after the fiscal year its number belongs to, and no
\* number is of a year to come, however late the webhook and its repetitions are
DatedInTime ==
    \A p \in Payments : invoice[p] # None =>
        /\ Document(p, invoice[p]).date <= invoice[p].year
        /\ invoice[p].year <= year

\* What a committed invoice says: it adds up and is dated in time
InvoiceIsRight == InvoiceAddsUp /\ DatedInTime

\* "Invoices are generated as HTML+PDF on webhook confirmation" (gst_notes.md): a
\* charge is eventually recorded and answered
ChargeRecorded ==
    \A p \in Payments : charged[p] ~> status[p] = "paid" /\ acked[p]

\* It is if from some restart on the process does not print: no crash, torn file,
\* failed commit, lost answer or earlier 500 then keeps a charge off the books
RecordedUnprinted == <>[]~enablePdf => ChargeRecorded

\* A customer is not charged twice for a job: create_checkout refuses a job
\* that "is already paid"
ChargedOnce ==
    \A p, q \in Payments : charged[p] /\ charged[q] /\ JobOf[p] = JobOf[q] => p = q

\* The abstract series: what is issued is what is committed
IS == INSTANCE InvoiceSeries WITH issued <- invoice

\* Webhooks, retries and crashes implement it
IssuesInSeries == IS!Spec
=============================================================================
