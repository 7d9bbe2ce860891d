\* Crashes and every fault, redelivery until answered; with and without the PDF
SPECIFICATION FairSpec
CONSTANTS
    p1 = p1
    p2 = p2
    p3 = p3
    j1 = j1
    j2 = j2
    None = None
    Payments = {p1, p2, p3}
    Jobs = {j1, j2}
    JobOf <- JobsPaidFor
    OrderOf <- ListedPrices
    SellerState = "36"
    GstRate = 18
    LastYear = 2
    PdfSettings = {TRUE, FALSE}
    Faults = {"crash", "disk", "db"}
INVARIANTS
    TypeOK
    NumbersDense
    InvoiceOnDisk
    BooksAgree
    InvoiceIsRight
PROPERTIES
    IssuesInSeries
    RecordedUnprinted
\* once everything is paid and answered and the last year has begun nothing is left to do
CHECK_DEADLOCK FALSE
