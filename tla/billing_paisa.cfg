\* No fault at all: do the parts of an invoice make up its total?
SPECIFICATION Spec
CONSTANTS
    p1 = p1
    p2 = p2
    p3 = p3
    j1 = j1
    j2 = j2
    None = None
    Payments = {p1}
    Jobs = {j1, j2}
    JobOf <- JobsPaidFor
    OrderOf <- ListedPrices
    SellerState = "36"
    GstRate = 18
    LastYear = 2
    PdfSettings = {FALSE}
    Faults = {}
INVARIANTS
    PartsReconstructTotal
\* once everything is paid and answered and the last year has begun nothing is left to do
CHECK_DEADLOCK FALSE
