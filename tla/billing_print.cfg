\* With enable_pdf, and no fault: is a charge recorded?
SPECIFICATION FairSpec
CONSTANTS
    p1 = p1
    p2 = p2
    p3 = p3
    j1 = j1
    j2 = j2
    None = None
    Payments = {p1}
    Jobs = {j1, j2}
    JobOf <- JobsPaidFor
    OrderOf <- ListedPrices
    SellerState = "36"
    GstRate = 18
    LastYear = 2
    PdfSettings = {TRUE}
    Faults = {}
PROPERTIES
    ChargeRecorded
\* once everything is paid and answered and the last year has begun nothing is left to do
CHECK_DEADLOCK FALSE
