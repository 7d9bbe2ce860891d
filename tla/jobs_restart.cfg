\* One upload, and the process may die: is the job ever settled?
SPECIFICATION FairSpec
CONSTANTS
    j1 = j1
    j2 = j2
    alice = alice
    bob = bob
    root = root
    None = None
    Jobs = {j1}
    Users = {alice, root}
    Admins = {root}
    Owner <- OneCustomer
    EnablePdf = FALSE
    Faults = {"crash"}
PROPERTIES
    Settles
CHECK_DEADLOCK FALSE
