\* Crashes, disk and database faults; the PDF is enabled
SPECIFICATION FairSpec
CONSTANTS
    j1 = j1
    j2 = j2
    alice = alice
    bob = bob
    root = root
    None = None
    Jobs = {j1, j2}
    Users = {alice, root}
    Admins = {root}
    Owner <- OwnAlice
    EnablePdf = TRUE
    Faults = {"crash", "disk", "db"}
INVARIANTS
    TypeOK
    CustomersSeeApproved
    ReportOnDisk
    FailureVisible
PROPERTIES
    ArtifactsFrozen
    PaidKept
    HoldsReports
    SettlesOrLost
    LostToFaults
\* once every job is settled and nobody asks for anything the service is idle
CHECK_DEADLOCK FALSE
