\* Registrations that race, restarts with other settings, a restored backup
SPECIFICATION Spec
CONSTANTS
    r1 = r1
    r2 = r2
    Ann = Ann
    ann = ann
    bob = bob
    Requests = {r1, r2}
    Spellings = {Ann, ann, bob}
    Lower <- LowerCase
    Passwords = {"p", "q", "long"}
    Long = {"long"}
    AdminLists <- Lists
    Secrets = {"s", "t"}
    Lifetime = 1
    MaxTime = 1
    Faults = {"db", "crash", "restore"}
SYMMETRY SameRequests
INVARIANTS
    TypeOK
    OneAccount
    CreatedIsThere
    AccessWasEarned
PROPERTIES
    RightsAreKept
\* when every request is answered and the clock has run out nothing is left to do
CHECK_DEADLOCK FALSE
