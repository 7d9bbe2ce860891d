\* The rows of two users for one statement, a row of another, and resets
SPECIFICATION Spec
CONSTANTS
    u1 = u1
    u2 = u2
    v = v
    one = one
    other = other
    None = None
    Rows = {u1, u2, v}
    Digests = {one, other}
    DigestOf <- MCDigestOf
    Top = 2
    Times = {1, 2}
    MaxCalls = 2
SYMMETRY Users
INVARIANTS
    TypeOK
    NeverOverstated
    FlagsHonest
