\* No trouble of any kind: an account may read everything, or nothing of
\* performance_schema
SPECIFICATION Spec
CONSTANTS
    Troubles = {}
    Denials = {{}, {"trial", "instruments", "statements", "scans", "unused", "locks"}}
    None = None
PROPERTIES
    DegradedNotCrashed
