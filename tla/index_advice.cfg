CONSTANTS
    None = None
    Keys <- MCKeys
    Words <- MCWords
    Closing <- MCClosing
    MaxWords = 2
    Kinds <- MCKinds
    Names <- MCNames
    Definitions <- MCDefinitions
    Workload <- MCWorkload
    Follows <- OneRule
SPECIFICATION Spec
INVARIANT TypeOK
PROPERTIES LeadingKept UniqueKept ReadsKept
