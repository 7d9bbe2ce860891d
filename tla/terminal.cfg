\* Commands at a terminal that are killed, time out and run out of disk
SPECIFICATION FairCommandSpec
CONSTANTS
    f1 = f1
    f2 = f2
    None = None
    Findings = {f1, f2}
    Numbers <- SomeNumbers
    Given <- GivenNumbers
    Template <- TemplateNumbers
    Replies <- SomeReplies
    Faults = {"crash", "disk"}
    Troubles = {"statement", "disk", "kill"}
    Denials <- SomeDenials
INVARIANTS
    CommandTypeOK
    NothingInvented
    ExitTruth
    SilenceIsExplained
PROPERTIES
    CachedForGood
    CommandsEnd
