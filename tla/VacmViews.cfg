\* Views built and taken apart entry by entry, each name and subtree asked for.
SPECIFICATION Spec
CONSTANTS
    Name <- TwoNames
    Oid <- Asked
    Subtree <- Entries
    MaxLen = 3
    MaxViews = 3
INVARIANTS ScanInv VerdictSound
