SPECIFICATION HistorySpec
CONSTANTS
    earliest = earliest
    fork = fork
    middle = middle
    last = last
    Absent = Absent
    Bodies <- MCBodies
    Content <- MCContent
    Bundles <- MCBundles
    Statements <- MCStatements
    Receipts <- MCReceipts
    Absences <- MCAbsences
    MaxChain = 3
    MaxReceipts = 1
    TooLarge <- MCTooLarge
INVARIANTS
    OutvotedIsValidated
CHECK_DEADLOCK FALSE
