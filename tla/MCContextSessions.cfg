SPECIFICATION Spec
CONSTANTS
    root = root
    child = child
    grandchild = grandchild
    great = great
    peer = peer
    Root = root
    Children = {child, grandchild, great, peer}
    Registry <- FamilyRegistry
    Sources = {"v1", "v2"}
    FirstSource = "v1"
    ActionIds = {"a", "b"}
    Budget = 1
    Handles = {h1, h2}
    MaxRevision = 4
SYMMETRY Symmetry
INVARIANTS
    AuthorityIsBounded
PROPERTIES
    RevocationReachesDescendants
    LedgerMovesOn
    ImplementsOneShot
