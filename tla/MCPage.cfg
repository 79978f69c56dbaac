SPECIFICATION Spec
CONSTANTS
    ana = ana
    ben = ben
    cat = cat
    none = none
    header = header
    page = page
INVARIANTS
    DraftKept
PROPERTIES
    WalletHonest MatchesOwn
CHECK_DEADLOCK FALSE
