SPECIFICATION RunSpec
CONSTANTS
    alice = alice
    bob = bob
    carol = carol
    i1 = i1
    i2 = i2
    i3 = i3
    r1 = r1
    r2 = r2
    User = {alice, bob, carol}
    EscrowAddr = escrow
    SettlementAddr = settlement
    NoOne = none
    MaxTickets = 3
    MintInput = {}
    Intent <- AllIntents
    Funds <- PoolFunds
    Amount = {0, 1}
    NetPayment <- LegSums
    MaxBundle = 2
    MaxInt = 100
    MaxTime = 0
    Requested <- PoolRequests
    Required = {}
    MaxParticipants = 4
    MaxCandidates = 2
    MaxAssignments = 1
INVARIANTS
    CandidatesExecutable CashIsLeast DiagnosisTrue
PROPERTIES
    NobodyElseBreaksIt SearchesShared
CHECK_DEADLOCK FALSE
