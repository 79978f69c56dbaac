SPECIFICATION ChainSpec
CONSTANTS
    alice = alice
    bob = bob
    carol = carol
    User = {alice, bob}
    EscrowAddr = escrow
    SettlementAddr = settlement
    NoOne = none
    MaxTickets = 2
    MintInput <- Events
    Intent <- SwapIntents
    Funds <- NoFunds
    Amount = {}
    NetPayment = {0}
    MaxBundle = 1
    MaxInt = 100
    MaxTime = 1
    MaxBacklog = 2
INVARIANT CustodyDerived
CHECK_DEADLOCK FALSE
