SPECIFICATION Spec
CONSTANTS
    alice = alice
    bob = bob
    User = {alice, bob}
    EscrowAddr = EscrowAddr
    SettlementAddr = SettlementAddr
    NoOne = NoOne
    MaxTickets = 2
    MintInput <- OneSeat
    Intent <- SwapIntents
    Funds <- BobsFunds
    Amount = {1}
    NetPayment = {0}
    MaxBundle = 2
    MaxInt = 100
    MaxTime = 1
INVARIANTS
    TypeOK
    DepositIsBacked
    NonceNamesOneIntent
PROPERTIES
    IntentLifecycle
    ImplementsExchange
CHECK_DEADLOCK FALSE
