SPECIFICATION ReadsSpec
CONSTANTS
    Jobs = 5
    Concurrency = 3
    ann = ann
    bob = bob
    p1 = p1
    p2 = p2
    call = call
    logs = logs
INVARIANTS
    WorkersDone ReadsExact
PROPERTIES
    ProvidersRight ReadsEnd
CHECK_DEADLOCK FALSE
