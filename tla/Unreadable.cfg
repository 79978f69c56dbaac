SPECIFICATION Spec
CONSTANTS
    Worker = {w1, w2}
    Job = {claim, change}
    NoWorker = NoWorker
    NoJob = NoJob
    Claim = {claim}
    Replacing = {}
    MaxQuota = 2
    UnreadableJournal = TRUE
    MaxFaults = 3
INVARIANT ReservationKept
