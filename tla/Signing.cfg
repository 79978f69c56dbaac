SPECIFICATION FairSpec
CONSTANTS
    Worker = {w1, w2}
    Job = {claim, change}
    NoWorker = NoWorker
    NoJob = NoJob
    Claim = {claim}
    Replacing = {}
    MaxQuota = 2
    UnreadableJournal = FALSE
    MaxFaults = 2
INVARIANTS TypeOK SavedBeforeSent ReservationKept NoncesDistinct StepsInOrder ResultsEarned
PROPERTIES JournalGrows Resumes
