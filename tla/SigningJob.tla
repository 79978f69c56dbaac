----------------------------- MODULE SigningJob -----------------------------
(***************************************************************************)
(* The durable signing journal of src/server/signing-job.ts: how the server*)
(* spends one signer's chain nonces from several workers that may crash,   *)
(* stall past their lease, lose replies of the store and of the chain, and *)
(* be retried.  Two callers share it, with their own steps: a ticket claim *)
(* (two mints) and a judge's budget change (revoke, then commit).          *)
(*                                                                         *)
(* Between two awaits of the code lies one action of this module.  A       *)
(* compareAndSet is atomic (one Lua script, or one file lock) and a request*)
(* is identified by the worker that runs it: the lease value is a fresh    *)
(* UUID, and a worker has no memory of its earlier requests.               *)
(***************************************************************************)
EXTENDS Integers, Sequences, FiniteSets

CONSTANTS
    Worker, Job,
    NoWorker, NoJob,
    Claim,              \* claims: two mints, and one of the day's quota
    Replacing,          \* changes that revoke an intent before they commit another
    MaxQuota,
    UnreadableJournal,  \* whether a read of the journal may fail
    MaxFaults           \* bound: crashes, stalls and failed calls

ASSUME SigningAssumption ==
    /\ NoWorker \notin Worker
    /\ NoJob \notin Job
    /\ Claim \subseteq Job /\ Replacing \subseteq Job \ Claim
    /\ MaxQuota \in Nat
    /\ UnreadableJournal \in BOOLEAN
    /\ MaxFaults \in Nat

VARIABLES
    lease,      \* store: the worker whose request holds the signer
    active,     \* store: the job the signer is reserved for
    journal,    \* store: job -> its record, or NoRecord
    quota,      \* store: claims counted against today's allowance
    pc,         \* the await each worker is at
    job,        \* the job each worker's request is for
    mem,        \* the worker's copy of the record (job in the code)
    saved,      \* what the worker last read or wrote there (saved)
    reserved,   \* whether the worker knows the signer reserved for its job
    at,         \* the step of execute the worker is in
    pool,       \* chain: transactions waiting to be mined
    mined,      \* chain: transactions mined, in the order of their nonces
    reverted,   \* chain: the mined transactions that reverted
    faults

storeVars == <<lease, active, journal, quota>>
workerVars == <<pc, job, mem, saved, reserved, at>>
chainVars == <<pool, mined, reverted>>
vars == <<storeVars, workerVars, chainVars, faults>>

\* Signed bytes: for which step of which job, at which nonce, by which worker.
Tx == [job : Job, step : Nat, nonce : Nat, by : Worker]
Record == [steps : Seq(Tx), done : BOOLEAN]
NoRecord == [steps |-> <<>>, done |-> TRUE]
NewRecord == [steps |-> <<>>, done |-> FALSE]

PC == {"idle", "active", "reserve", "load", "initialize", "savePlan", "refresh",
       "prepare", "saveStep", "receipt", "refreshAgain", "broadcast", "wait",
       "complete", "lastRefresh", "saveResult", "release", "unlock"}

Init ==
    /\ lease = NoWorker
    /\ active = NoJob
    /\ journal = [j \in Job |-> NoRecord]
    /\ quota = 0
    /\ pc = [w \in Worker |-> "idle"]
    /\ job = [w \in Worker |-> NoJob]
    /\ mem = [w \in Worker |-> NoRecord]
    /\ saved = [w \in Worker |-> NoRecord]
    /\ reserved = [w \in Worker |-> FALSE]
    /\ at = [w \in Worker |-> 1]
    /\ pool = {}
    /\ mined = <<>>
    /\ reverted = {}
    /\ faults = 0

-----------------------------------------------------------------------------
(* Helpers *)

\* How many transactions a job executes.
Steps == [j \in Job |-> IF j \in Claim \cup Replacing THEN 2 ELSE 1]

Goto(w, l) == pc' = [pc EXCEPT ![w] = l]

\* The request ends, and what it kept in memory with it.
Forget(w) ==
    /\ Goto(w, "idle")
    /\ job' = [job EXCEPT ![w] = NoJob]
    /\ mem' = [mem EXCEPT ![w] = NoRecord]
    /\ saved' = [saved EXCEPT ![w] = NoRecord]
    /\ reserved' = [reserved EXCEPT ![w] = FALSE]
    /\ at' = [at EXCEPT ![w] = 1]

Fault == faults < MaxFaults /\ faults' = faults + 1

Mined == {mined[n] : n \in DOMAIN mined}

\* The bytes of the step the worker is in.
Bytes(w) == mem[w].steps[at[w]]

\* Journaled transactions, and those of them not known to be final.
Saved(j) == {journal[j].steps[k] : k \in DOMAIN journal[j].steps}
Uncertain(j) == Saved(j) \ Mined

\* The waiting transactions that could all be mined now, in the order of nonces.
Executable == {t \in pool : \A k \in Len(mined) .. t.nonce - 1 : \E s \in pool : s.nonce = k}

\* eth_getTransactionCount of the pending block.
PendingNonce == Len(mined) + Cardinality(Executable)

\* The transaction a worker signs for the step it is in.
NextTx(w) == [job |-> job[w], step |-> at[w], nonce |-> PendingNonce, by |-> w]

\* Mutated form of Confirmed: any receipt will do.
ConfirmedOrReverted(w) == Bytes(w) \in Mined

\* The receipt of the step says success.
Confirmed(w) == Bytes(w) \in Mined \ reverted

-----------------------------------------------------------------------------
(* The request: lease, reservation, journal (signing-job.ts:28-51) *)

\* SET lease NX PX 90000; a request that finds a lease is refused.
Begin(w, j) ==
    /\ pc[w] = "idle"
    /\ lease = NoWorker
    /\ lease' = w
    /\ Goto(w, "active")
    /\ job' = [job EXCEPT ![w] = j]
    /\ UNCHANGED <<active, journal, quota, mem, saved, reserved, at, chainVars, faults>>

\* The reservation is read: somebody else's, ours already, or nobody's.
ReadActive(w) ==
    /\ pc[w] = "active"
    /\ \/ active \notin {NoJob, job[w]} /\ Goto(w, "release") /\ UNCHANGED reserved
       \/ active = job[w] /\ Goto(w, "load") /\ reserved' = [reserved EXCEPT ![w] = TRUE]
       \/ active = NoJob /\ Goto(w, "reserve") /\ UNCHANGED reserved
    /\ UNCHANGED <<storeVars, job, mem, saved, at, chainVars, faults>>

Reserve(w) ==
    /\ pc[w] = "reserve"
    /\ IF active = NoJob /\ lease = w
       THEN /\ active' = job[w]
            /\ reserved' = [reserved EXCEPT ![w] = TRUE]
            /\ Goto(w, "load")
       ELSE Goto(w, "release") /\ UNCHANGED <<active, reserved>>
    /\ UNCHANGED <<lease, journal, quota, job, mem, saved, at, chainVars, faults>>

\* Mutated form of Load: a plan is made whether or not the journal has one.
LoadAfresh(w) ==
    /\ pc[w] = "load"
    /\ saved' = [saved EXCEPT ![w] = journal[job[w]]]
    /\ Goto(w, "initialize")
    /\ UNCHANGED <<storeVars, job, mem, reserved, at, chainVars, faults>>

\* The journal is read; a finished job answers with its saved result.
Load(w) ==
    /\ pc[w] = "load"
    /\ saved' = [saved EXCEPT ![w] = journal[job[w]]]
    /\ mem' = [mem EXCEPT ![w] = journal[job[w]]]
    /\ \/ journal[job[w]] = NoRecord /\ Goto(w, "initialize")
       \/ journal[job[w]] # NoRecord /\ journal[job[w]].done /\ Goto(w, "release")
       \/ ~journal[job[w]].done /\ Goto(w, "refresh")
    /\ UNCHANGED <<storeVars, job, reserved, at, chainVars, faults>>

\* Mutated form of Initialize: the allowance is counted and never looked at.
InitializeUncapped(w) ==
    /\ pc[w] = "initialize"
    /\ mem' = [mem EXCEPT ![w] = NewRecord]
    /\ quota' = IF job[w] \in Claim THEN quota + 1 ELSE quota
    /\ Goto(w, "savePlan")
    /\ UNCHANGED <<lease, active, journal, job, saved, reserved, at, chainVars, faults>>

\* initialize makes the plan: for a claim it takes one unit of the quota first,
\* by its own compareAndSet loop, and throws when none is left.  A claim made before
\* the store existed, which a single server takes over from its old file with the
\* bytes it signed and without another unit (demo-tickets.ts:50-53, 66), is left out:
\* no old file is there.
Initialize(w) ==
    /\ pc[w] = "initialize"
    /\ \/ /\ job[w] \in Claim => quota < MaxQuota
          /\ mem' = [mem EXCEPT ![w] = NewRecord]
          /\ quota' = IF job[w] \in Claim THEN quota + 1 ELSE quota
          /\ Goto(w, "savePlan")
       \/ /\ job[w] \in Claim /\ quota >= MaxQuota
          /\ Goto(w, "release")
          /\ UNCHANGED <<mem, quota>>
    /\ UNCHANGED <<lease, active, journal, job, saved, reserved, at, chainVars, faults>>

\* Mutated form of Save: without the guard on the lease.
SaveUnguarded(w, next) ==
    /\ IF journal[job[w]] = saved[w]
       THEN /\ journal' = [journal EXCEPT ![job[w]] = mem[w]]
            /\ saved' = [saved EXCEPT ![w] = mem[w]]
            /\ Goto(w, next)
       ELSE Goto(w, "release") /\ UNCHANGED <<journal, saved>>
    /\ UNCHANGED <<lease, active, quota, job, mem, reserved, at, chainVars, faults>>

\* save: compareAndSet of the record, guarded by the lease; throws if refused.
Save(w, next) ==
    /\ IF journal[job[w]] = saved[w] /\ lease = w
       THEN /\ journal' = [journal EXCEPT ![job[w]] = mem[w]]
            /\ saved' = [saved EXCEPT ![w] = mem[w]]
            /\ Goto(w, next)
       ELSE Goto(w, "release") /\ UNCHANGED <<journal, saved>>
    /\ UNCHANGED <<lease, active, quota, job, mem, reserved, at, chainVars, faults>>

SavePlan(w) == pc[w] = "savePlan" /\ Save(w, "refresh")

-----------------------------------------------------------------------------
(* transaction, once for each step of execute (signing-job.ts:52-69) *)

\* refresh: the lease renewed if still ours; throws if it ended.
RefreshAt(w, l, next) ==
    /\ pc[w] = l
    /\ Goto(w, IF lease = w THEN next ELSE "release")
    /\ UNCHANGED <<storeVars, job, mem, saved, reserved, at, chainVars, faults>>

Refresh(w) ==
    RefreshAt(w, "refresh", IF Len(mem[w].steps) < at[w] THEN "prepare" ELSE "receipt")

\* Mutated form of Prepare: the step is broadcast without being saved.
PrepareAndSend(w) ==
    /\ pc[w] = "prepare"
    /\ mem' = [mem EXCEPT ![w].steps = Append(@, NextTx(w))]
    /\ Goto(w, "receipt")
    /\ UNCHANGED <<storeVars, job, saved, reserved, at, chainVars, faults>>

\* Simulate, fill in the pending nonce, sign; the bytes join the record in memory.
Prepare(w) ==
    /\ pc[w] = "prepare"
    /\ mem' = [mem EXCEPT ![w].steps = Append(@, NextTx(w))]
    /\ Goto(w, "saveStep")
    /\ UNCHANGED <<storeVars, job, saved, reserved, at, chainVars, faults>>

SaveStep(w) == pc[w] = "saveStep" /\ Save(w, "receipt")

\* A receipt of the step's hash: the next step, or after the last one the rest
\* of execute; a reverted transaction throws and keeps the reservation.
Receipt(w) ==
    IF Confirmed(w)
    THEN IF at[w] < Steps[job[w]]
         THEN Goto(w, "refresh") /\ at' = [at EXCEPT ![w] = @ + 1]
         ELSE Goto(w, "complete") /\ UNCHANGED at
    ELSE Goto(w, "release") /\ UNCHANGED at

\* No receipt, or an error of the RPC, which reads the same: send again.
ReadReceipt(w) ==
    /\ pc[w] = "receipt"
    /\ \/ Bytes(w) \in Mined /\ Receipt(w) /\ UNCHANGED faults
       \/ Bytes(w) \notin Mined /\ Goto(w, "refreshAgain") /\ UNCHANGED <<at, faults>>
       \/ Bytes(w) \in Mined /\ Fault /\ Goto(w, "refreshAgain") /\ UNCHANGED at
    /\ UNCHANGED <<storeVars, job, mem, saved, reserved, chainVars>>

RefreshAgain(w) == RefreshAt(w, "refreshAgain", "broadcast")

\* Mutated form of Accepted: only the worker that signed the bytes sends them.
AcceptedOnce(w) ==
    /\ Bytes(w).by = w
    /\ Bytes(w).nonce >= Len(mined)
    /\ \A t \in pool : t.nonce # Bytes(w).nonce

\* What the node makes of the bytes: known already, the nonce spent or taken.
Accepted(w) ==
    /\ Bytes(w).nonce >= Len(mined)
    /\ \A t \in pool : t.nonce # Bytes(w).nonce

\* The answer of the node is ignored, and so is its absence.
Broadcast(w) ==
    /\ pc[w] = "broadcast"
    /\ Goto(w, "wait")
    /\ \/ /\ pool' = IF Accepted(w) THEN pool \cup {Bytes(w)} ELSE pool
          /\ UNCHANGED faults
       \/ Fault /\ UNCHANGED pool
    /\ UNCHANGED <<storeVars, job, mem, saved, reserved, at, mined, reverted>>

\* Mined within the 40 seconds, or not: then the request ends.
Wait(w) ==
    /\ pc[w] = "wait"
    /\ \/ Bytes(w) \in Mined /\ Receipt(w) /\ UNCHANGED faults
       \/ Bytes(w) \notin Mined \cup pool /\ Goto(w, "release") /\ UNCHANGED <<at, faults>>
       \/ Bytes(w) \in Mined \cup pool /\ Fault /\ Goto(w, "release") /\ UNCHANGED at
    /\ UNCHANGED <<storeVars, job, mem, saved, reserved, chainVars>>

-----------------------------------------------------------------------------
(* The end of the request (signing-job.ts:70-80) *)

\* execute returns: the result is in memory.
Complete(w) ==
    /\ pc[w] = "complete"
    /\ mem' = [mem EXCEPT ![w].done = TRUE]
    /\ Goto(w, "lastRefresh")
    /\ UNCHANGED <<storeVars, job, saved, reserved, at, chainVars, faults>>

LastRefresh(w) == RefreshAt(w, "lastRefresh", "saveResult")

SaveResult(w) == pc[w] = "saveResult" /\ Save(w, "release")

\* Mutated form of MayRelease: on every way out of the request.
ReleaseAlways(w) == reserved[w]

\* finally: the job has a result, was not loaded, or has signed nothing.
MayRelease(w) == reserved[w] /\ (mem[w].done \/ mem[w].steps = <<>>)

Release(w) ==
    /\ pc[w] = "release"
    /\ active' = IF MayRelease(w) /\ active = job[w] /\ lease = w THEN NoJob ELSE active
    /\ Goto(w, "unlock")
    /\ UNCHANGED <<lease, journal, quota, job, mem, saved, reserved, at, chainVars, faults>>

Unlock(w) ==
    /\ pc[w] = "unlock"
    /\ lease' = IF lease = w THEN NoWorker ELSE lease
    /\ Forget(w)
    /\ UNCHANGED <<active, journal, quota, chainVars, faults>>

-----------------------------------------------------------------------------
(* What goes wrong *)

\* Where an exception leads: to the finally block, or out of it.
Throw(w) ==
    IF pc[w] \in {"release", "unlock"} THEN Forget(w)
    ELSE Goto(w, "release") /\ UNCHANGED <<job, mem, saved, reserved, at>>

\* A call to the store or the chain fails, or a check of the result does.  The
\* calls for receipts and broadcasts have their own catch.
CallFails(w) ==
    /\ Fault
    /\ pc[w] \notin {"idle", "receipt", "broadcast", "wait"}
    /\ pc[w] = "load" => UnreadableJournal
    /\ Throw(w)
    /\ UNCHANGED <<storeVars, chainVars>>

\* A call takes effect in the store and its reply is lost.
ReplyLost(w) ==
    /\ Fault
    /\ \/ /\ pc[w] = "reserve" /\ active = NoJob /\ lease = w
          /\ active' = job[w]
          /\ UNCHANGED <<lease, journal, quota>>
       \/ /\ pc[w] \in {"savePlan", "saveStep", "saveResult"}
          /\ journal[job[w]] = saved[w] /\ lease = w
          /\ journal' = [journal EXCEPT ![job[w]] = mem[w]]
          /\ UNCHANGED <<lease, active, quota>>
       \/ /\ pc[w] = "initialize" /\ job[w] \in Claim /\ quota < MaxQuota
          /\ quota' = quota + 1
          /\ UNCHANGED <<lease, active, journal>>
       \/ /\ pc[w] = "release" /\ MayRelease(w) /\ active = job[w] /\ lease = w
          /\ active' = NoJob
          /\ UNCHANGED <<lease, journal, quota>>
       \/ /\ pc[w] = "idle" /\ lease = NoWorker
          /\ lease' = w
          /\ UNCHANGED <<active, journal, quota>>
    /\ IF pc[w] = "idle" THEN UNCHANGED workerVars ELSE Throw(w)
    /\ UNCHANGED chainVars

\* The process ends; nothing of its memory survives.
Crash(w) ==
    /\ Fault
    /\ pc[w] # "idle"
    /\ Forget(w)
    /\ UNCHANGED <<storeVars, chainVars>>

\* The lease ends after its 90 seconds: of a request that is gone, or, when it
\* stalled that long, of one that is still running.
Expire ==
    /\ lease # NoWorker
    /\ lease' = NoWorker
    /\ IF pc[lease] = "idle" THEN UNCHANGED faults ELSE Fault
    /\ UNCHANGED <<active, journal, quota, workerVars, chainVars>>

\* The chain mines the next nonce; the call succeeds as simulated, or reverts.
Mine(t) ==
    /\ t.nonce = Len(mined)
    /\ mined' = Append(mined, t)
    /\ pool' = pool \ {t}
    /\ \/ UNCHANGED <<reverted, faults>>
       \/ Fault /\ reverted' = reverted \cup {t}
    /\ UNCHANGED <<storeVars, workerVars>>

\* A node forgets a transaction it had accepted.
Drop(t) ==
    /\ Fault
    /\ pool' = pool \ {t}
    /\ UNCHANGED <<storeVars, workerVars, mined, reverted>>

-----------------------------------------------------------------------------
Run(w) ==
    \/ ReadActive(w) \/ Reserve(w) \/ Load(w) \/ Initialize(w) \/ SavePlan(w)
    \/ Refresh(w) \/ Prepare(w) \/ SaveStep(w) \/ ReadReceipt(w) \/ RefreshAgain(w)
    \/ Broadcast(w) \/ Wait(w) \/ Complete(w) \/ LastRefresh(w) \/ SaveResult(w)
    \/ Release(w) \/ Unlock(w)

Environment(w) == CallFails(w) \/ ReplyLost(w) \/ Crash(w)

Next ==
    \/ \E w \in Worker : (\E j \in Job : Begin(w, j)) \/ Run(w) \/ Environment(w)
    \/ Expire
    \/ \E t \in pool : Mine(t) \/ Drop(t)

Spec == Init /\ [][Next]_vars

\* Workers run, dead leases end, the chain mines, and an unfinished job is
\* retried until a retry finds the signer free.
FairSpec ==
    /\ Spec
    /\ \A w \in Worker : WF_vars(Run(w))
    /\ WF_vars(lease # NoWorker /\ pc[lease] = "idle" /\ Expire)
    /\ WF_vars(\E t \in pool : Mine(t))
    /\ \A j \in Job : SF_vars(\E w \in Worker : Begin(w, j))

-----------------------------------------------------------------------------
TypeOK ==
    /\ lease \in Worker \cup {NoWorker}
    /\ active \in Job \cup {NoJob}
    /\ journal \in [Job -> Record]
    /\ quota \in 0 .. MaxQuota
    /\ pc \in [Worker -> PC]
    /\ job \in [Worker -> Job \cup {NoJob}]
    /\ mem \in [Worker -> Record]
    /\ saved \in [Worker -> Record]
    /\ reserved \in [Worker -> BOOLEAN]
    /\ at \in [Worker -> Nat \ {0}]
    /\ pool \subseteq Tx
    /\ mined \in Seq(Tx)
    /\ reverted \subseteq Mined
    /\ faults \in 0 .. MaxFaults

(* No transaction reaches the chain whose exact bytes are not in the       *)
(* journal, so a step of a job has at most one transaction on the chain,   *)
(* whoever signed again after a crash or a lost lease ("Never send         *)
(* transaction bytes that have not been saved", signing-job.ts:59).        *)
SavedBeforeSent == \A t \in pool \cup Mined : t \in Saved(t.job)

(* While a saved transaction is not final, the signer stays reserved for   *)
(* its job: the reservation outlives workers, and nothing but that job can *)
(* use the signer (signing-job.ts:23-24, 74-78).                           *)
ReservationKept == \A j \in Job : Uncertain(j) # {} => active = j

(* Two journaled transactions never compete for one nonce of the signer.   *)
(* If they did, one could never be mined and its job, which is only ever   *)
(* resumed with its saved bytes, would hold the signer for ever            *)
(* (signing-job.ts:39, 56-59).                                             *)
NoncesDistinct ==
    \A s, t \in UNION {Saved(j) : j \in Job} : s.nonce = t.nonce => s = t

(* A later step is signed only after the step before it succeeded on the   *)
(* chain, over all workers that took part: a budget is never committed     *)
(* beside the old one it replaces (signing-job.ts:67, judge-budget.ts:151).*)
StepsInOrder ==
    \A j \in Job : \A k \in DOMAIN journal[j].steps :
        /\ journal[j].steps[k].step = k
        /\ k > 1 => journal[j].steps[k - 1] \in Mined \ reverted

(* A result is the result of all the steps, each mined successfully, and   *)
(* there are never more claims than the day's allowance has counted        *)
(* (signing-job.ts:70-72, demo-tickets.ts:58).                             *)
ResultsEarned ==
    /\ \A j \in Job : journal[j] # NoRecord /\ journal[j].done =>
        Len(journal[j].steps) = Steps[j] /\ Saved(j) \subseteq Mined \ reverted
    /\ Cardinality({j \in Claim : journal[j] # NoRecord}) <= quota

\* What a step may do to the journal.
Growth ==
    \A j \in Job :
        /\ journal[j] # NoRecord => journal'[j] # NoRecord
        /\ \A k \in DOMAIN journal[j].steps :
            k \in DOMAIN journal'[j].steps /\ journal'[j].steps[k] = journal[j].steps[k]
        /\ journal[j] # NoRecord /\ journal[j].done => journal'[j] = journal[j]

(* The journal only grows: no worker, however late, replaces saved bytes   *)
(* or takes back a result (signing-job.ts:37-41).                          *)
JournalGrows == [][Growth]_journal

(* A job that has signed anything comes to its result: whatever failed, the*)
(* retry of the same action finishes it (signing-job.ts:46-51, 61-66).     *)
(* Only a reverted transaction, of this job or of the job that holds the   *)
(* signer meanwhile, leaves it to the operator (signing-job.ts:67).        *)
Resumes ==
    \A j \in Job : journal[j].steps # <<>> ~> journal[j].done \/ reverted # {}

=============================================================================
