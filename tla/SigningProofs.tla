---------------------------- MODULE SigningProofs ----------------------------
(***************************************************************************)
(* The signing journal for any number of workers, jobs and faults          *)
(* (SigningJob).  The journal, what is sent and what is answered are right *)
(* whatever fails (Journal below); the reservation and the nonces are, if  *)
(* the journal can be read whenever the store answers at all.              *)
(***************************************************************************)
EXTENDS SigningJob, FiniteSetTheorems, TLAPS

\* The transactions that succeeded.
Final == Mined \ reverted

\* A record is right for a job when F are the final transactions: its own
\* transactions, a later one only after those before, a result only of them all.
Good(j, r, F) ==
    /\ Len(r.steps) <= Steps[j]
    /\ \A k \in DOMAIN r.steps : r.steps[k].job = j /\ r.steps[k].step = k /\ (k > 1 => r.steps[k - 1] \in F)
    /\ r # NoRecord /\ r.done => Len(r.steps) = Steps[j] /\ \A k \in DOMAIN r.steps : r.steps[k] \in F

Journaled == \A j \in Job : Good(j, journal[j], Final)

\* The chain mines nonce after nonce, and keeps waiting what it has not mined.
Chain ==
    /\ IsFiniteSet(pool)
    /\ \A k \in DOMAIN mined : mined[k].nonce = k - 1
    /\ \A t \in pool : t.nonce >= Len(mined)
    /\ \A s, t \in pool : s.nonce = t.nonce => s = t

Before == {"idle", "active", "reserve", "load", "initialize"}
Running == {"refresh", "prepare", "saveStep", "receipt", "refreshAgain", "broadcast", "wait",
            "complete", "lastRefresh", "saveResult"}
Sent == {"receipt", "refreshAgain", "broadcast", "wait"}
Done == {"complete", "lastRefresh", "saveResult"}
Leaving == {"release", "unlock"}
Loaded == Running \cup {"initialize", "savePlan"}

\* What a request knows at each of its awaits.
Knows(w) ==
    /\ job[w] = NoJob <=> pc[w] = "idle"
    /\ pc[w] \in Before => mem[w] = NoRecord /\ saved[w] = NoRecord /\ at[w] = 1
    /\ pc[w] \in {"idle", "active", "reserve"} => ~reserved[w]
    /\ pc[w] \in {"load", "initialize", "savePlan"} => reserved[w]
    /\ pc[w] = "savePlan" => mem[w] = NewRecord /\ saved[w] = NoRecord /\ at[w] = 1
    /\ pc[w] \in Running => reserved[w] /\ ~saved[w].done
    /\ pc[w] \in {"refresh", "prepare", "receipt", "refreshAgain", "broadcast", "wait", "complete"} => saved[w] = mem[w]
    /\ pc[w] \in {"lastRefresh", "saveResult"} => mem[w] = [saved[w] EXCEPT !.done = TRUE]
    /\ pc[w] = "saveStep" =>
        /\ Bytes(w) \in Tx /\ Bytes(w).job = job[w] /\ Bytes(w).step = at[w]
        /\ mem[w] = [saved[w] EXCEPT !.steps = Append(@, Bytes(w))]

\* Where a request is in the steps of its job: those before are done.
Progress(w) ==
    pc[w] \in Running =>
        /\ at[w] <= Steps[job[w]]
        /\ at[w] <= Len(saved[w].steps) + 1
        /\ pc[w] \in {"prepare", "saveStep"} => Len(saved[w].steps) = at[w] - 1
        /\ pc[w] \in Sent => at[w] <= Len(saved[w].steps)
        /\ \A k \in 1 .. at[w] - 1 : saved[w].steps[k] \in Final
        /\ pc[w] \in Done =>
            at[w] <= Len(saved[w].steps) /\ at[w] = Steps[job[w]] /\ saved[w].steps[at[w]] \in Final

\* What a request has read or written is in the journal, which may have more.
Behind(w) ==
    pc[w] \in Running =>
        \A k \in DOMAIN saved[w].steps :
            k \in DOMAIN journal[job[w]].steps /\ saved[w].steps[k] = journal[job[w]].steps[k]

\* What holds of the request that has the lease, and of no other.
Holds(w) ==
    lease = w /\ pc[w] # "idle" =>
        /\ reserved[w] /\ pc[w] # "unlock" => active = job[w]
        /\ pc[w] \in Loaded => journal[job[w]] = saved[w]
        /\ pc[w] = "release" /\ MayRelease(w) => Uncertain(job[w]) = {}
        /\ pc[w] = "saveStep" => mem[w].steps[at[w]].nonce = Len(mined)

\* Every plan of a claim took its unit of the allowance before.
Planned == {j \in Claim : journal[j] # NoRecord}
Counted ==
    /\ IsFiniteSet(Planned)
    /\ Cardinality(Planned) <= quota
    /\ \A w \in Worker : lease = w /\ pc[w] = "savePlan" /\ job[w] \in Claim => Cardinality(Planned) < quota

Requests == \A w \in Worker : Knows(w) /\ Progress(w) /\ Behind(w)

\* True whatever fails.
JournalInv == TypeOK /\ Journaled /\ Chain /\ SavedBeforeSent /\ Requests /\ Counted

\* True where the journal can be read.
SignerInv == (\A w \in Worker : Holds(w)) /\ ReservationKept /\ NoncesDistinct

USE SigningAssumption

-----------------------------------------------------------------------------
(* Lemmas about the operators *)

(* A job has one step or two.                                              *)
LEMMA StepsFew == \A j \in Job : Steps[j] \in {1, 2}
BY DEF Steps

(* What appending does to a sequence.                                      *)
LEMMA AppendFacts ==
    ASSUME NEW S, NEW s \in Seq(S), NEW t \in S
    PROVE  /\ Append(s, t) \in Seq(S) /\ Len(Append(s, t)) = Len(s) + 1 /\ Len(s) \in Nat
           /\ \A k \in 1 .. Len(s) : Append(s, t)[k] = s[k]
           /\ Append(s, t)[Len(s) + 1] = t
OBVIOUS

(* The next nonce is a number, and the chain's length when nothing waits.  *)
LEMMA NonceOf ==
    ASSUME Chain, mined \in Seq(Tx)
    PROVE  PendingNonce \in Nat /\ (pool = {} => PendingNonce = Len(mined))
<1>1. IsFiniteSet(Executable)
  BY FS_Subset DEF Chain, Executable
<1>2. Cardinality(Executable) \in Nat
  BY <1>1, FS_CardinalityType
<1>3. pool = {} => Cardinality(Executable) = 0
  BY FS_EmptySet DEF Executable
<1> QED BY <1>2, <1>3 DEF PendingNonce

-----------------------------------------------------------------------------
(* Types *)

WorkerTypes ==
    /\ pc \in [Worker -> PC] /\ job \in [Worker -> Job \cup {NoJob}]
    /\ mem \in [Worker -> Record] /\ saved \in [Worker -> Record]
    /\ reserved \in [Worker -> BOOLEAN] /\ at \in [Worker -> Nat \ {0}]

StoreTypes ==
    /\ lease \in Worker \cup {NoWorker} /\ active \in Job \cup {NoJob}
    /\ journal \in [Job -> Record] /\ quota \in 0 .. MaxQuota

ChainTypes == pool \subseteq Tx /\ mined \in Seq(Tx) /\ reverted \subseteq Mined

LEMMA TypeParts ==
    /\ TypeOK <=> WorkerTypes /\ StoreTypes /\ ChainTypes /\ faults \in 0 .. MaxFaults
    /\ TypeOK' <=> WorkerTypes' /\ StoreTypes' /\ ChainTypes' /\ faults' \in 0 .. MaxFaults
BY DEF TypeOK, WorkerTypes, StoreTypes, ChainTypes

LEMMA SameTypes ==
    /\ WorkerTypes /\ UNCHANGED workerVars => WorkerTypes'
    /\ StoreTypes /\ UNCHANGED storeVars => StoreTypes'
    /\ ChainTypes /\ UNCHANGED chainVars => ChainTypes'
BY DEF WorkerTypes, StoreTypes, ChainTypes, workerVars, storeVars, chainVars, Mined

LEMMA GotoType ==
    ASSUME pc \in [Worker -> PC], NEW w \in Worker, NEW l \in PC, Goto(w, l)
    PROVE  pc' \in [Worker -> PC]
BY DEF Goto

LEMMA GotoAt == ASSUME TypeOK, NEW w \in Worker, NEW l, Goto(w, l) PROVE pc'[w] = l
BY DEF TypeOK, Goto

LEMMA FaultType == ASSUME faults \in 0 .. MaxFaults, Fault \/ UNCHANGED faults PROVE faults' \in 0 .. MaxFaults
BY DEF Fault

(* The constants of the records.                                           *)
LEMMA RecordConstants == NoRecord \in Record /\ NewRecord \in Record
<1>1. <<>> \in Seq(Tx)
  OBVIOUS
<1> QED BY <1>1 DEF NoRecord, NewRecord, Record

(* What the type of a request's copies says.                               *)
LEMMA WorkerFacts ==
    ASSUME TypeOK, NEW w \in Worker
    PROVE  /\ mem[w] \in Record /\ mem[w].steps \in Seq(Tx) /\ mem[w].done \in BOOLEAN
           /\ saved[w] \in Record /\ saved[w].steps \in Seq(Tx) /\ saved[w].done \in BOOLEAN
           /\ at[w] \in Nat \ {0} /\ Len(mem[w].steps) \in Nat /\ Len(saved[w].steps) \in Nat
BY DEF TypeOK, Record

(* The bytes a request is about to send, or has sent, are in the journal.  *)
LEMMA SentFacts ==
    ASSUME TypeOK, Requests, NEW w \in Worker, pc[w] \in Sent
    PROVE  /\ job[w] \in Job /\ saved[w] = mem[w] /\ at[w] \in 1 .. Len(mem[w].steps) /\ at[w] <= Steps[job[w]]
           /\ Bytes(w) \in Tx /\ Bytes(w) \in Saved(job[w])
<1>1. pc[w] # "idle" /\ pc[w] \in Running
  BY DEF Sent, Running
<1>2. job[w] \in Job /\ saved[w] = mem[w]
  BY <1>1 DEF Requests, Knows, TypeOK, Sent
<1>3. at[w] \in 1 .. Len(mem[w].steps) /\ at[w] <= Steps[job[w]]
  <2>1. Progress(w)
    BY DEF Requests
  <2>2. at[w] <= Len(saved[w].steps) /\ at[w] <= Steps[job[w]]
    BY <1>1, <2>1 DEF Progress
  <2> QED BY <1>2, <2>2, WorkerFacts
<1>4. Bytes(w) \in Tx
  BY <1>3, WorkerFacts DEF Bytes
<1>5. Bytes(w) = journal[job[w]].steps[at[w]] /\ at[w] \in DOMAIN journal[job[w]].steps
  <2>1. journal[job[w]].steps \in Seq(Tx)
    BY <1>2 DEF TypeOK, Record
  <2>2. Behind(w)
    BY DEF Requests
  <2>3. \A k \in DOMAIN saved[w].steps :
            k \in DOMAIN journal[job[w]].steps /\ saved[w].steps[k] = journal[job[w]].steps[k]
    BY <1>1, <2>2 DEF Behind
  <2>4. at[w] \in DOMAIN saved[w].steps
    BY <1>2, <1>3, WorkerFacts
  <2> QED BY <1>2, <1>3, <2>1, <2>3, <2>4, WorkerFacts DEF Bytes
<1> QED BY <1>2, <1>3, <1>4, <1>5 DEF Saved

LEMMA InitType == Init => TypeOK
<1>1. <<>> \in Seq(Tx) /\ Mined = Mined
  OBVIOUS
<1> QED BY <1>1, RecordConstants DEF Init, TypeOK, PC

LEMMA SaveType ==
    ASSUME TypeOK, NEW w \in Worker, NEW next \in PC, Save(w, next)
    PROVE  TypeOK'
<1>1. pc' \in [Worker -> PC]
  <2>1. Goto(w, next) \/ Goto(w, "release")
    BY DEF Save
  <2>2. "release" \in PC
    BY DEF PC
  <2> QED BY <2>1, <2>2, GotoType DEF TypeOK
<1>2. journal' \in [Job -> Record] /\ saved' \in [Worker -> Record]
  BY DEF TypeOK, Save
<1>3. ChainTypes' /\ faults' \in 0 .. MaxFaults
  BY TypeParts, SameTypes DEF Save
<1>4. WorkerTypes'
  BY <1>1, <1>2, TypeParts DEF Save, WorkerTypes
<1>5. StoreTypes'
  BY <1>2, TypeParts DEF Save, StoreTypes
<1> QED BY <1>3, <1>4, <1>5, TypeParts

LEMMA ForgetType == ASSUME WorkerTypes, NEW w \in Worker, Forget(w) PROVE WorkerTypes'
<1> USE DEF WorkerTypes, Forget
<1>1. reserved' \in [Worker -> BOOLEAN]
  OBVIOUS
<1>2. pc' \in [Worker -> PC]
  BY GotoType DEF PC
<1>3. job' \in [Worker -> Job \cup {NoJob}]
  OBVIOUS
<1>4. at' \in [Worker -> Nat \ {0}]
  OBVIOUS
<1>5. mem' \in [Worker -> Record] /\ saved' \in [Worker -> Record]
  BY RecordConstants
<1> QED BY <1>1, <1>2, <1>3, <1>4, <1>5

LEMMA ThrowType == ASSUME WorkerTypes, NEW w \in Worker, Throw(w) PROVE WorkerTypes'
<1>1. CASE Forget(w)
  BY <1>1, ForgetType
<1>2. CASE Goto(w, "release") /\ UNCHANGED <<job, mem, saved, reserved, at>>
  BY <1>2, GotoType DEF WorkerTypes, PC
<1> QED BY <1>1, <1>2 DEF Throw

LEMMA PrepareType == ASSUME TypeOK, Chain, NEW w \in Worker, job[w] \in Job, Prepare(w) PROVE WorkerTypes'
<1>1. NextTx(w) \in Tx
  BY NonceOf DEF TypeOK, NextTx, Tx
<1>2. Append(mem[w].steps, NextTx(w)) \in Seq(Tx)
  BY <1>1 DEF TypeOK, Record
<1>3. mem' \in [Worker -> Record]
  <2>1. [mem[w] EXCEPT !.steps = Append(mem[w].steps, NextTx(w))] \in Record
    <3>1. mem[w] \in Record
      BY DEF TypeOK
    <3> QED BY <1>2, <3>1 DEF Record
  <2>2. mem' = [mem EXCEPT ![w] = [mem[w] EXCEPT !.steps = Append(mem[w].steps, NextTx(w))]]
    BY DEF Prepare, TypeOK
  <2> QED BY <2>1, <2>2 DEF TypeOK
<1>4. pc' \in [Worker -> PC]
  BY GotoType, TypeParts DEF WorkerTypes, Prepare, PC
<1> QED BY <1>3, <1>4, TypeParts DEF WorkerTypes, Prepare

LEMMA ReceiptType == ASSUME WorkerTypes, NEW w \in Worker, Receipt(w), UNCHANGED <<job, mem, saved, reserved>> PROVE WorkerTypes'
<1>1. pc' \in [Worker -> PC]
  BY GotoType DEF WorkerTypes, Receipt, PC
<1>2. at' \in [Worker -> Nat \ {0}]
  BY DEF WorkerTypes, Receipt
<1> QED BY <1>1, <1>2 DEF WorkerTypes

LEMMA LostReplyType == ASSUME TypeOK, NEW w \in Worker, job[w] \in Job \/ pc[w] = "idle", ReplyLost(w) PROVE TypeOK'
<1>1. WorkerTypes'
  BY ThrowType, TypeParts, SameTypes DEF ReplyLost
<1>2. faults' \in 0 .. MaxFaults
  BY FaultType, TypeParts DEF ReplyLost
<1>3. ChainTypes'
  BY TypeParts, SameTypes DEF ReplyLost
<1>4. StoreTypes'
  <2>1. lease' \in Worker \cup {NoWorker} /\ active' \in Job \cup {NoJob}
    BY DEF ReplyLost, TypeOK
  <2>2. journal' \in [Job -> Record]
    BY DEF ReplyLost, TypeOK
  <2>3. quota' \in 0 .. MaxQuota
    <3>1. quota \in 0 .. MaxQuota
      BY DEF TypeOK
    <3>2. quota' = quota \/ (quota < MaxQuota /\ quota' = quota + 1)
      BY DEF ReplyLost
    <3> QED BY <3>1, <3>2
  <2> QED BY <2>1, <2>2, <2>3 DEF StoreTypes
<1> QED BY <1>1, <1>2, <1>3, <1>4, TypeParts

LEMMA InitializeType == ASSUME TypeOK, NEW w \in Worker, Initialize(w) PROVE TypeOK'
<1>1. pc' \in [Worker -> PC]
  <2>1. Goto(w, "savePlan") \/ Goto(w, "release")
    BY DEF Initialize
  <2> QED BY <2>1, GotoType DEF TypeOK, PC
<1>2. mem' \in [Worker -> Record]
  <2>1. mem' = mem \/ mem' = [mem EXCEPT ![w] = NewRecord]
    BY DEF Initialize
  <2> QED BY <2>1, RecordConstants DEF TypeOK
<1>3. WorkerTypes'
  BY <1>1, <1>2, TypeParts DEF WorkerTypes, Initialize
<1>4. quota' \in 0 .. MaxQuota
  <2>1. quota \in 0 .. MaxQuota
    BY DEF TypeOK
  <2>2. quota' = quota \/ (quota < MaxQuota /\ quota' = quota + 1)
    BY DEF Initialize
  <2> QED BY <2>1, <2>2
<1> QED BY <1>3, <1>4, TypeParts, SameTypes DEF Initialize, StoreTypes

LEMMA RefreshType ==
    ASSUME TypeOK, NEW w \in Worker, NEW l, NEW next \in PC, RefreshAt(w, l, next)
    PROVE  TypeOK'
<1>1. pc' \in [Worker -> PC]
  <2>1. Goto(w, next) \/ Goto(w, "release")
    BY DEF RefreshAt
  <2>2. "release" \in PC /\ pc \in [Worker -> PC]
    BY DEF TypeOK, PC
  <2> QED BY <2>1, <2>2, GotoType
<1> QED BY <1>1, TypeParts, SameTypes DEF RefreshAt, WorkerTypes

(* Every step keeps the types.                                             *)
LEMMA TypeStep == TypeOK /\ Chain /\ Requests /\ [Next]_vars => TypeOK'
<1> SUFFICES ASSUME TypeOK, Chain, Requests, [Next]_vars PROVE TypeOK'
  OBVIOUS
<1>1. CASE UNCHANGED vars
  BY <1>1, TypeParts, SameTypes DEF vars
<1>2. CASE Expire
  BY <1>2, TypeParts, SameTypes, FaultType DEF Expire, StoreTypes
<1>3. ASSUME NEW t \in pool, Mine(t) \/ Drop(t) PROVE TypeOK'
  <2>1. WorkerTypes' /\ StoreTypes'
    BY <1>3, TypeParts, SameTypes DEF Mine, Drop
  <2>2. faults' \in 0 .. MaxFaults
    BY <1>3, TypeParts, FaultType DEF Mine, Drop
  <2>3. CASE Drop(t)
    BY <2>1, <2>2, <2>3, TypeParts DEF Drop, ChainTypes, Mined
  <2>4. CASE Mine(t)
    <3>1. t \in Tx /\ mined \in Seq(Tx)
      BY DEF TypeOK
    <3>2. mined' = Append(mined, t) /\ mined' \in Seq(Tx)
      BY <2>4, <3>1 DEF Mine
    <3>3. Mined' = Mined \cup {t}
      BY <3>1, <3>2 DEF Mined
    <3> QED BY <2>1, <2>2, <2>4, <3>2, <3>3, TypeParts DEF Mine, ChainTypes
  <2> QED BY <1>3, <2>3, <2>4
<1>4. ASSUME NEW w \in Worker, NEW j \in Job, Begin(w, j) PROVE TypeOK'
  <2>1. pc' \in [Worker -> PC]
    BY <1>4, TypeParts, GotoType DEF Begin, WorkerTypes, PC
  <2> QED BY <1>4, <2>1, TypeParts, SameTypes DEF Begin, WorkerTypes, StoreTypes
<1>5. ASSUME NEW w \in Worker, Environment(w) PROVE TypeOK'
  <2>1. CASE CallFails(w)
    BY <2>1, TypeParts, SameTypes, ThrowType, FaultType DEF CallFails
  <2>2. CASE Crash(w)
    BY <2>2, TypeParts, SameTypes, ForgetType, FaultType DEF Crash
  <2>3. CASE ReplyLost(w)
    BY <2>3, LostReplyType DEF Requests, Knows, TypeOK
  <2> QED BY <1>5, <2>1, <2>2, <2>3 DEF Environment
<1>6. ASSUME NEW w \in Worker, Run(w) PROVE TypeOK'
  <2>0. pc[w] # "idle" => job[w] \in Job
    BY DEF Requests, Knows, TypeOK
  <2>1. CASE ReadActive(w)
    <3>1. reserved' \in [Worker -> BOOLEAN]
      BY <2>1 DEF ReadActive, TypeOK
    <3>2. pc' \in [Worker -> PC]
      BY <2>1, TypeParts, GotoType DEF ReadActive, WorkerTypes, PC
    <3> QED BY <2>1, <3>1, <3>2, TypeParts, SameTypes DEF ReadActive, WorkerTypes
  <2>2. CASE Reserve(w)
    <3>1. reserved' \in [Worker -> BOOLEAN]
      BY <2>2 DEF Reserve, TypeOK
    <3>2. pc' \in [Worker -> PC]
      BY <2>2, TypeParts, GotoType DEF Reserve, WorkerTypes, PC
    <3>3. active' \in Job \cup {NoJob}
      BY <2>0, <2>2 DEF Reserve, TypeOK
    <3> QED BY <2>2, <3>1, <3>2, <3>3, TypeParts, SameTypes DEF Reserve, WorkerTypes, StoreTypes
  <2>3. CASE Load(w)
    <3>1. pc' \in [Worker -> PC]
      BY <2>3, TypeParts, GotoType DEF Load, WorkerTypes, PC
    <3>2. saved' \in [Worker -> Record] /\ mem' \in [Worker -> Record]
      BY <2>0, <2>3 DEF Load, TypeOK
    <3> QED BY <2>3, <3>1, <3>2, TypeParts, SameTypes DEF Load, WorkerTypes
  <2>4. CASE Initialize(w)
    BY <2>4, InitializeType
  <2>5. CASE SavePlan(w) \/ SaveStep(w) \/ SaveResult(w)
    BY <2>5, SaveType DEF SavePlan, SaveStep, SaveResult, PC
  <2>6. CASE Refresh(w) \/ RefreshAgain(w) \/ LastRefresh(w)
    BY <2>6, RefreshType DEF Refresh, RefreshAgain, LastRefresh, PC
  <2>7. CASE Prepare(w)
    BY <2>0, <2>7, PrepareType, TypeParts, SameTypes DEF Prepare
  <2>8. CASE ReadReceipt(w)
    <3>1. WorkerTypes'
      <4>1. CASE Receipt(w)
        BY <2>8, <4>1, ReceiptType, TypeParts DEF ReadReceipt
      <4>2. CASE Goto(w, "refreshAgain") /\ UNCHANGED at
        BY <2>8, <4>2, TypeParts, GotoType DEF ReadReceipt, WorkerTypes, PC
      <4> QED BY <2>8, <4>1, <4>2 DEF ReadReceipt
    <3>2. faults' \in 0 .. MaxFaults
      BY <2>8, TypeParts, FaultType DEF ReadReceipt
    <3> QED BY <2>8, <3>1, <3>2, TypeParts, SameTypes DEF ReadReceipt
  <2>9. CASE Broadcast(w)
    <3>1. pc' \in [Worker -> PC]
      BY <2>9, TypeParts, GotoType DEF Broadcast, WorkerTypes, PC
    <3>2. faults' \in 0 .. MaxFaults
      BY <2>9, TypeParts, FaultType DEF Broadcast
    <3>3. Bytes(w) \in Tx
      BY <2>9, SentFacts DEF Broadcast, Sent
    <3>4. ChainTypes'
      BY <2>9, <3>3, TypeParts DEF Broadcast, ChainTypes, Mined
    <3> QED BY <2>9, <3>1, <3>2, <3>4, TypeParts, SameTypes DEF Broadcast, WorkerTypes
  <2>10. CASE Wait(w)
    <3>1. WorkerTypes'
      <4>1. CASE Receipt(w)
        BY <2>10, <4>1, ReceiptType, TypeParts DEF Wait
      <4>2. CASE Goto(w, "release") /\ UNCHANGED at
        BY <2>10, <4>2, TypeParts, GotoType DEF Wait, WorkerTypes, PC
      <4> QED BY <2>10, <4>1, <4>2 DEF Wait
    <3>2. faults' \in 0 .. MaxFaults
      BY <2>10, TypeParts, FaultType DEF Wait
    <3> QED BY <2>10, <3>1, <3>2, TypeParts, SameTypes DEF Wait
  <2>11. CASE Complete(w)
    <3>1. pc' \in [Worker -> PC]
      BY <2>11, TypeParts, GotoType DEF Complete, WorkerTypes, PC
    <3>2. mem' \in [Worker -> Record]
      BY <2>11 DEF Complete, TypeOK, Record
    <3> QED BY <2>11, <3>1, <3>2, TypeParts, SameTypes DEF Complete, WorkerTypes
  <2>12. CASE Release(w)
    <3>1. pc' \in [Worker -> PC]
      BY <2>12, TypeParts, GotoType DEF Release, WorkerTypes, PC
    <3> QED BY <2>12, <3>1, TypeParts, SameTypes DEF Release, WorkerTypes, StoreTypes
  <2>13. CASE Unlock(w)
    BY <2>13, ForgetType, TypeParts, SameTypes DEF Unlock, StoreTypes
  <2> QED BY <1>6, <2>1, <2>2, <2>3, <2>4, <2>5, <2>6, <2>7, <2>8, <2>9, <2>10, <2>11, <2>12, <2>13 DEF Run
<1> QED BY <1>1, <1>2, <1>3, <1>4, <1>5, <1>6 DEF Next

-----------------------------------------------------------------------------
(* The journal *)

(* What is final stays final.                                              *)
LEMMA FinalGrows == ASSUME TypeOK, Chain, [Next]_vars PROVE Mined \subseteq Mined' /\ Final \subseteq Final'
<1>1. CASE UNCHANGED <<mined, reverted>>
  BY <1>1 DEF Mined, Final
<1>2. CASE \E t \in pool : Mine(t)
  <2>1. PICK t \in pool : Mine(t)
    BY <1>2
  <2>2. t \in Tx /\ mined \in Seq(Tx) /\ mined' = Append(mined, t) /\ reverted' \subseteq reverted \cup {t}
    BY <2>1 DEF TypeOK, Mine
  <2>3. t \notin Mined
    BY <2>1, <2>2 DEF Mined, Chain
  <2>4. Mined' = Mined \cup {t}
    BY <2>2 DEF Mined
  <2> QED BY <2>2, <2>3, <2>4 DEF Final
<1>3. UNCHANGED <<mined, reverted>> \/ \E t \in pool : Mine(t)
  BY DEF Next, vars, chainVars, Begin, Run, Environment, Expire, Drop, ReadActive, Reserve, Load, Initialize,
         SavePlan, SaveStep, SaveResult, Save, Refresh, RefreshAgain, LastRefresh, RefreshAt, Prepare, ReadReceipt,
         Broadcast, Wait, Complete, Release, Unlock, CallFails, ReplyLost, Crash
<1> QED BY <1>1, <1>2, <1>3

LEMMA GoodMore ==
    ASSUME NEW j, NEW r, NEW F, NEW G, Good(j, r, F), F \subseteq G
    PROVE  Good(j, r, G)
BY DEF Good

\* A request saves its copy in the journal.
Saves(w) ==
    /\ pc[w] \in {"savePlan", "saveStep", "saveResult"}
    /\ journal[job[w]] = saved[w]
    /\ journal' = [journal EXCEPT ![job[w]] = mem[w]]
    /\ pc'[w] # pc[w]

(* A step leaves the journal alone, or one request saves.                  *)
LEMMA WhoSaves ==
    ASSUME TypeOK, [Next]_vars
    PROVE  UNCHANGED journal \/ \E w \in Worker : lease = w /\ Saves(w)
<1>1. ASSUME NEW w \in Worker, Run(w) PROVE UNCHANGED journal \/ (lease = w /\ Saves(w))
  BY <1>1, GotoAt DEF Saves, Run, storeVars, ReadActive, Reserve, Load, Initialize, SavePlan, SaveStep, SaveResult, Save,
       Refresh, RefreshAgain, LastRefresh, RefreshAt, Prepare, ReadReceipt, Broadcast, Wait, Complete, Release, Unlock
<1>2. ASSUME NEW w \in Worker, Environment(w) PROVE UNCHANGED journal \/ (lease = w /\ Saves(w))
  <2>1. Throw(w) => pc'[w] \in {"idle", "release"}
    BY GotoAt DEF Throw, Forget
  <2> QED BY <1>2, <2>1 DEF Saves, Environment, CallFails, ReplyLost, Crash, storeVars
<1>3. (\E w \in Worker, j \in Job : Begin(w, j)) \/ Expire \/ UNCHANGED vars \/ (\E t \in pool : Mine(t) \/ Drop(t))
      => UNCHANGED journal
  BY DEF Begin, Expire, Mine, Drop, vars, storeVars
<1> QED BY <1>1, <1>2, <1>3 DEF Next

(* What a request saves is right, and more than what it replaces.          *)
LEMMA SaveGood ==
    ASSUME TypeOK, Journaled, Requests, NEW w \in Worker, Saves(w)
    PROVE  /\ job[w] \in Job /\ Good(job[w], mem[w], Final) /\ mem[w] # NoRecord
           /\ Len(saved[w].steps) <= Len(mem[w].steps)
           /\ \A k \in DOMAIN saved[w].steps : k \in DOMAIN mem[w].steps /\ mem[w].steps[k] = saved[w].steps[k]
           /\ saved[w] # NoRecord => ~saved[w].done
<1> DEFINE j == job[w]
<1>1. j \in Job /\ Knows(w) /\ Progress(w)
  BY DEF Requests, Knows, Saves, TypeOK
<1>2. Good(j, saved[w], Final) /\ Steps[j] \in {1, 2}
  BY <1>1, StepsFew DEF Journaled, Saves
<1>3. CASE pc[w] = "savePlan"
  <2>1. mem[w] = NewRecord /\ saved[w] = NoRecord
    BY <1>1, <1>3 DEF Knows
  <2> QED BY <1>1, <1>2, <2>1 DEF NewRecord, NoRecord, Good
<1>4. CASE pc[w] = "saveStep"
  <2> DEFINE t == Bytes(w)
  <2>1. ~saved[w].done /\ t \in Tx /\ t.job = j /\ t.step = at[w] /\ mem[w] = [saved[w] EXCEPT !.steps = Append(@, t)]
    BY <1>1, <1>4 DEF Knows, Running
  <2>2. /\ at[w] <= Steps[j] /\ Len(saved[w].steps) = at[w] - 1
        /\ \A k \in 1 .. at[w] - 1 : saved[w].steps[k] \in Final
    <3>1. pc[w] \in Running
      BY <1>4 DEF Running
    <3> QED BY <1>1, <1>4, <3>1, WorkerFacts DEF Progress
  <2>3. mem[w].steps = Append(saved[w].steps, t) /\ mem[w].done = saved[w].done
    BY <2>1, WorkerFacts DEF Record
  <2> DEFINE s == saved[w].steps
             m == mem[w].steps
  <2>4. s \in Seq(Tx) /\ Len(s) = at[w] - 1 /\ m = Append(s, t) /\ at[w] \in Nat \ {0}
    BY <2>2, <2>3, WorkerFacts
  <2>5. Len(m) = at[w] /\ m[at[w]] = t /\ DOMAIN m = 1 .. at[w] /\ \A k \in 1 .. at[w] - 1 : m[k] = s[k]
    <3> HIDE DEF s, m, t
    <3>1. t \in Tx
      BY <2>1
    <3> QED BY <3>1, <2>4
  <2>6. \A k \in DOMAIN m : m[k].job = j /\ m[k].step = k /\ (k > 1 => m[k - 1] \in Final)
    <3> SUFFICES ASSUME NEW k \in 1 .. at[w] PROVE m[k].job = j /\ m[k].step = k /\ (k > 1 => m[k - 1] \in Final)
      BY <2>5
    <3>1. k > 1 => m[k - 1] \in Final
      BY <2>2, <2>4, <2>5
    <3>2. CASE k = at[w]
      BY <2>1, <2>5, <3>1, <3>2
    <3>3. CASE k # at[w]
      <4>1. k \in DOMAIN s /\ m[k] = s[k]
        BY <2>4, <2>5, <3>3
      <4> QED BY <1>2, <3>1, <4>1 DEF Good
    <3> QED BY <3>2, <3>3
  <2>7. Good(j, mem[w], Final)
    BY <2>1, <2>2, <2>3, <2>5, <2>6 DEF Good
  <2>8. mem[w] # NoRecord
    BY <2>5, <2>4 DEF NoRecord
  <2> QED BY <1>1, <2>1, <2>4, <2>5, <2>7, <2>8
<1>5. CASE pc[w] = "saveResult"
  <2>1. ~saved[w].done /\ mem[w] = [saved[w] EXCEPT !.done = TRUE]
    BY <1>1, <1>5 DEF Knows, Running
  <2>2. /\ at[w] <= Len(saved[w].steps) /\ at[w] = Steps[j] /\ saved[w].steps[at[w]] \in Final
        /\ \A k \in 1 .. at[w] - 1 : saved[w].steps[k] \in Final
    <3>1. pc[w] \in Running /\ pc[w] \in Done
      BY <1>5 DEF Running, Done
    <3> QED BY <1>1, <3>1, WorkerFacts DEF Progress
  <2>3. mem[w].steps = saved[w].steps /\ mem[w].done
    BY <2>1, WorkerFacts DEF Record
  <2> QED BY <1>1, <1>2, <2>1, <2>2, <2>3, WorkerFacts DEF Good, NoRecord
<1> QED BY <1>3, <1>4, <1>5 DEF Saves

LEMMA GrowthStep == ASSUME TypeOK, Journaled, Requests, [Next]_vars PROVE Growth
<1>1. CASE UNCHANGED journal
  BY <1>1 DEF Growth
<1>2. ASSUME NEW w \in Worker, Saves(w) PROVE Growth
  BY <1>2, SaveGood DEF Growth, Saves, TypeOK
<1> QED BY <1>1, <1>2, WhoSaves

LEMMA JournaledStep == ASSUME TypeOK, Journaled, Chain, Requests, [Next]_vars PROVE Journaled'
<1>1. Final \subseteq Final'
  BY FinalGrows
<1> SUFFICES ASSUME NEW j \in Job PROVE Good(j, journal'[j], Final')
  BY DEF Journaled
<1>2. CASE journal'[j] = journal[j]
  BY <1>1, <1>2, GoodMore DEF Journaled
<1>3. ASSUME NEW w \in Worker, Saves(w), j = job[w] PROVE Good(j, journal'[j], Final')
  <2>1. Good(j, mem[w], Final) /\ journal'[j] = mem[w]
    BY <1>3, SaveGood DEF Saves, TypeOK
  <2> QED BY <1>1, <2>1, GoodMore
<1> QED BY <1>2, <1>3, WhoSaves DEF Saves, TypeOK

-----------------------------------------------------------------------------
(* What is sent *)

\* A worker's bytes join the transactions that wait.
Sends(w) == pc[w] = "broadcast" /\ Accepted(w) /\ pool' = pool \cup {Bytes(w)} /\ UNCHANGED <<mined, reverted>>

LEMMA WhoSends ==
    ASSUME [Next]_vars
    PROVE  UNCHANGED <<pool, mined, reverted>> \/ (\E w \in Worker : Sends(w)) \/ \E t \in pool : Mine(t) \/ Drop(t)
<1>1. ASSUME NEW w \in Worker, Run(w) PROVE UNCHANGED <<pool, mined, reverted>> \/ Sends(w)
  <2>1. CASE Broadcast(w)
    BY <2>1 DEF Broadcast, Sends
  <2>2. CASE ~Broadcast(w)
    BY <1>1, <2>2 DEF Run, chainVars, ReadActive, Reserve, Load, Initialize, SavePlan, SaveStep, SaveResult, Save,
         Refresh, RefreshAgain, LastRefresh, RefreshAt, Prepare, ReadReceipt, Wait, Complete, Release, Unlock
  <2> QED BY <2>1, <2>2
<1>2. ASSUME NEW w \in Worker, Environment(w) \/ \E j \in Job : Begin(w, j) PROVE UNCHANGED <<pool, mined, reverted>>
  BY <1>2 DEF Environment, CallFails, ReplyLost, Crash, Begin, chainVars
<1>3. Expire \/ UNCHANGED vars => UNCHANGED <<pool, mined, reverted>>
  BY DEF Expire, vars, chainVars
<1> QED BY <1>1, <1>2, <1>3 DEF Next

LEMMA ChainStep == ASSUME TypeOK, Chain, Requests, [Next]_vars PROVE Chain'
<1>1. CASE UNCHANGED <<pool, mined, reverted>>
  BY <1>1 DEF Chain
<1>2. ASSUME NEW w \in Worker, Sends(w) PROVE Chain'
  <2>1. IsFiniteSet(pool')
    BY <1>2, FS_AddElement DEF Sends, Chain
  <2> QED BY <1>2, <2>1 DEF Sends, Chain, Accepted
<1>3. ASSUME NEW t \in pool, Drop(t) PROVE Chain'
  <2>1. IsFiniteSet(pool')
    BY <1>3, FS_RemoveElement DEF Drop, Chain
  <2> QED BY <1>3, <2>1 DEF Drop, Chain
<1>4. ASSUME NEW t \in pool, Mine(t) PROVE Chain'
  <2>1. IsFiniteSet(pool')
    BY <1>4, FS_RemoveElement DEF Mine, Chain
  <2>2. t \in Tx /\ t.nonce = Len(mined) /\ mined \in Seq(Tx) /\ mined' = Append(mined, t) /\ pool' = pool \ {t}
    BY <1>4 DEF Mine, TypeOK
  <2>3. \A k \in DOMAIN mined' : mined'[k].nonce = k - 1
    BY <2>2 DEF Chain
  <2>4. \A s \in pool' : s \in Tx /\ s.nonce >= Len(mined) /\ s.nonce # Len(mined)
    BY <2>2 DEF Chain, TypeOK
  <2>5. \A s \in pool' : s.nonce >= Len(mined')
    BY <2>2, <2>4 DEF Tx
  <2> QED BY <2>1, <2>2, <2>3, <2>5 DEF Chain
<1> QED BY <1>1, <1>2, <1>3, <1>4, WhoSends

LEMMA SentStep ==
    ASSUME TypeOK, Journaled, Requests, SavedBeforeSent, [Next]_vars
    PROVE  SavedBeforeSent'
<1>1. \A j \in Job : Saved(j) \subseteq Saved(j)'
  BY GrowthStep DEF Growth, Saved
<1>2. \A t \in pool' \cup Mined' : t \in pool \cup Mined \/ \E w \in Worker : pc[w] = "broadcast" /\ t = Bytes(w)
  <2>1. CASE UNCHANGED <<pool, mined, reverted>>
    BY <2>1 DEF Mined
  <2>2. ASSUME NEW w \in Worker, Sends(w) PROVE \A t \in pool' \cup Mined' : t \in pool \cup Mined \/ t = Bytes(w)
    BY <2>2 DEF Sends, Mined
  <2>3. ASSUME NEW t \in pool, Mine(t) \/ Drop(t) PROVE pool' \cup Mined' \subseteq pool \cup Mined
    <3>1. CASE Drop(t)
      BY <3>1 DEF Drop, Mined
    <3>2. CASE Mine(t)
      <4>1. t \in Tx /\ mined \in Seq(Tx) /\ mined' = Append(mined, t) /\ pool' \subseteq pool
        BY <3>2 DEF Mine, TypeOK
      <4> QED BY <4>1 DEF Mined
    <3> QED BY <2>3, <3>1, <3>2
  <2> QED BY <2>1, <2>2, <2>3, WhoSends DEF Sends
<1>3. \A w \in Worker : pc[w] = "broadcast" => Bytes(w) \in Saved(job[w]) /\ job[w] \in Job /\ Bytes(w).job = job[w]
  <2> SUFFICES ASSUME NEW w \in Worker, pc[w] = "broadcast"
               PROVE Bytes(w) \in Saved(job[w]) /\ job[w] \in Job /\ Bytes(w).job = job[w]
    OBVIOUS
  <2>1. Bytes(w) \in Saved(job[w]) /\ job[w] \in Job
    BY SentFacts DEF Sent
  <2>2. Good(job[w], journal[job[w]], Final)
    BY <2>1 DEF Journaled
  <2> QED BY <2>1, <2>2 DEF Saved, Good
<1>4. \A t \in pool \cup Mined : t.job \in Job /\ t \in Saved(t.job)
  <2>1. pool \cup Mined \subseteq Tx
    BY DEF TypeOK, Mined
  <2> QED BY <2>1 DEF SavedBeforeSent, Tx
<1> QED BY <1>1, <1>2, <1>3, <1>4 DEF SavedBeforeSent

-----------------------------------------------------------------------------
(* The requests *)

Unmoved(w) ==
    /\ pc'[w] = pc[w] /\ job'[w] = job[w] /\ mem'[w] = mem[w] /\ saved'[w] = saved[w]
    /\ reserved'[w] = reserved[w] /\ at'[w] = at[w]

Moves(w) == (\E j \in Job : Begin(w, j)) \/ Run(w) \/ Environment(w)

(* A request is moved by its own steps only.                               *)
LEMMA WhoMoves == ASSUME TypeOK, [Next]_vars, NEW v \in Worker PROVE Unmoved(v) \/ Moves(v)
<1>1. ASSUME NEW w \in Worker, v # w, Run(w) PROVE Unmoved(v)
  <2>1. CASE ReadActive(w) \/ Reserve(w) \/ Initialize(w) \/ Broadcast(w) \/ Release(w) \/ Complete(w) \/ Prepare(w)
    BY <1>1, <2>1 DEF TypeOK, Unmoved, Goto, ReadActive, Reserve, Initialize, Broadcast, Release, Complete, Prepare
  <2>2. CASE Load(w) \/ Refresh(w) \/ RefreshAgain(w) \/ LastRefresh(w) \/ Unlock(w)
    BY <1>1, <2>2 DEF TypeOK, Unmoved, Goto, Load, Refresh, RefreshAgain, LastRefresh, RefreshAt, Unlock, Forget
  <2>3. CASE SavePlan(w) \/ SaveStep(w) \/ SaveResult(w)
    BY <1>1, <2>3 DEF TypeOK, Unmoved, Goto, SavePlan, SaveStep, SaveResult, Save
  <2>4. CASE ReadReceipt(w) \/ Wait(w)
    BY <1>1, <2>4 DEF TypeOK, Unmoved, Goto, ReadReceipt, Wait, Receipt
  <2> QED BY <1>1, <2>1, <2>2, <2>3, <2>4 DEF Run
<1>2. ASSUME NEW w \in Worker, v # w, Environment(w) \/ \E j \in Job : Begin(w, j) PROVE Unmoved(v)
  BY <1>2 DEF TypeOK, Unmoved, Goto, Environment, CallFails, ReplyLost, Crash, Begin, Throw, Forget, workerVars
<1>3. Expire \/ UNCHANGED vars \/ (\E t \in pool : Mine(t) \/ Drop(t)) => Unmoved(v)
  BY DEF Expire, vars, workerVars, Mine, Drop, Unmoved
<1> QED BY <1>1, <1>2, <1>3 DEF Next, Moves

LEMMA UnmovedKept ==
    ASSUME TypeOK, NEW w \in Worker, Unmoved(w), Growth, Final \subseteq Final', Knows(w), Progress(w), Behind(w)
    PROVE  Knows(w)' /\ Progress(w)' /\ Behind(w)'
<1>1. Knows(w)'
  BY DEF Knows, Unmoved, Bytes
<1>2. Progress(w)'
  BY DEF Progress, Unmoved
<1>3. Behind(w)'
  <2>1. pc[w] # "idle" => job[w] \in Job
    BY DEF Knows, TypeOK
  <2> SUFFICES ASSUME pc[w] \in Running, NEW k \in DOMAIN saved[w].steps
               PROVE k \in DOMAIN journal'[job[w]].steps /\ saved[w].steps[k] = journal'[job[w]].steps[k]
    BY DEF Behind, Unmoved
  <2>2. k \in DOMAIN journal[job[w]].steps /\ saved[w].steps[k] = journal[job[w]].steps[k] /\ job[w] \in Job
    BY <2>1 DEF Behind, Running
  <2> QED BY <2>2 DEF Growth
<1> QED BY <1>1, <1>2, <1>3

RequestOf(w) == Knows(w) /\ Progress(w) /\ Behind(w)

LEMMA OutsideKept == ASSUME NEW w \in Worker, pc'[w] \notin Running, Knows(w)' PROVE RequestOf(w)'
BY DEF RequestOf, Progress, Behind

(* What a request in the middle of its steps has to know.                  *)
LEMMA RunningKnows ==
    ASSUME NEW w \in Worker, job'[w] \in Job, reserved'[w], saved'[w] = mem'[w], ~saved'[w].done,
           pc'[w] \in {"refresh", "prepare", "receipt", "refreshAgain", "broadcast", "wait", "complete"}
    PROVE  Knows(w)'
<1>1. job'[w] # NoJob /\ pc'[w] \in Running
  BY DEF Running
<1>2. pc'[w] \in Running => reserved'[w] /\ ~saved'[w].done
  OBVIOUS
<1>3. pc'[w] \notin {"idle", "active", "reserve", "load", "initialize", "savePlan", "saveStep", "lastRefresh", "saveResult"}
  OBVIOUS
<1> QED BY <1>1, <1>2, <1>3 DEF Knows, Before

(* The first steps of a request.                                           *)
LEMMA BeginRequest ==
    ASSUME TypeOK, NEW w \in Worker, RequestOf(w),
           (\E j \in Job : Begin(w, j)) \/ ReadActive(w) \/ Reserve(w) \/ Initialize(w)
    PROVE  RequestOf(w)'
<1>1. CASE \E j \in Job : Begin(w, j)
  <2>1. PICK j \in Job : Begin(w, j)
    BY <1>1
  <2>2. pc'[w] = "active" /\ job'[w] = j /\ UNCHANGED <<mem, saved, reserved, at>> /\ pc[w] = "idle"
    BY <2>1, GotoAt DEF Begin, TypeOK
  <2>3. Knows(w)'
    BY <2>2 DEF RequestOf, Knows, Before, Running, Sent, Done
  <2> QED BY <2>2, <2>3, OutsideKept DEF Running
<1>2. CASE ReadActive(w) \/ Reserve(w)
  <2>1. /\ pc[w] \in {"active", "reserve"} /\ UNCHANGED <<job, mem, saved, at>>
        /\ \/ pc'[w] \in {"release", "reserve"} /\ reserved' = reserved
           \/ pc'[w] = "load" /\ reserved'[w] = TRUE
    BY <1>2, GotoAt DEF ReadActive, Reserve, TypeOK
  <2>2. /\ job[w] # NoJob /\ at[w] = 1 /\ mem[w] = NoRecord /\ saved[w] = NoRecord /\ ~reserved[w]
    BY <2>1 DEF RequestOf, Knows, Before
  <2>3. ASSUME pc'[w] = "load" PROVE Knows(w)'
    BY <2>1, <2>2, <2>3 DEF Knows, Before, Running, Sent, Done
  <2>4. ASSUME pc'[w] \in {"release", "reserve"} PROVE Knows(w)'
    <3>1. ~reserved'[w]
      BY <2>1, <2>2, <2>4
    <3> QED BY <2>1, <2>2, <2>4, <3>1 DEF Knows, Before, Running, Sent, Done
  <2>5. Knows(w)'
    BY <2>1, <2>3, <2>4 DEF RequestOf
  <2> QED BY <2>1, <2>5, OutsideKept DEF Running
<1>3. CASE Initialize(w)
  <2>1. /\ pc[w] = "initialize" /\ UNCHANGED <<job, saved, reserved, at>>
        /\ \/ Goto(w, "release")
           \/ Goto(w, "savePlan") /\ mem' = [mem EXCEPT ![w] = NewRecord]
    BY <1>3 DEF Initialize
  <2>2. ASSUME Goto(w, "release") PROVE Knows(w)'
    <3>1. pc'[w] = "release"
      BY <2>2, GotoAt
    <3> QED BY <2>1, <3>1 DEF RequestOf, Knows, Before, Running, Sent, Done
  <2>3. ASSUME Goto(w, "savePlan"), mem' = [mem EXCEPT ![w] = NewRecord] PROVE Knows(w)'
    <3>1. pc'[w] = "savePlan" /\ mem'[w] = NewRecord
      BY <2>3, GotoAt DEF TypeOK
    <3> QED BY <2>1, <3>1 DEF RequestOf, Knows, Before, Running, Sent, Done
  <2>4. pc'[w] \in {"release", "savePlan"}
    BY <2>1, GotoAt
  <2> QED BY <2>1, <2>2, <2>3, <2>4, OutsideKept DEF Running
<1> QED BY <1>1, <1>2, <1>3

(* The ways out of a request.                                              *)
LEMMA LeaveRequest ==
    ASSUME TypeOK, NEW w \in Worker, RequestOf(w), Forget(w) \/ (pc[w] # "idle" /\ Goto(w, "release") /\ UNCHANGED job)
                \/ Release(w)
    PROVE  RequestOf(w)'
<1>1. CASE Forget(w)
  <2>1. /\ pc'[w] = "idle" /\ job'[w] = NoJob /\ mem'[w] = NoRecord /\ saved'[w] = NoRecord
        /\ reserved'[w] = FALSE /\ at'[w] = 1
    BY <1>1, GotoAt DEF Forget, TypeOK
  <2>2. Knows(w)'
    BY <2>1 DEF Knows, Before, Running, Sent, Done
  <2> QED BY <2>1, <2>2, OutsideKept DEF Running
<1>2. ASSUME pc[w] # "idle", pc'[w] \in Leaving, UNCHANGED job PROVE RequestOf(w)'
  <2>1. Knows(w)'
    BY <1>2 DEF RequestOf, Knows, Before, Running, Sent, Done, Leaving
  <2> QED BY <1>2, <2>1, OutsideKept DEF Running, Leaving
<1>3. CASE Release(w)
  BY <1>2, <1>3, GotoAt DEF Release, Leaving
<1> QED BY <1>1, <1>2, <1>3, GotoAt DEF Leaving

(* Loading and saving the record.                                          *)
LEMMA LoadRequest == ASSUME TypeOK, NEW w \in Worker, RequestOf(w), Load(w) PROVE RequestOf(w)'
<1>1. /\ job[w] \in Job /\ at[w] = 1 /\ mem[w] = NoRecord /\ reserved[w]
      /\ UNCHANGED <<job, reserved, at, journal>> /\ saved'[w] = journal[job[w]] /\ mem'[w] = journal[job[w]]
      /\ journal[job[w]] \in Record /\ journal[job[w]].steps \in Seq(Tx)
  BY DEF RequestOf, Knows, Load, TypeOK, storeVars, Before, Record
<1>2. \/ pc'[w] = "initialize" /\ journal[job[w]] = NoRecord
      \/ pc'[w] = "release"
      \/ pc'[w] = "refresh" /\ ~journal[job[w]].done
  BY GotoAt DEF Load
<1>3. job[w] # NoJob
  BY <1>1
<1>4. Knows(w)'
  BY <1>1, <1>2, <1>3 DEF Knows, Before, Running, Sent, Done
<1>5. ASSUME pc'[w] = "refresh" PROVE Progress(w)' /\ Behind(w)'
  <2>1. Steps[job[w]] \in {1, 2} /\ Len(saved'[w].steps) \in Nat
    BY <1>1, StepsFew
  <2> QED BY <1>1, <1>5, <2>1 DEF Progress, Behind, Before, Running, Sent, Done
<1> QED BY <1>2, <1>4, <1>5, OutsideKept DEF RequestOf, Running

LEMMA SaveRequest ==
    ASSUME TypeOK, NEW w \in Worker, RequestOf(w), Final \subseteq Final', SavePlan(w) \/ SaveStep(w) \/ SaveResult(w)
    PROVE  RequestOf(w)'
<1>1. job[w] \in Job /\ reserved[w] /\ UNCHANGED <<job, reserved, at, mem>>
  BY DEF RequestOf, Knows, SavePlan, SaveStep, SaveResult, Save, TypeOK, Running
<1>2. CASE Goto(w, "release")
  BY <1>1, <1>2, LeaveRequest DEF SavePlan, SaveStep, SaveResult
<1>3. CASE SaveResult(w)
  <2>1. Goto(w, "release")
    BY <1>3 DEF SaveResult, Save
  <2> QED BY <1>2, <2>1
<1>4. ASSUME pc[w] = "savePlan", Goto(w, "refresh"), saved'[w] = mem[w], journal'[job[w]] = mem[w]
      PROVE  RequestOf(w)'
  <2>1. mem[w] = NewRecord /\ at[w] = 1 /\ pc'[w] = "refresh"
    BY <1>4, GotoAt DEF RequestOf, Knows
  <2>2. Knows(w)'
    <3>1. job'[w] \in Job /\ reserved'[w] /\ saved'[w] = mem'[w] /\ ~saved'[w].done
      BY <1>1, <1>4, <2>1 DEF NewRecord
    <3> QED BY <2>1, <3>1, RunningKnows
  <2>3. Steps[job[w]] \in {1, 2} /\ Len(NewRecord.steps) = 0 /\ DOMAIN NewRecord.steps = {}
    BY <1>1, StepsFew DEF NewRecord
  <2>4. Progress(w)' /\ Behind(w)'
    BY <1>1, <1>4, <2>1, <2>3 DEF Progress, Behind, Before, Running, Sent, Done
  <2> QED BY <2>2, <2>4 DEF RequestOf
<1>5. ASSUME pc[w] = "saveStep", Goto(w, "receipt"), saved'[w] = mem[w], journal'[job[w]] = mem[w]
      PROVE  RequestOf(w)'
  <2> DEFINE t == Bytes(w)
  <2>1. /\ ~saved[w].done /\ t \in Tx /\ mem[w] = [saved[w] EXCEPT !.steps = Append(@, t)]
    BY <1>5 DEF RequestOf, Knows, Running
  <2>2. /\ at[w] <= Steps[job[w]] /\ Len(saved[w].steps) = at[w] - 1
        /\ \A k \in 1 .. at[w] - 1 : saved[w].steps[k] \in Final
    BY <1>5 DEF RequestOf, Progress, Running
  <2>3. mem[w].steps = Append(saved[w].steps, t) /\ mem[w].done = saved[w].done
    BY <2>1, WorkerFacts DEF Record
  <2>4. Len(mem[w].steps) = at[w] /\ \A k \in 1 .. at[w] - 1 : mem[w].steps[k] = saved[w].steps[k]
    <3>1. saved[w].steps \in Seq(Tx) /\ t \in Tx /\ at[w] \in Nat
      BY <2>1, WorkerFacts
    <3> HIDE DEF t
    <3> QED BY <2>2, <2>3, <3>1, AppendFacts
  <2>5. pc'[w] = "receipt" /\ ~mem[w].done
    BY <1>5, <2>1, <2>3, GotoAt
  <2>6. Knows(w)'
    <3>1. job'[w] \in Job /\ reserved'[w] /\ saved'[w] = mem'[w] /\ ~saved'[w].done
      BY <1>1, <1>5, <2>5
    <3> QED BY <2>5, <3>1, RunningKnows
  <2>7. Progress(w)'
    BY <1>1, <1>5, <2>2, <2>4, <2>5, WorkerFacts DEF Progress, Before, Running, Sent, Done
  <2>8. Behind(w)'
    BY <1>1, <1>5, <2>5 DEF Behind
  <2> QED BY <2>6, <2>7, <2>8 DEF RequestOf
<1> QED BY <1>1, <1>2, <1>3, <1>4, <1>5 DEF SavePlan, SaveStep, Save, TypeOK

(* What a request in the middle of its steps keeps knowing.                *)
LEMMA StayBehind ==
    ASSUME TypeOK, NEW w \in Worker, RequestOf(w), pc[w] \in Running, UNCHANGED <<job, saved, reserved, journal>>
    PROVE  /\ Behind(w)' /\ job'[w] \in Job /\ reserved'[w] /\ ~saved'[w].done
           /\ job[w] \in Job /\ Steps[job[w]] \in {1, 2}
<1>1. job[w] \in Job /\ reserved[w] /\ ~saved[w].done
  BY DEF RequestOf, Knows, TypeOK, Running
<1>2. Behind(w)'
  BY DEF RequestOf, Behind
<1> QED BY <1>1, <1>2, StepsFew

(* Renewing the lease.                                                     *)
LEMMA RefreshRequest ==
    ASSUME TypeOK, NEW w \in Worker, RequestOf(w), Final \subseteq Final',
           Refresh(w) \/ RefreshAgain(w) \/ LastRefresh(w)
    PROVE  RequestOf(w)'
<1>1. UNCHANGED <<job, mem, saved, reserved, at, journal>> /\ pc[w] \in Running
  BY DEF Refresh, RefreshAgain, LastRefresh, RefreshAt, storeVars, Running
<1>2. CASE Goto(w, "release")
  BY <1>1, <1>2, LeaveRequest DEF Running
<1>3. /\ Behind(w)' /\ job'[w] \in Job /\ reserved'[w] /\ ~saved'[w].done
      /\ job[w] \in Job /\ Steps[job[w]] \in {1, 2}
  BY <1>1, StayBehind
<1>4. CASE Refresh(w) /\ ~Goto(w, "release")
  <2>1. pc[w] = "refresh" /\ saved[w] = mem[w]
    BY <1>4 DEF Refresh, RefreshAt, RequestOf, Knows
  <2>2. \/ pc'[w] = "prepare" /\ Len(saved[w].steps) < at[w]
        \/ pc'[w] = "receipt" /\ ~(Len(saved[w].steps) < at[w])
    BY <1>4, <2>1, GotoAt DEF Refresh, RefreshAt
  <2>3. Knows(w)'
    BY <1>1, <1>3, <2>1, <2>2, RunningKnows
  <2>4. Progress(w)'
    BY <1>1, <1>3, <2>1, <2>2, WorkerFacts DEF RequestOf, Progress, Running, Sent, Done
  <2> QED BY <1>3, <2>3, <2>4 DEF RequestOf
<1>5. CASE RefreshAgain(w) /\ ~Goto(w, "release")
  <2>1. pc[w] = "refreshAgain" /\ saved[w] = mem[w] /\ pc'[w] = "broadcast"
    BY <1>5, GotoAt DEF RefreshAgain, RefreshAt, RequestOf, Knows
  <2>2. Knows(w)'
    BY <1>1, <1>3, <2>1, RunningKnows
  <2>3. Progress(w)'
    BY <1>1, <1>3, <2>1, WorkerFacts DEF RequestOf, Progress, Running, Sent, Done
  <2> QED BY <1>3, <2>2, <2>3 DEF RequestOf
<1>6. CASE LastRefresh(w) /\ ~Goto(w, "release")
  <2>1. pc[w] = "lastRefresh" /\ mem[w] = [saved[w] EXCEPT !.done = TRUE] /\ pc'[w] = "saveResult"
    BY <1>6, GotoAt DEF LastRefresh, RefreshAt, RequestOf, Knows
  <2>2. Knows(w)'
    BY <1>1, <1>3, <2>1 DEF Knows, Before, Running
  <2>3. Progress(w)'
    BY <1>1, <1>3, <2>1, WorkerFacts DEF RequestOf, Progress, Running, Sent, Done
  <2> QED BY <1>3, <2>2, <2>3 DEF RequestOf
<1> QED BY <1>2, <1>4, <1>5, <1>6

(* Signing a step.                                                         *)
LEMMA SignedBytes ==
    ASSUME TypeOK, Chain, NEW w \in Worker, RequestOf(w), Prepare(w)
    PROVE  Bytes(w)' = NextTx(w)
<1> DEFINE t == NextTx(w)
           m == mem[w].steps
<1>1. pc[w] = "prepare" /\ pc[w] # "idle" /\ pc[w] \in Running
  BY DEF Prepare, Running
<1>2. job[w] \in Job /\ Len(m) = at[w] - 1 /\ m \in Seq(Tx) /\ at[w] = Len(m) + 1
  BY <1>1, WorkerFacts DEF RequestOf, Knows, Progress, TypeOK
<1>3. t \in Tx
  BY <1>2, NonceOf DEF TypeOK, NextTx, Tx
<1>4. mem'[w].steps = Append(m, t) /\ at'[w] = at[w]
  BY WorkerFacts DEF Prepare, TypeOK, Record
<1> HIDE DEF t, m
<1>5. Append(m, t)[at[w]] = t
  BY <1>2, <1>3, AppendFacts
<1> QED BY <1>4, <1>5 DEF Bytes, t

LEMMA PrepareRequest ==
    ASSUME TypeOK, Chain, NEW w \in Worker, RequestOf(w), Final \subseteq Final', Prepare(w)
    PROVE  RequestOf(w)'
<1> DEFINE t == NextTx(w)
<1>1. /\ UNCHANGED <<job, saved, reserved, at, journal>> /\ pc[w] = "prepare" /\ pc[w] \in Running
      /\ pc'[w] = "saveStep" /\ mem' = [mem EXCEPT ![w] = [mem[w] EXCEPT !.steps = Append(mem[w].steps, t)]]
  BY GotoAt DEF Prepare, storeVars, Running, TypeOK
<1>2. /\ Behind(w)' /\ job'[w] \in Job /\ reserved'[w] /\ ~saved'[w].done /\ job[w] \in Job /\ Steps[job[w]] \in {1, 2}
  BY <1>1, StayBehind
<1>3. saved[w] = mem[w] /\ Len(mem[w].steps) = at[w] - 1
  BY <1>1 DEF RequestOf, Knows, Progress
<1>4. t \in Tx /\ t.job = job[w] /\ t.step = at[w]
  BY <1>2, NonceOf DEF TypeOK, NextTx, Tx
<1>5. mem'[w] = [mem[w] EXCEPT !.steps = Append(mem[w].steps, t)]
  BY <1>1 DEF TypeOK
<1>6. mem'[w].steps = Append(mem[w].steps, t)
  BY <1>5, WorkerFacts DEF Record
<1>7. Bytes(w)' = t
  BY SignedBytes
<1>8. Knows(w)'
  <2> HIDE DEF t
  <2>1. Bytes(w)' \in Tx /\ (Bytes(w)').job = job'[w] /\ (Bytes(w)').step = at'[w]
    BY <1>1, <1>4, <1>7
  <2>2. mem'[w] = [saved'[w] EXCEPT !.steps = Append(saved'[w].steps, Bytes(w)')]
    BY <1>1, <1>3, <1>5, <1>7
  <2> QED BY <1>1, <1>2, <2>1, <2>2 DEF Knows, Before, Running
<1>9. Progress(w)'
  BY <1>1, <1>2, WorkerFacts DEF RequestOf, Progress, Running, Sent, Done
<1> QED BY <1>2, <1>8, <1>9 DEF RequestOf

(* Sending, and waiting without an answer.                                 *)
LEMMA WaitingRequest ==
    ASSUME TypeOK, NEW w \in Worker, RequestOf(w), Final \subseteq Final', UNCHANGED <<job, mem, saved, reserved, at, journal>>,
           pc[w] \in Sent, pc'[w] \in Sent
    PROVE  RequestOf(w)'
<1>1. pc[w] \in Running /\ pc'[w] \in Running
  BY DEF Running, Sent
<1>2. /\ Behind(w)' /\ job'[w] \in Job /\ reserved'[w] /\ ~saved'[w].done /\ job[w] \in Job /\ Steps[job[w]] \in {1, 2}
  BY <1>1, StayBehind
<1>3. Knows(w)'
  <2>1. saved[w] = mem[w]
    BY DEF RequestOf, Knows, Sent
  <2> QED BY <1>2, <2>1, RunningKnows DEF Sent
<1>4. Progress(w)'
  BY <1>1, <1>2, WorkerFacts DEF RequestOf, Progress, Running, Sent, Done
<1> QED BY <1>2, <1>3, <1>4 DEF RequestOf

(* A receipt that says success.                                            *)
LEMMA ReceiptRequest ==
    ASSUME TypeOK, NEW w \in Worker, RequestOf(w), Final \subseteq Final', UNCHANGED <<job, mem, saved, reserved, journal>>,
           pc[w] \in Sent, Receipt(w)
    PROVE  RequestOf(w)'
<1>1. pc[w] \in Running /\ saved[w] = mem[w] /\ pc[w] # "idle"
  BY DEF Running, Sent, RequestOf, Knows
<1>2. /\ Behind(w)' /\ job'[w] \in Job /\ reserved'[w] /\ ~saved'[w].done /\ job[w] \in Job /\ Steps[job[w]] \in {1, 2}
  BY <1>1, StayBehind
<1>3. CASE Goto(w, "release")
  BY <1>1, <1>3, LeaveRequest
<1>4. CASE ~Goto(w, "release")
  <2>1. Confirmed(w)
    BY <1>4 DEF Receipt
  <2>2. saved[w].steps[at[w]] \in Final'
    BY <1>1, <2>1 DEF Confirmed, Bytes, Final
  <2>3. \/ at[w] < Steps[job[w]] /\ pc'[w] = "refresh" /\ at'[w] = at[w] + 1
        \/ ~(at[w] < Steps[job[w]]) /\ pc'[w] = "complete" /\ at'[w] = at[w]
    BY <2>1, GotoAt DEF Receipt, TypeOK
  <2>4. Knows(w)'
    BY <1>1, <1>2, <2>3, RunningKnows
  <2>5. /\ at[w] <= Steps[job[w]] /\ at[w] <= Len(saved[w].steps)
        /\ \A k \in 1 .. at[w] - 1 : saved[w].steps[k] \in Final'
    BY <1>1 DEF RequestOf, Progress
  <2>6. \A k \in 1 .. at'[w] - 1 : saved[w].steps[k] \in Final'
    BY <2>2, <2>3, <2>5, WorkerFacts
  <2>7. Progress(w)'
    BY <1>2, <2>2, <2>3, <2>5, <2>6, WorkerFacts DEF Progress, Running, Sent, Done
  <2> QED BY <1>2, <2>4, <2>7 DEF RequestOf
<1> QED BY <1>3, <1>4

(* The result of the request.                                              *)
LEMMA CompleteRequest ==
    ASSUME TypeOK, NEW w \in Worker, RequestOf(w), Final \subseteq Final', Complete(w)
    PROVE  RequestOf(w)'
<1>1. /\ UNCHANGED <<job, saved, reserved, at, journal>> /\ pc[w] = "complete" /\ pc[w] \in Running
      /\ pc'[w] = "lastRefresh" /\ mem'[w] = [mem[w] EXCEPT !.done = TRUE]
  BY GotoAt DEF Complete, storeVars, Running, TypeOK
<1>2. /\ Behind(w)' /\ job'[w] \in Job /\ reserved'[w] /\ ~saved'[w].done /\ job[w] \in Job /\ Steps[job[w]] \in {1, 2}
  BY <1>1, StayBehind
<1>3. saved[w] = mem[w]
  BY <1>1 DEF RequestOf, Knows
<1>4. Knows(w)'
  BY <1>1, <1>2, <1>3 DEF Knows, Before, Running
<1>5. Progress(w)'
  BY <1>1, <1>2, WorkerFacts DEF RequestOf, Progress, Running, Sent, Done
<1> QED BY <1>2, <1>4, <1>5 DEF RequestOf

(* Failures.                                                               *)
LEMMA FailureRequest ==
    ASSUME TypeOK, NEW w \in Worker, RequestOf(w), pc[w] # "idle", Throw(w) \/ Forget(w)
    PROVE  RequestOf(w)'
BY LeaveRequest DEF Throw

(* A request's own steps leave it where it may be.                         *)
LEMMA MovedKept ==
    ASSUME TypeOK, Chain, NEW w \in Worker, RequestOf(w), Growth, Final \subseteq Final', Moves(w)
    PROVE  RequestOf(w)'
<1>1. CASE (\E j \in Job : Begin(w, j)) \/ ReadActive(w) \/ Reserve(w) \/ Initialize(w)
  BY <1>1, BeginRequest
<1>2. CASE Load(w)
  BY <1>2, LoadRequest
<1>3. CASE SavePlan(w) \/ SaveStep(w) \/ SaveResult(w)
  BY <1>3, SaveRequest
<1>4. CASE Refresh(w) \/ RefreshAgain(w) \/ LastRefresh(w)
  BY <1>4, RefreshRequest
<1>5. CASE Prepare(w)
  BY <1>5, PrepareRequest
<1>6. CASE ReadReceipt(w) \/ Wait(w)
  <2>1. UNCHANGED <<job, mem, saved, reserved, journal>> /\ pc[w] \in Sent
    BY <1>6 DEF ReadReceipt, Wait, storeVars, Sent
  <2>2. CASE Receipt(w)
    BY <2>1, <2>2, ReceiptRequest
  <2>3. CASE Goto(w, "refreshAgain") /\ UNCHANGED at
    <3>1. pc'[w] \in Sent
      BY <2>3, GotoAt DEF Sent
    <3> QED BY <2>1, <2>3, <3>1, WaitingRequest
  <2>4. CASE Goto(w, "release")
    BY <2>1, <2>4, LeaveRequest DEF Sent
  <2> QED BY <1>6, <2>2, <2>3, <2>4 DEF ReadReceipt, Wait
<1>7. CASE Broadcast(w)
  <2>1. UNCHANGED <<job, mem, saved, reserved, at, journal>> /\ pc[w] \in Sent /\ pc'[w] \in Sent
    BY <1>7, GotoAt DEF Broadcast, storeVars, Sent
  <2> QED BY <2>1, WaitingRequest
<1>8. CASE Complete(w)
  BY <1>8, CompleteRequest
<1>9. CASE Release(w) \/ Unlock(w)
  BY <1>9, LeaveRequest DEF Unlock
<1>10. CASE Environment(w)
  <2>1. CASE pc[w] = "idle"
    <3>1. UNCHANGED workerVars
      BY <1>10, <2>1 DEF Environment, CallFails, ReplyLost, Crash
    <3>2. Unmoved(w)
      BY <3>1 DEF Unmoved, workerVars
    <3> QED BY <3>2, UnmovedKept DEF RequestOf
  <2>2. CASE pc[w] # "idle"
    BY <1>10, <2>2, FailureRequest DEF Environment, CallFails, ReplyLost, Crash
  <2> QED BY <2>1, <2>2
<1> QED BY <1>1, <1>2, <1>3, <1>4, <1>5, <1>6, <1>7, <1>8, <1>9, <1>10 DEF Moves, Run

(* Every step keeps what requests know.                                    *)
LEMMA RequestsStep ==
    ASSUME TypeOK, Journaled, Chain, Requests, [Next]_vars
    PROVE  Requests'
<1>1. Growth /\ Final \subseteq Final'
  BY GrowthStep, FinalGrows
<1>2. ASSUME NEW w \in Worker PROVE RequestOf(w)'
  <2>1. RequestOf(w)
    BY DEF Requests, RequestOf
  <2>2. CASE Unmoved(w)
    BY <1>1, <2>1, <2>2, UnmovedKept DEF RequestOf
  <2>3. CASE Moves(w)
    BY <1>1, <2>1, <2>3, MovedKept
  <2> QED BY <2>2, <2>3, WhoMoves
<1> QED BY <1>2 DEF Requests, RequestOf

-----------------------------------------------------------------------------
(* The allowance *)

(* The allowance only grows, and a lease is taken by a request that begins.*)
LEMMA QuotaStep ==
    ASSUME TypeOK, [Next]_vars
    PROVE  /\ quota' = quota \/ quota' = quota + 1
           /\ \A v \in Worker : lease' = v => lease = v \/ pc'[v] \in {"active", "idle"}
<1>1. ASSUME NEW w \in Worker, Run(w)
      PROVE  /\ quota' = quota \/ quota' = quota + 1
             /\ \A v \in Worker : lease' = v => lease = v \/ pc'[v] \in {"active", "idle"}
  <2>1. quota' = quota \/ quota' = quota + 1
    BY <1>1 DEF Run, storeVars, ReadActive, Reserve, Load, Initialize, SavePlan, SaveStep, SaveResult, Save, Refresh,
         RefreshAgain, LastRefresh, RefreshAt, Prepare, ReadReceipt, Broadcast, Wait, Complete, Release, Unlock
  <2>2. lease' = lease \/ lease' = NoWorker
    BY <1>1 DEF Run, storeVars, ReadActive, Reserve, Load, Initialize, SavePlan, SaveStep, SaveResult, Save, Refresh,
         RefreshAgain, LastRefresh, RefreshAt, Prepare, ReadReceipt, Broadcast, Wait, Complete, Release, Unlock
  <2> QED BY <2>1, <2>2
<1>2. ASSUME NEW w \in Worker, NEW j \in Job, Begin(w, j)
      PROVE  /\ quota' = quota
             /\ \A v \in Worker : lease' = v => lease = v \/ pc'[v] \in {"active", "idle"}
  BY <1>2, GotoAt DEF Begin
<1>3. ASSUME NEW w \in Worker, Environment(w)
      PROVE  /\ quota' = quota \/ quota' = quota + 1
             /\ \A v \in Worker : lease' = v => lease = v \/ pc'[v] \in {"active", "idle"}
  BY <1>3 DEF Environment, CallFails, ReplyLost, Crash, storeVars, workerVars
<1>4. Expire \/ UNCHANGED vars \/ (\E t \in pool : Mine(t) \/ Drop(t))
      => quota' = quota /\ (lease' = lease \/ lease' = NoWorker)
  BY DEF Expire, vars, storeVars, Mine, Drop
<1> QED BY <1>1, <1>2, <1>3, <1>4 DEF Next

(* Only a plan of a claim adds to the claims planned.                      *)
LEMMA PlannedStep ==
    ASSUME TypeOK, Journaled, Requests, [Next]_vars
    PROVE  \/ Planned' = Planned
           \/ \E w \in Worker : /\ lease = w /\ pc[w] = "savePlan" /\ job[w] \in Claim
                             /\ Planned' = Planned \cup {job[w]} /\ Saves(w)
<1>1. CASE UNCHANGED journal
  BY <1>1 DEF Planned
<1>2. ASSUME NEW w \in Worker, lease = w, Saves(w)
      PROVE  Planned' = Planned \/ (pc[w] = "savePlan" /\ job[w] \in Claim /\ Planned' = Planned \cup {job[w]})
  <2>1. job[w] \in Job /\ mem[w] # NoRecord
    BY <1>2, SaveGood
  <2>2. Claim \subseteq Job /\ journal' = [journal EXCEPT ![job[w]] = mem[w]] /\ journal \in [Job -> Record]
    BY <1>2 DEF Saves, TypeOK
  <2>3. Planned' = Planned \cup ({job[w]} \cap Claim)
    BY <2>1, <2>2 DEF Planned
  <2>4. pc[w] # "savePlan" => journal[job[w]] # NoRecord
    <3>1. pc[w] # "savePlan" => ~saved[w].done
      BY <1>2 DEF Saves, Requests, Knows, Running
    <3>2. NoRecord.done
      BY DEF NoRecord
    <3> QED BY <1>2, <3>1, <3>2 DEF Saves
  <2>5. pc[w] # "savePlan" /\ job[w] \in Claim => job[w] \in Planned
    BY <2>4 DEF Planned
  <2> QED BY <2>3, <2>5
<1> QED BY <1>1, <1>2, WhoSaves

(* A request comes to save its plan by taking its unit of the allowance.   *)
LEMMA SavePlanStep ==
    ASSUME TypeOK, [Next]_vars, NEW v \in Worker, pc'[v] = "savePlan"
    PROVE  \/ Unmoved(v) /\ ~Saves(v)
           \/ UNCHANGED journal /\ job'[v] = job[v] /\ (job[v] \in Claim => quota' = quota + 1)
<1>1. ASSUME Moves(v), ~Unmoved(v) PROVE Initialize(v)
  BY <1>1, GotoAt DEF Moves, Run, Environment, Begin, ReadActive, Reserve, Load, SavePlan, SaveStep, SaveResult, Save, Refresh,
       RefreshAgain, LastRefresh, RefreshAt, Prepare, ReadReceipt, Broadcast, Wait, Receipt, Complete, Release, Unlock,
       CallFails, ReplyLost, Crash, Throw, Forget, Unmoved, workerVars
<1>2. CASE Initialize(v)
  BY <1>2, GotoAt DEF Initialize
<1>3. Unmoved(v) => ~Saves(v)
  BY DEF Unmoved, Saves
<1> QED BY <1>1, <1>2, <1>3, WhoMoves

(* Every step keeps the count.                                             *)
LEMMA CountedStep ==
    ASSUME TypeOK, Journaled, Requests, Counted, [Next]_vars
    PROVE  Counted'
<1>1. /\ quota \in Nat /\ quota' \in Nat /\ quota' >= quota
      /\ Cardinality(Planned) \in Nat
  BY QuotaStep, FS_CardinalityType DEF TypeOK, Counted
<1>2. IsFiniteSet(Planned') /\ Cardinality(Planned') <= quota'
  <2>1. CASE Planned' = Planned
    BY <1>1, <2>1 DEF Counted
  <2>2. ASSUME NEW w \in Worker, lease = w, pc[w] = "savePlan", job[w] \in Claim, Planned' = Planned \cup {job[w]}
        PROVE  IsFiniteSet(Planned') /\ Cardinality(Planned') <= quota'
    <3>1. IsFiniteSet(Planned') /\ Cardinality(Planned') <= Cardinality(Planned) + 1
      <4>1. IsFiniteSet(Planned) /\ Cardinality(Planned) \in Nat
        BY <1>1 DEF Counted
      <4>2. /\ IsFiniteSet(Planned \cup {job[w]})
            /\ Cardinality(Planned \cup {job[w]})
               = IF job[w] \in Planned THEN Cardinality(Planned) ELSE Cardinality(Planned) + 1
        BY <4>1, FS_AddElement, Zenon
      <4>3. Cardinality(Planned') = Cardinality(Planned \cup {job[w]})
        BY <2>2
      <4>4. IsFiniteSet(Planned')
        BY <2>2, <4>2
      <4> QED BY <4>1, <4>2, <4>3, <4>4
    <3>2. Cardinality(Planned) < quota
      BY <2>2 DEF Counted
    <3>3. Cardinality(Planned') \in Nat
      BY <3>1, FS_CardinalityType
    <3> QED BY <1>1, <3>1, <3>2, <3>3
  <2> QED BY <2>1, <2>2, PlannedStep
<1>3. ASSUME NEW v \in Worker, lease' = v, pc'[v] = "savePlan", job'[v] \in Claim
      PROVE  Cardinality(Planned') < quota'
  <2>1. lease = v
    BY <1>3, QuotaStep
  <2>2. CASE Unmoved(v) /\ ~Saves(v)
    <3>1. Cardinality(Planned) < quota
      BY <1>3, <2>1, <2>2 DEF Unmoved, Counted
    <3>2. Planned' = Planned
      BY <2>1, <2>2, PlannedStep
    <3> QED BY <1>1, <3>1, <3>2
  <2>3. CASE UNCHANGED journal /\ job'[v] = job[v] /\ (job[v] \in Claim => quota' = quota + 1)
    <3>1. Planned' = Planned
      BY <2>3 DEF Planned
    <3> QED BY <1>1, <1>3, <2>3, <3>1 DEF Counted
  <2> QED BY <1>3, <2>2, <2>3, SavePlanStep
<1> QED BY <1>2, <1>3 DEF Counted

-----------------------------------------------------------------------------
(* What holds whatever fails *)

LEMMA InitJournalInv == Init => JournalInv
<1> SUFFICES ASSUME Init PROVE JournalInv
  OBVIOUS
<1>1. TypeOK
  BY InitType
<1>2. Journaled
  <2>1. Len(<<>>) = 0 /\ DOMAIN <<>> = {}
    OBVIOUS
  <2> QED BY <2>1, StepsFew DEF Init, Journaled, Good, NoRecord
<1>3. Chain /\ SavedBeforeSent
  BY FS_EmptySet DEF Init, Chain, SavedBeforeSent, Mined
<1>4. Requests
  BY DEF Init, Requests, Knows, Progress, Behind, Before, Running, Sent, Done
<1>5. Counted
  <2>1. Planned = {}
    BY DEF Init, Planned
  <2> QED BY <2>1, FS_EmptySet DEF Init, Counted
<1> QED BY <1>1, <1>2, <1>3, <1>4, <1>5 DEF JournalInv

LEMMA JournalInvStep == JournalInv /\ [Next]_vars => JournalInv'
BY TypeStep, JournaledStep, ChainStep, SentStep, RequestsStep, CountedStep DEF JournalInv

LEMMA JournalInvHolds == Spec => []JournalInv
BY InitJournalInv, JournalInvStep, PTL DEF Spec

(* Every variable keeps its type: the store, the chain and the memory of   *)
(* every request (signing-job.ts:9-27).                                    *)
THEOREM SigningTypes == Spec => []TypeOK
<1>1. JournalInv => TypeOK
  BY DEF JournalInv
<1> QED BY <1>1, JournalInvHolds, PTL

(* Whatever fails, no bytes reach the chain that are not in the journal    *)
(* ("Never send transaction bytes that have not been saved",               *)
(* signing-job.ts:59).                                                     *)
THEOREM NothingUnsavedSent == Spec => []SavedBeforeSent
<1>1. JournalInv => SavedBeforeSent
  BY DEF JournalInv
<1> QED BY <1>1, JournalInvHolds, PTL

(* A later step is signed only after the one before succeeded, over all the*)
(* requests that took part (signing-job.ts:67, judge-budget.ts:151).       *)
THEOREM StepsKeptInOrder == Spec => []StepsInOrder
<1>1. JournalInv => StepsInOrder
  BY DEF JournalInv, Journaled, Good, Final, StepsInOrder
<1> QED BY <1>1, JournalInvHolds, PTL

(* A result is of all the steps, each mined and not reverted, and no more  *)
(* claims have a plan than the allowance counts (signing-job.ts:70-72,     *)
(* demo-tickets.ts:58).                                                    *)
THEOREM ResultsAreEarned == Spec => []ResultsEarned
<1>1. JournalInv => ResultsEarned
  <2> SUFFICES ASSUME JournalInv PROVE ResultsEarned
    OBVIOUS
  <2>1. ASSUME NEW j \in Job, journal[j] # NoRecord, journal[j].done
        PROVE  Len(journal[j].steps) = Steps[j] /\ Saved(j) \subseteq Mined \ reverted
    BY <2>1 DEF JournalInv, Journaled, Good, Saved, Final
  <2>2. Cardinality({j \in Claim : journal[j] # NoRecord}) <= quota
    BY DEF JournalInv, Counted, Planned
  <2> QED BY <2>1, <2>2 DEF ResultsEarned
<1> QED BY <1>1, JournalInvHolds, PTL

(* No request, however late, replaces bytes saved in the journal or takes  *)
(* back a result (signing-job.ts:37-41).                                   *)
THEOREM JournalOnlyGrows == Spec => JournalGrows
<1>1. JournalInv /\ [Next]_vars => [Growth]_journal
  BY GrowthStep DEF JournalInv
<1> QED BY <1>1, JournalInvHolds, PTL DEF Spec, JournalGrows

-----------------------------------------------------------------------------
(* The reservation and the nonces, where the journal can be read *)

\* A request that may not fail to read the journal, and what holds before its step.
Readable == JournalInv /\ JournalInv' /\ SignerInv /\ [Next]_vars /\ ~UnreadableJournal

(* A record that has its result, or no steps, has nothing uncertain.       *)
LEMMA Settled ==
    ASSUME NEW j, NEW r, NEW F, Good(j, r, F), r.done \/ r.steps = <<>>
    PROVE  {r.steps[k] : k \in DOMAIN r.steps} \subseteq F
<1>1. CASE r.steps = <<>>
  BY <1>1
<1>2. CASE r.steps # <<>> /\ r.done
  <2>1. r # NoRecord
    BY <1>2 DEF NoRecord
  <2> QED BY <1>2, <2>1 DEF Good
<1> QED BY <1>1, <1>2

(* What waits on the chain is saved and uncertain.                         *)
LEMMA Waiting == ASSUME JournalInv, NEW t \in pool PROVE t.job \in Job /\ t \in Uncertain(t.job)
<1>1. t \in Tx /\ t.job \in Job /\ t \in Saved(t.job)
  BY DEF JournalInv, TypeOK, Tx, SavedBeforeSent
<1>2. \A k \in DOMAIN mined : mined[k].nonce < Len(mined)
  BY DEF JournalInv, TypeOK, Chain
<1>3. t.nonce >= Len(mined) /\ t.nonce \in Nat /\ Len(mined) \in Nat
  BY <1>1 DEF JournalInv, TypeOK, Chain, Tx
<1>4. t \notin Mined
  BY <1>2, <1>3 DEF Mined
<1> QED BY <1>1, <1>4 DEF Uncertain

(* A request that signs while it has the lease has the chain to itself.    *)
LEMMA SignsAlone ==
    ASSUME JournalInv, SignerInv, NEW w \in Worker, lease = w, pc[w] \in {"prepare", "saveStep"}
    PROVE  active = job[w] /\ job[w] \in Job /\ Uncertain(job[w]) = {} /\ pool = {}
<1>1. /\ job[w] \in Job /\ active = job[w] /\ journal[job[w]] = saved[w]
      /\ Len(saved[w].steps) = at[w] - 1 /\ \A k \in 1 .. at[w] - 1 : saved[w].steps[k] \in Final
  <2>1. pc[w] \in Running /\ pc[w] \in Loaded /\ pc[w] # "idle" /\ pc[w] # "unlock"
    BY DEF Running, Loaded
  <2>2. Knows(w) /\ Progress(w) /\ Holds(w) /\ TypeOK
    BY DEF JournalInv, Requests, SignerInv
  <2>3. job[w] \in Job /\ reserved[w]
    BY <2>1, <2>2 DEF Knows, TypeOK
  <2>4. active = job[w] /\ journal[job[w]] = saved[w]
    BY <2>1, <2>2, <2>3 DEF Holds
  <2> QED BY <2>1, <2>2, <2>3, <2>4 DEF Progress
<1>2. Uncertain(job[w]) = {}
  <2>1. DOMAIN saved[w].steps = 1 .. at[w] - 1
    BY <1>1, WorkerFacts DEF JournalInv
  <2> QED BY <1>1, <2>1 DEF Uncertain, Saved, Final
<1>3. pool = {}
  BY <1>1, <1>2, Waiting DEF SignerInv, ReservationKept
<1> QED BY <1>1, <1>2, <1>3

(* What is uncertain becomes final, unless the job saves.                  *)
LEMMA UncertainStep ==
    ASSUME TypeOK, Chain, [Next]_vars, NEW j \in Job, journal'[j] = journal[j]
    PROVE  Uncertain(j)' \subseteq Uncertain(j)
<1>1. Mined \subseteq Mined'
  BY FinalGrows
<1>2. Saved(j)' = Saved(j)
  BY DEF Saved
<1> QED BY <1>1, <1>2 DEF Uncertain

\* A request takes or gives back the reservation.
Reserves(w) ==
    /\ \/ active = NoJob /\ active' = job[w] /\ pc[w] = "reserve"
       \/ active = job[w] /\ active' = NoJob /\ pc[w] = "release" /\ MayRelease(w)
    /\ pc'[w] # pc[w]

(* Only the request that has the lease takes or gives back the reservation.*)
LEMMA WhoReserves ==
    ASSUME TypeOK, [Next]_vars
    PROVE  active' = active \/ \E w \in Worker : lease = w /\ Reserves(w) /\ UNCHANGED journal
<1>1. ASSUME NEW w \in Worker, Run(w) PROVE active' = active \/ (lease = w /\ Reserves(w) /\ UNCHANGED journal)
  BY <1>1, GotoAt DEF Reserves, Run, storeVars, ReadActive, Reserve, Load, Initialize, SavePlan, SaveStep, SaveResult, Save,
       Refresh, RefreshAgain, LastRefresh, RefreshAt, Prepare, ReadReceipt, Broadcast, Wait, Complete, Release, Unlock
<1>2. ASSUME NEW w \in Worker, Environment(w) PROVE active' = active \/ (lease = w /\ Reserves(w) /\ UNCHANGED journal)
  <2>1. Throw(w) /\ pc[w] # "idle" => pc'[w] \in {"idle", "release"} /\ pc'[w] # pc[w]
    BY GotoAt DEF Throw, Forget
  <2> QED BY <1>2, <2>1 DEF Reserves, Environment, CallFails, ReplyLost, Crash, storeVars
<1>3. (\E w \in Worker, j \in Job : Begin(w, j)) \/ Expire \/ UNCHANGED vars \/ (\E t \in pool : Mine(t) \/ Drop(t))
      => active' = active
  BY DEF Begin, Expire, Mine, Drop, vars, storeVars
<1> QED BY <1>1, <1>2, <1>3 DEF Next

(* The reservation outlives what is uncertain.                             *)
LEMMA ReservationStep ==
    ASSUME Readable
    PROVE  ReservationKept'
<1> SUFFICES ASSUME NEW j \in Job, Uncertain(j)' # {} PROVE active' = j
  BY DEF ReservationKept
<1>0. TypeOK /\ Chain /\ [Next]_vars /\ ReservationKept
  BY DEF Readable, JournalInv, SignerInv
<1>1. CASE journal'[j] = journal[j]
  <2>1. active = j /\ j # NoJob
    BY <1>0, <1>1, UncertainStep DEF ReservationKept
  <2>2. ASSUME NEW w \in Worker, lease = w, Reserves(w) PROVE FALSE
    <3>1. active = job[w] /\ pc[w] = "release" /\ MayRelease(w) /\ job[w] = j
      BY <2>1, <2>2 DEF Reserves
    <3>2. Uncertain(j) = {}
      BY <2>2, <3>1 DEF Readable, SignerInv, Holds
    <3> QED BY <1>0, <1>1, <3>2, UncertainStep
  <2> QED BY <1>0, <2>1, <2>2, WhoReserves
<1>2. ASSUME NEW w \in Worker, lease = w, Saves(w), j = job[w], active' = active PROVE active' = j
  <2>1. reserved[w] /\ pc[w] # "idle" /\ pc[w] # "unlock"
    BY <1>2 DEF Saves, Readable, JournalInv, Requests, Knows, Running
  <2> QED BY <1>2, <2>1 DEF Readable, SignerInv, Holds
<1>3. ASSUME NEW w \in Worker, lease = w, Saves(w), j # job[w] PROVE journal'[j] = journal[j]
  BY <1>0, <1>3 DEF Saves, TypeOK
<1>4. UNCHANGED journal \/ active' = active
  BY <1>0, WhoReserves
<1> QED BY <1>0, <1>1, <1>2, <1>3, <1>4, WhoSaves

(* What a step adds to the journal are the bytes a request has signed.     *)
LEMMA SavedStep ==
    ASSUME TypeOK, Journaled, Requests, [Next]_vars, NEW j \in Job, NEW t \in Saved(j)'
    PROVE  t \in Saved(j) \/ \E w \in Worker : lease = w /\ pc[w] = "saveStep" /\ t = Bytes(w)
<1>1. CASE journal'[j] = journal[j]
  BY <1>1 DEF Saved
<1>2. ASSUME NEW w \in Worker, lease = w, Saves(w), j = job[w]
      PROVE  t \in Saved(j) \/ (pc[w] = "saveStep" /\ t = Bytes(w))
  <2>1. journal'[j] = mem[w] /\ journal[j] = saved[w] /\ Knows(w) /\ Progress(w)
    BY <1>2 DEF Saves, TypeOK, Requests
  <2>2. PICK k \in DOMAIN mem[w].steps : t = mem[w].steps[k]
    BY <2>1 DEF Saved
  <2>3. CASE pc[w] = "savePlan"
    BY <2>1, <2>2, <2>3 DEF Knows, NewRecord
  <2>4. CASE pc[w] = "saveResult"
    <3>1. mem[w].steps = saved[w].steps
      BY <2>1, <2>4, WorkerFacts DEF Knows, Record
    <3> QED BY <2>1, <2>2, <3>1 DEF Saved
  <2>5. CASE pc[w] = "saveStep"
    <3>1. mem[w].steps = Append(saved[w].steps, Bytes(w)) /\ Len(saved[w].steps) = at[w] - 1 /\ Bytes(w) \in Tx
      BY <2>1, <2>5, WorkerFacts DEF Knows, Progress, Running, Record
    <3>2. \/ k \in DOMAIN saved[w].steps /\ mem[w].steps[k] = saved[w].steps[k]
          \/ k = at[w]
      BY <2>2, <3>1, WorkerFacts, AppendFacts
    <3> QED BY <2>1, <2>2, <2>5, <3>2 DEF Saved, Bytes
  <2> QED BY <1>2, <2>3, <2>4, <2>5 DEF Saves
<1>3. ASSUME NEW w \in Worker, Saves(w), j # job[w] PROVE journal'[j] = journal[j]
  BY <1>3 DEF Saves, TypeOK
<1> QED BY <1>1, <1>2, <1>3, WhoSaves DEF Bytes

(* The nonce just signed is nobody else's.                                 *)
LEMMA FreshNonce ==
    ASSUME JournalInv, SignerInv, NEW w \in Worker, lease = w, pc[w] = "saveStep", NEW j \in Job, NEW t \in Saved(j)
    PROVE  t.nonce # Bytes(w).nonce
<1>1. Bytes(w).nonce = Len(mined)
  BY DEF SignerInv, Holds, Bytes
<1>2. t \in Mined
  BY SignsAlone DEF SignerInv, ReservationKept, Uncertain
<1>3. \A k \in DOMAIN mined : mined[k].nonce # Len(mined)
  BY DEF JournalInv, TypeOK, Chain
<1> QED BY <1>1, <1>2, <1>3 DEF Mined

(* Every step keeps the nonces apart.                                      *)
LEMMA NoncesStep == ASSUME Readable PROVE NoncesDistinct'
<1> SUFFICES ASSUME NEW i \in Job, NEW j \in Job, NEW s \in Saved(i)', NEW t \in Saved(j)', s.nonce = t.nonce PROVE s = t
  BY DEF NoncesDistinct
<1>0. JournalInv /\ SignerInv /\ TypeOK /\ Journaled /\ Requests /\ [Next]_vars /\ NoncesDistinct
  BY DEF Readable, JournalInv, SignerInv
<1>1. CASE s \in Saved(i) /\ t \in Saved(j)
  BY <1>0, <1>1 DEF NoncesDistinct
<1>2. ASSUME NEW w \in Worker, lease = w, pc[w] = "saveStep", s = Bytes(w) PROVE s = t
  BY <1>0, <1>2, FreshNonce, SavedStep
<1>3. ASSUME NEW w \in Worker, lease = w, pc[w] = "saveStep", t = Bytes(w) PROVE s = t
  BY <1>0, <1>3, FreshNonce, SavedStep
<1> QED BY <1>0, <1>1, <1>2, <1>3, SavedStep

(* A request that has the lease before and after its step.                 *)
LEMMA StillHolds ==
    ASSUME Readable, NEW v \in Worker, lease' = v, pc'[v] # "idle"
    PROVE  \/ lease = v /\ pc[v] # "idle"
           \/ pc'[v] = "active" /\ ~reserved'[v]
<1>0. TypeOK /\ [Next]_vars
  BY DEF Readable, JournalInv
<1>1. CASE pc'[v] = "active"
  BY <1>1 DEF Readable, JournalInv, Requests, Knows
<1>2. CASE pc'[v] # "active" /\ pc[v] = "idle"
  <2>1. lease = v
    BY <1>0, <1>2, QuotaStep
  <2>2. Moves(v) => UNCHANGED workerVars
    BY <1>2, <2>1 DEF Moves, Run, Environment, Begin, ReadActive, Reserve, Load, Initialize, SavePlan, SaveStep,
         SaveResult, Refresh, RefreshAgain, LastRefresh, RefreshAt, Prepare, ReadReceipt, Broadcast, Wait, Complete,
         Release, Unlock, CallFails, ReplyLost, Crash, workerVars
  <2> QED BY <1>0, <1>2, <2>2, WhoMoves DEF Unmoved, workerVars
<1> QED BY <1>0, <1>1, <1>2, QuotaStep

(* While other requests move, what the holder of the lease relies on stays.*)
LEMMA HolderRests ==
    ASSUME Readable, NEW v \in Worker, lease = v, pc[v] # "idle", Unmoved(v)
    PROVE  Holds(v)'
<1>0. TypeOK /\ Chain /\ [Next]_vars /\ JournalInv /\ SignerInv /\ Holds(v) /\ job[v] \in Job
  BY DEF Readable, JournalInv, SignerInv, Requests, Knows, TypeOK
<1>1. active' = active /\ journal' = journal
  BY <1>0, WhoSaves, WhoReserves DEF Unmoved, Saves, Reserves
<1>2. Uncertain(job[v])' \subseteq Uncertain(job[v])
  <2>1. \A j \in Job : Uncertain(j)' \subseteq Uncertain(j)
    BY <1>0, <1>1, UncertainStep
  <2>2. job'[v] = job[v]
    BY DEF Unmoved
  <2> QED BY <1>0, <2>1, <2>2 DEF Uncertain, Saved
<1>3. MayRelease(v)' <=> MayRelease(v)
  BY DEF MayRelease, Unmoved
<1>4. pc[v] = "saveStep" => mined' = mined
  <2> SUFFICES ASSUME pc[v] = "saveStep" PROVE mined' = mined
    OBVIOUS
  <2>1. pool = {}
    BY <1>0, SignsAlone
  <2> QED BY <1>0, <2>1, WhoSends DEF Sends
<1> QED BY <1>0, <1>1, <1>2, <1>3, <1>4 DEF Holds, Unmoved

(* The ways of the holder to the end of its request.                       *)
LEMMA HolderLeaves ==
    ASSUME Readable, NEW v \in Worker, lease = v, pc[v] \in Loaded, pc'[v] = "release",
           UNCHANGED <<active, job, mem, reserved>>, journal'[job[v]] \in {journal[job[v]], mem[v]}
    PROVE  Holds(v)'
<1>0. /\ TypeOK /\ Chain /\ [Next]_vars /\ Holds(v) /\ Knows(v) /\ Progress(v) /\ pc[v] # "idle" /\ pc[v] # "unlock"
      /\ job[v] \in Job /\ Mined \subseteq Mined' /\ Final \subseteq Final' /\ Final' \subseteq Mined'
  <2>1. TypeOK /\ Chain /\ [Next]_vars /\ Holds(v) /\ Knows(v) /\ Progress(v) /\ pc[v] # "idle" /\ pc[v] # "unlock"
    BY DEF Readable, JournalInv, SignerInv, Requests, Loaded, Running
  <2> QED BY <2>1, FinalGrows DEF Knows, TypeOK, Final
<1>1. Good(job[v], journal'[job[v]], Final') /\ journal[job[v]] = saved[v]
  BY <1>0 DEF Readable, JournalInv, Journaled, Holds
<1>2. ASSUME MayRelease(v) PROVE Uncertain(job[v])' = {}
  <2>1. mem[v].done \/ mem[v].steps = <<>>
    BY <1>2 DEF MayRelease
  <2>2. CASE journal'[job[v]].done \/ journal'[job[v]].steps = <<>>
    BY <1>0, <1>1, <2>2, Settled DEF Uncertain, Saved
  <2>3. CASE journal'[job[v]] = saved[v] /\ pc[v] \in {"initialize", "savePlan"}
    <3>1. saved[v] = NoRecord
      BY <1>0, <2>3 DEF Knows, Before
    <3> QED BY <2>2, <2>3, <3>1 DEF NoRecord
  <2>4. CASE journal'[job[v]] = saved[v] /\ pc[v] \in {"lastRefresh", "saveResult"}
    <3>1. /\ at[v] <= Len(saved[v].steps) /\ at[v] = Steps[job[v]] /\ saved[v].steps[at[v]] \in Final
          /\ \A k \in 1 .. at[v] - 1 : saved[v].steps[k] \in Final
      <4>1. pc[v] \in Running /\ pc[v] \in Done
        BY <2>4 DEF Running, Done
      <4> QED BY <1>0, <4>1 DEF Progress
    <3>2. Len(saved[v].steps) <= Steps[job[v]]
      BY <1>0, <1>1, <2>4 DEF Good
    <3>3. \A k \in DOMAIN saved[v].steps : saved[v].steps[k] \in Final
      BY <1>0, <3>1, <3>2, StepsFew, WorkerFacts
    <3> QED BY <1>0, <2>4, <3>3 DEF Uncertain, Saved
  <2>5. CASE pc[v] = "saveStep"
    <3>1. mem[v].steps = Append(saved[v].steps, Bytes(v)) /\ ~mem[v].done /\ Bytes(v) \in Tx
      BY <1>0, <2>5, WorkerFacts DEF Knows, Running, Record
    <3>2. mem[v].steps # <<>>
      BY <1>0, <3>1, WorkerFacts
    <3> QED BY <2>1, <3>1, <3>2
  <2>6. pc[v] \in {"refresh", "prepare", "receipt", "refreshAgain", "broadcast", "wait", "complete"} => saved[v] = mem[v]
    BY <1>0 DEF Knows
  <2> QED BY <1>1, <2>1, <2>2, <2>3, <2>4, <2>5, <2>6 DEF Loaded, Running
<1>3. active' = job'[v] \/ ~reserved'[v]
  BY <1>0 DEF Holds
<1>4. pc'[v] \notin Loaded
  BY DEF Loaded, Running
<1> QED BY <1>2, <1>3, <1>4 DEF Holds, MayRelease

(* The holder goes on with the record that is in the journal.              *)
LEMMA HolderGoesOn ==
    ASSUME Readable, NEW v \in Worker, lease = v, pc[v] \in Loaded, pc'[v] \in Loaded \ {"saveStep"},
           UNCHANGED <<active, job, reserved>>, journal'[job[v]] = saved'[v]
    PROVE  Holds(v)'
<1>1. Holds(v) /\ pc[v] # "idle" /\ pc[v] # "unlock" /\ pc'[v] # "release" /\ pc'[v] # "saveStep"
  BY DEF Readable, SignerInv, Loaded, Running
<1>2. active' = job'[v] \/ ~reserved'[v]
  BY <1>1 DEF Holds
<1> QED BY <1>1, <1>2 DEF Holds

(* Before a record is loaded.                                              *)
LEMMA HolderBegins ==
    ASSUME Readable, NEW v \in Worker, lease = v, pc'[v] # "idle", ReadActive(v) \/ Reserve(v)
    PROVE  Holds(v)'
<1>0. TypeOK /\ Knows(v) /\ ~reserved[v] /\ UNCHANGED <<journal, job, mem>>
  BY DEF Readable, JournalInv, Requests, Knows, ReadActive, Reserve, storeVars
<1>1. \/ pc'[v] \in {"reserve", "release"} /\ ~reserved'[v]
      \/ pc'[v] = "load" /\ active' = job'[v]
  BY <1>0, GotoAt DEF ReadActive, Reserve, storeVars, TypeOK
<1>2. pc'[v] \notin Loaded /\ pc'[v] # "saveStep"
  BY <1>1 DEF Loaded, Running
<1> QED BY <1>1, <1>2 DEF Holds, MayRelease

LEMMA HolderLoads ==
    ASSUME Readable, NEW v \in Worker, lease = v, Load(v)
    PROVE  Holds(v)'
<1>0. /\ TypeOK /\ pc[v] = "load" /\ job[v] \in Job /\ reserved[v] /\ active = job[v]
      /\ Good(job[v], journal[job[v]], Final)
  BY DEF Readable, JournalInv, SignerInv, Journaled, Requests, Knows, Holds, Load, TypeOK
<1>1. /\ UNCHANGED <<active, journal, job, mined, reserved>> /\ saved'[v] = journal[job[v]]
      /\ \/ pc'[v] \in {"initialize", "refresh"}
         \/ pc'[v] = "release" /\ journal[job[v]].done
  BY <1>0, GotoAt DEF Load, storeVars, chainVars, TypeOK
<1>2. pc'[v] = "release" => Uncertain(job[v])' = {}
  BY <1>0, <1>1, Settled DEF Uncertain, Saved, Final, Mined
<1> QED BY <1>0, <1>1, <1>2 DEF Holds

(* What fails before there is a record to lose.                            *)
LEMMA HolderFailsEarly ==
    ASSUME Readable, NEW v \in Worker, lease = v, pc[v] \in {"active", "reserve"}, pc'[v] = "release", UNCHANGED <<reserved>>
    PROVE  Holds(v)'
<1>1. ~reserved'[v]
  BY DEF Readable, JournalInv, Requests, Knows
<1>2. pc'[v] \notin Loaded
  BY DEF Loaded, Running
<1> QED BY <1>1, <1>2 DEF Holds, MayRelease

(* Signing: the nonce is the chain's next.                                 *)
LEMMA HolderSigns ==
    ASSUME Readable, NEW v \in Worker, lease = v, Prepare(v)
    PROVE  Holds(v)'
<1>0. /\ TypeOK /\ Chain /\ RequestOf(v) /\ Holds(v) /\ JournalInv /\ SignerInv /\ pc[v] = "prepare"
      /\ pc[v] \in Loaded
  BY DEF Readable, JournalInv, SignerInv, Requests, RequestOf, Prepare, Loaded, Running
<1>1. UNCHANGED <<active, journal, job, saved, reserved, mined>> /\ pc'[v] = "saveStep"
  BY <1>0, GotoAt DEF Prepare, storeVars, chainVars
<1>2. active' = job'[v] /\ journal'[job'[v]] = saved'[v]
  BY <1>0, <1>1, SignsAlone DEF Holds
<1>3. Bytes(v)' = NextTx(v) /\ NextTx(v).nonce = Len(mined)
  BY <1>0, SignsAlone, SignedBytes, NonceOf DEF NextTx, TypeOK
<1> QED BY <1>1, <1>2, <1>3 DEF Holds, Bytes

(* Saving.                                                                 *)
LEMMA HolderSaves ==
    ASSUME Readable, NEW v \in Worker, lease = v, SavePlan(v) \/ SaveStep(v) \/ SaveResult(v)
    PROVE  Holds(v)'
<1>0. TypeOK /\ Holds(v) /\ pc[v] \in Loaded /\ pc[v] \in {"savePlan", "saveStep", "saveResult"} /\ job[v] \in Job
  BY DEF Readable, JournalInv, SignerInv, Requests, Knows, SavePlan, SaveStep, SaveResult, Loaded, Running, TypeOK
<1>1. journal[job[v]] = saved[v]
  BY <1>0 DEF Holds
<1>2. /\ UNCHANGED <<active, job, mem, reserved>> /\ saved'[v] = mem[v] /\ journal'[job[v]] = mem[v]
      /\ pc'[v] \in {"refresh", "receipt", "release"}
  BY <1>0, <1>1, GotoAt DEF SavePlan, SaveStep, SaveResult, Save, TypeOK
<1>3. CASE pc'[v] = "release"
  BY <1>0, <1>2, <1>3, HolderLeaves
<1>4. CASE pc'[v] \in {"refresh", "receipt"}
  <2>1. pc'[v] \in Loaded \ {"saveStep"}
    BY <1>4 DEF Loaded, Running
  <2> QED BY <1>0, <1>2, <2>1, HolderGoesOn
<1> QED BY <1>2, <1>3, <1>4

(* The steps of a request that leave journal and record alone.             *)
LEMMA HolderWorks ==
    ASSUME Readable, NEW v \in Worker, lease = v,
           \/ Initialize(v) \/ Refresh(v) \/ RefreshAgain(v) \/ LastRefresh(v)
           \/ ReadReceipt(v) \/ Broadcast(v) \/ Wait(v) \/ Complete(v)
    PROVE  Holds(v)'
<1>0. TypeOK /\ Holds(v) /\ pc[v] \in Loaded /\ pc[v] # "idle" /\ job[v] \in Job
  BY DEF Readable, JournalInv, SignerInv, Requests, Knows, Loaded, Running, TypeOK, Initialize, Refresh, RefreshAgain,
         LastRefresh, RefreshAt, ReadReceipt, Broadcast, Wait, Complete
<1>1. UNCHANGED <<active, journal, job, saved, reserved>>
  BY DEF Initialize, Refresh, RefreshAgain, LastRefresh, RefreshAt, ReadReceipt, Broadcast, Wait, Complete, storeVars
<1>2. \/ pc'[v] = "release" /\ mem' = mem
      \/ pc'[v] \in {"savePlan", "prepare", "receipt", "broadcast", "saveResult", "refresh", "complete", "refreshAgain",
                     "wait", "lastRefresh"}
  <2>1. CASE Initialize(v)
    BY <1>0, <2>1, GotoAt DEF Initialize
  <2>2. CASE Refresh(v) \/ RefreshAgain(v) \/ LastRefresh(v)
    BY <1>0, <2>2, GotoAt DEF Refresh, RefreshAgain, LastRefresh, RefreshAt
  <2>3. CASE ReadReceipt(v) \/ Wait(v)
    BY <1>0, <2>3, GotoAt DEF ReadReceipt, Wait, Receipt
  <2>4. CASE Broadcast(v) \/ Complete(v)
    BY <1>0, <2>4, GotoAt DEF Broadcast, Complete
  <2> QED BY <2>1, <2>2, <2>3, <2>4
<1>3. CASE pc'[v] = "release" /\ mem' = mem
  BY <1>0, <1>1, <1>3, HolderLeaves
<1>4. CASE pc'[v] \in {"savePlan", "prepare", "receipt", "broadcast", "saveResult", "refresh", "complete", "refreshAgain",
                     "wait", "lastRefresh"}
  <2>1. pc'[v] \in Loaded \ {"saveStep"}
    BY <1>4 DEF Loaded, Running
  <2>2. journal'[job[v]] = saved'[v]
    BY <1>0, <1>1 DEF Holds
  <2> QED BY <1>0, <1>1, <2>1, <2>2, HolderGoesOn
<1> QED BY <1>2, <1>3, <1>4

(* Failures: of a call, or of its reply.                                   *)
LEMMA HolderFails ==
    ASSUME Readable, NEW v \in Worker, lease = v, pc[v] # "idle", pc'[v] # "idle", CallFails(v) \/ ReplyLost(v)
    PROVE  Holds(v)'
<1>0. TypeOK /\ Throw(v) /\ ~UnreadableJournal
  BY DEF Readable, JournalInv, CallFails, ReplyLost
<1>1. pc'[v] = "release" /\ UNCHANGED <<job, mem, saved, reserved>> /\ pc[v] \notin Leaving
  BY <1>0, GotoAt DEF Throw, Forget, Leaving
<1>2. pc[v] # "load"
  BY <1>0 DEF CallFails, ReplyLost
<1>3. CASE pc[v] \in {"active", "reserve"}
  BY <1>1, <1>3, HolderFailsEarly
<1>4. CASE pc[v] \in Loaded
  <2>1. job[v] \in Job
    BY <1>4 DEF Readable, JournalInv, Requests, Knows, TypeOK, Loaded, Running
  <2>2. active' = active /\ journal'[job[v]] \in {journal[job[v]], mem[v]}
    BY <1>0, <1>1, <1>4, <2>1 DEF CallFails, ReplyLost, storeVars, Loaded, Running, Leaving, TypeOK
  <2> QED BY <1>1, <1>4, <2>2, HolderLeaves
<1>5. pc[v] \in {"active", "reserve"} \cup Loaded
  <2>1. pc[v] \in PC
    BY <1>0 DEF TypeOK
  <2> QED BY <1>1, <1>2, <2>1 DEF PC, Loaded, Running, Leaving
<1> QED BY <1>3, <1>4, <1>5

(* Every step keeps what the holder of the lease relies on.                *)
LEMMA HoldsStep ==
    ASSUME Readable, NEW v \in Worker
    PROVE  Holds(v)'
<1> SUFFICES ASSUME lease' = v, pc'[v] # "idle" PROVE Holds(v)'
  BY DEF Holds
<1>0. TypeOK /\ [Next]_vars
  BY DEF Readable, JournalInv
<1>1. CASE pc'[v] = "active" /\ ~reserved'[v]
  <2>1. pc'[v] \notin Loaded
    BY <1>1 DEF Loaded, Running
  <2> QED BY <1>1, <2>1 DEF Holds
<1>2. CASE lease = v /\ pc[v] # "idle" /\ Unmoved(v)
  BY <1>2, HolderRests
<1>3. CASE lease = v /\ pc[v] # "idle" /\ Moves(v)
  <2>1. CASE ReadActive(v) \/ Reserve(v)
    BY <1>3, <2>1, HolderBegins
  <2>2. CASE Load(v)
    BY <1>3, <2>2, HolderLoads
  <2>3. CASE Prepare(v)
    BY <1>3, <2>3, HolderSigns
  <2>4. CASE SavePlan(v) \/ SaveStep(v) \/ SaveResult(v)
    BY <1>3, <2>4, HolderSaves
  <2>5. CASE \/ Initialize(v) \/ Refresh(v) \/ RefreshAgain(v) \/ LastRefresh(v)
             \/ ReadReceipt(v) \/ Broadcast(v) \/ Wait(v) \/ Complete(v)
    BY <1>3, <2>5, HolderWorks
  <2>6. CASE Release(v)
    <3>1. pc'[v] = "unlock" /\ pc'[v] \notin Loaded
      BY <1>0, <2>6, GotoAt DEF Release, Loaded, Running
    <3> QED BY <3>1 DEF Holds
  <2>7. CASE CallFails(v) \/ ReplyLost(v)
    BY <1>3, <2>7, HolderFails
  <2>8. ~Unlock(v) /\ ~Crash(v) /\ ~\E j \in Job : Begin(v, j)
    BY <1>0, <1>3, GotoAt DEF Unlock, Crash, Forget, Begin
  <2> QED BY <1>3, <2>1, <2>2, <2>3, <2>4, <2>5, <2>6, <2>7, <2>8 DEF Moves, Run, Environment
<1> QED BY <1>0, <1>1, <1>2, <1>3, StillHolds, WhoMoves

LEMMA InitSignerInv == Init => SignerInv
BY DEF Init, SignerInv, Holds, ReservationKept, NoncesDistinct, Uncertain, Saved, NoRecord

LEMMA SignerInvHolds == ASSUME ~UnreadableJournal PROVE Spec => []SignerInv
<1>1. JournalInv /\ SignerInv /\ [Next]_vars /\ JournalInv' => SignerInv'
  <2>1. JournalInv /\ SignerInv /\ [Next]_vars /\ JournalInv' => Readable
    BY DEF Readable
  <2>2. Readable => \A w \in Worker : Holds(w)'
    BY HoldsStep
  <2> QED BY <2>1, <2>2, ReservationStep, NoncesStep DEF SignerInv
<1> QED BY <1>1, InitSignerInv, JournalInvHolds, PTL DEF Spec

(* While a saved transaction is not final, the signer stays reserved for   *)
(* its job, whoever crashes, stalls or loses a reply                       *)
(* (signing-job.ts:23-24, 74-78).                                          *)
THEOREM ReservationOutlives == ASSUME ~UnreadableJournal PROVE Spec => []ReservationKept
<1>1. SignerInv => ReservationKept
  BY DEF SignerInv
<1> QED BY <1>1, SignerInvHolds, PTL

(* Two saved transactions never compete for a nonce of the signer          *)
(* (signing-job.ts:39, 56-59).                                             *)
THEOREM NoncesNeverShared == ASSUME ~UnreadableJournal PROVE Spec => []NoncesDistinct
<1>1. SignerInv => NoncesDistinct
  BY DEF SignerInv
<1> QED BY <1>1, SignerInvHolds, PTL

=============================================================================
