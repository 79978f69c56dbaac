------------------------------ MODULE FileStore ------------------------------
(***************************************************************************)
(* The disk backend of src/server/durable-store.ts (class FileStore): one  *)
(* file per key, and one lock file around every compareAndSet.  Processes  *)
(* may die anywhere, also while they hold the lock, and values expire at   *)
(* any moment, also between a check and the write it permits.              *)
(***************************************************************************)
EXTENDS Integers, TLAPS

CONSTANTS
    Client,     \* processes that share the directory
    Key, Value, None, NoKey, NoClient,
    Lasting,    \* keys written without a time to live
    Requests,   \* bound: the calls the instance makes
    MaxCrashes  \* bound: processes that die, locks that cannot be removed

FileStoreAssumption ==
    /\ None \notin Value /\ NoKey \notin Key /\ NoClient \notin Client
    /\ Lasting \subseteq Key
    /\ Requests \subseteq [key : Key, expected : Value \cup {None}, next : Value \cup {None},
                           guard : Key \cup {NoKey}, held : Value]
    /\ Requests # {}
    \* Every caller guards its write with a key of its own, the lease of a signer.
    /\ \A r \in Requests : r.guard # r.key
    /\ MaxCrashes \in Nat

VARIABLES
    file,       \* key -> the value in its file, or None when there is no file
    expired,    \* the keys whose file says a time that has passed
    lock,       \* who created mutation.lock, while the file exists
    pc,         \* client -> the await it is at
    asked,      \* client -> the request of its call
    dead,       \* processes that have stopped
    crashes

vars == <<file, expired, lock, pc, asked, dead, crashes>>
diskVars == <<file, expired>>

PC == {"none", "lock", "guard", "expected", "write", "true", "false", "error"}

NoRequest == CHOOSE r \in Requests : TRUE

Init ==
    /\ file = [k \in Key |-> None]
    /\ expired = {}
    /\ lock = NoClient
    /\ pc = [c \in Client |-> "none"]
    /\ asked = [c \in Client |-> NoRequest]
    /\ dead = {}
    /\ crashes = 0

Goto(c, l) == pc' = [pc EXCEPT ![c] = l]
At(c, l) == c \notin dead /\ pc[c] = l

\* get: an expired file reads as none.
Get(k) == IF k \in expired THEN None ELSE file[k]

Call(c, r) ==
    /\ At(c, "none")
    /\ asked' = [asked EXCEPT ![c] = r]
    /\ Goto(c, "lock")
    /\ UNCHANGED <<diskVars, lock, dead, crashes>>

\* Mutated form of Acquire: a lock that stays too long is taken over.
Seize(c) ==
    /\ At(c, "lock")
    /\ lock' = c
    /\ Goto(c, "guard")
    /\ UNCHANGED <<diskVars, asked, dead, crashes>>

\* open(lockPath, 'wx') succeeds for one.
Acquire(c) ==
    /\ At(c, "lock")
    /\ lock = NoClient
    /\ lock' = c
    /\ Goto(c, "guard")
    /\ UNCHANGED <<diskVars, asked, dead, crashes>>

\* A hundred times ten milliseconds later the lock is still there.
GiveUp(c) ==
    /\ At(c, "lock")
    /\ lock # NoClient
    /\ Goto(c, "error")
    /\ UNCHANGED <<diskVars, lock, asked, dead, crashes>>

CheckGuard(c) ==
    /\ At(c, "guard")
    /\ Goto(c, IF asked[c].guard # NoKey /\ Get(asked[c].guard) # asked[c].held
               THEN "false" ELSE "expected")
    /\ UNCHANGED <<diskVars, lock, asked, dead, crashes>>

\* The comparison fails into the finally block, where the answer is known.
CheckExpected(c) ==
    /\ At(c, "expected")
    /\ Goto(c, IF Get(asked[c].key) = asked[c].expected THEN "write" ELSE "false")
    /\ UNCHANGED <<diskVars, lock, asked, dead, crashes>>

\* The temporary file is renamed over the old one, or the old one unlinked.
Write(c) ==
    /\ At(c, "write")
    /\ file' = [file EXCEPT ![asked[c].key] = asked[c].next]
    /\ expired' = expired \ {asked[c].key}
    /\ Goto(c, "true")
    /\ UNCHANGED <<lock, asked, dead, crashes>>

\* finally: close and unlink the lock; the answer leaves when that is done.
Unlock(c) ==
    /\ At(c, "true") \/ At(c, "false")
    /\ lock = c
    /\ lock' = NoClient
    /\ UNCHANGED <<diskVars, pc, asked, dead, crashes>>

\* A read, a write or the removal of the lock fails and the call throws.
IOFails(c) ==
    /\ crashes < MaxCrashes /\ crashes' = crashes + 1
    /\ pc[c] \in {"guard", "expected", "write", "true", "false"} /\ c \notin dead /\ lock = c
    /\ Goto(c, "error")
    /\ \/ lock' = NoClient
       \/ UNCHANGED lock
    /\ UNCHANGED <<diskVars, asked, dead>>

\* The promise is settled and the caller goes on.
Return(c) ==
    /\ pc[c] \in {"true", "false", "error"} /\ c \notin dead
    /\ lock = c => pc[c] = "error"
    /\ Goto(c, "none")
    /\ asked' = [asked EXCEPT ![c] = NoRequest]
    /\ UNCHANGED <<diskVars, lock, dead, crashes>>

Crash(c) ==
    /\ crashes < MaxCrashes /\ crashes' = crashes + 1
    /\ c \notin dead /\ pc[c] # "none"
    /\ dead' = dead \cup {c}
    /\ UNCHANGED <<diskVars, lock, pc, asked>>

\* The operator stops the writers and removes a lock nobody is behind.
RemoveLock ==
    /\ lock # NoClient
    /\ lock \in dead \/ pc[lock] \in {"none", "error"}
    /\ lock' = NoClient
    /\ UNCHANGED <<diskVars, pc, asked, dead, crashes>>

Restart(c) ==
    /\ c \in dead /\ lock # c
    /\ dead' = dead \ {c}
    /\ Goto(c, "none")
    /\ asked' = [asked EXCEPT ![c] = NoRequest]
    /\ UNCHANGED <<diskVars, lock, crashes>>

Expire(k) ==
    /\ file[k] # None /\ k \notin Lasting \cup expired
    /\ expired' = expired \cup {k}
    /\ UNCHANGED <<file, lock, pc, asked, dead, crashes>>

Run(c) ==
    \/ Acquire(c) \/ GiveUp(c) \/ CheckGuard(c) \/ CheckExpected(c) \/ Write(c)
    \/ Unlock(c) \/ Return(c)

Next ==
    \/ \E c \in Client :
          (\E r \in Requests : Call(c, r)) \/ Run(c) \/ IOFails(c) \/ Crash(c) \/ Restart(c)
    \/ RemoveLock
    \/ \E k \in Key : Expire(k)

Spec == Init /\ [][Next]_vars

\* A process that lives runs on.
FairSpec == Spec /\ \A c \in Client : WF_vars(Run(c))

-----------------------------------------------------------------------------
TypeOK ==
    /\ file \in [Key -> Value \cup {None}]
    /\ expired \subseteq {k \in Key : file[k] # None}
    /\ lock \in Client \cup {NoClient}
    /\ pc \in [Client -> PC]
    /\ asked \in [Client -> Requests]
    /\ dead \subseteq Client
    /\ crashes \in 0 .. MaxCrashes

\* Keys whose value the lock's holder has checked and still acts on: to the
\* store's other users, who must wait, their expiry has not happened yet.
Checked ==
    IF lock = NoClient THEN {}
    ELSE (IF pc[lock] \in {"expected", "write"} THEN {asked[lock].guard} ELSE {})
         \cup (IF pc[lock] = "write" /\ asked[lock].expected # None THEN {asked[lock].key} ELSE {})

Seen(k) == IF k \in expired \ Checked THEN None ELSE file[k]

Stage(l) ==
    IF l \in {"none", "true", "false", "error"} THEN l ELSE "asked"

SeenAll == [k \in Key |-> Seen(k)]
Staged == [c \in Client |-> Stage(pc[c])]

Abstract == INSTANCE AtomicStore WITH kept <- SeenAll, call <- Staged

(* compareAndSet on disk is as atomic as the Redis script: whatever other  *)
(* processes write, whoever dies and whatever expires halfway, each answer *)
(* is that of guard, comparison and write at one moment                    *)
(* (durable-store.ts:21-30, 65-93).                                        *)
ImplementsAtomicStore == Abstract!StoreSpec

(* A lock left behind by a process that died fails its writers, but hangs  *)
(* none of them: every call of a living process is answered                *)
(* (durable-store.ts:69-77).                                               *)
EveryCallAnswered == \A c \in Client : pc[c] = "lock" ~> pc[c] # "lock" \/ c \in dead

-----------------------------------------------------------------------------
(* The invariant behind the atomicity: whoever acts under the lock has it, *)
(* and what was checked under it still holds.                              *)
Acting(c) == c \notin dead /\ pc[c] \in {"guard", "expected", "write"}

Exclusive == \A c \in Client : Acting(c) => lock = c

GuardChecked ==
    \A c \in Client : Acting(c) /\ pc[c] # "guard" /\ asked[c].guard # NoKey =>
        file[asked[c].guard] = asked[c].held

ExpectedChecked ==
    \A c \in Client : Acting(c) /\ pc[c] = "write" =>
        IF asked[c].expected = None THEN Get(asked[c].key) = None
        ELSE file[asked[c].key] = asked[c].expected

DeadWereCalling == \A c \in dead : pc[c] # "none"

IInv ==
    /\ TypeOK /\ expired \cap Lasting = {}
    /\ Exclusive /\ GuardChecked /\ ExpectedChecked /\ DeadWereCalling

-----------------------------------------------------------------------------

(* What the steps need to know of a request.                               *)
LEMMA RequestFacts ==
    ASSUME FileStoreAssumption, NEW r \in Requests
    PROVE  /\ r \in Abstract!Request
           /\ r.key \in Key /\ r.guard \in Key \cup {NoKey} /\ r.held \in Value
           /\ r.expected \in Value \cup {None} /\ r.next \in Value \cup {None}
           /\ r.guard # r.key
BY DEF FileStoreAssumption, Abstract!Request

LEMMA NoRequestIsOne == ASSUME FileStoreAssumption PROVE NoRequest \in Requests
BY DEF FileStoreAssumption, NoRequest

-----------------------------------------------------------------------------
(* The lock file excludes whoever does not hold it, so that what was       *)
(* checked under it still holds when it is written.                        *)
LEMMA InitIInv == ASSUME FileStoreAssumption, Init PROVE IInv
BY NoRequestIsOne
   DEF FileStoreAssumption, Init, IInv, TypeOK, PC, Exclusive, GuardChecked, ExpectedChecked,
       Acting, DeadWereCalling

(* A client that leaves what it was at for a place where it acts on        *)
(* nothing, and the others as they were.                                   *)
LEMMA StopsActing ==
    ASSUME IInv, NEW c \in Client, NEW l \in {"none", "lock", "true", "false", "error"}, Goto(c, l),
           \A d \in Client \ {c} : asked'[d] = asked[d], asked' \in [Client -> Requests],
           UNCHANGED diskVars, dead' \subseteq dead, dead \subseteq dead' \cup {c},
           l = "none" => c \notin dead',
           lock' = lock \/ lock = c, lock' \in Client \cup {NoClient},
           crashes' \in 0 .. MaxCrashes
    PROVE  IInv'
<1> USE DEF IInv, Goto, diskVars, PC
<1>1. TypeOK' /\ (expired \cap Lasting = {})'
  BY DEF TypeOK
<1>2. pc'[c] = l /\ \A d \in Client \ {c} : pc'[d] = pc[d]
  BY DEF TypeOK
<1>3. ~Acting(c)'
  BY <1>2 DEF Acting
<1>4. \A d \in Client \ {c} : Acting(d)' => Acting(d)
  BY <1>2 DEF Acting
<1>5. Exclusive'
  BY <1>3, <1>4 DEF Exclusive
<1>6. GuardChecked'
  BY <1>2, <1>3, <1>4 DEF GuardChecked
<1>7. ExpectedChecked'
  BY <1>2, <1>3, <1>4 DEF ExpectedChecked, Get
<1>8. DeadWereCalling'
  BY <1>2 DEF DeadWereCalling, TypeOK
<1> QED
  BY <1>1, <1>5, <1>6, <1>7, <1>8

LEMMA AcquireIInv == ASSUME FileStoreAssumption, IInv, NEW c \in Client, Acquire(c) PROVE IInv'
<1> USE DEF IInv, Acquire, Goto, At, diskVars, PC
<1>1. TypeOK' /\ (expired \cap Lasting = {})'
  BY DEF TypeOK
<1>2. pc'[c] = "guard" /\ \A d \in Client \ {c} : pc'[d] = pc[d]
  BY DEF TypeOK
<1>3. \A d \in Client : ~Acting(d)
  BY DEF Exclusive, FileStoreAssumption
<1>4. \A d \in Client \ {c} : ~Acting(d)'
  BY <1>2, <1>3 DEF Acting
<1>5. Exclusive' /\ GuardChecked' /\ ExpectedChecked'
  BY <1>2, <1>4 DEF Exclusive, GuardChecked, ExpectedChecked
<1>6. DeadWereCalling'
  BY <1>2 DEF DeadWereCalling, TypeOK
<1> QED
  BY <1>1, <1>5, <1>6

LEMMA CheckIInv ==
    ASSUME FileStoreAssumption, IInv, NEW c \in Client, CheckGuard(c) \/ CheckExpected(c)
    PROVE  IInv'
<1> USE DEF IInv, Goto, At, diskVars, PC
<1>0. UNCHANGED <<diskVars, lock, asked, dead, crashes>> /\ c \notin dead /\ pc[c] \in {"guard", "expected"}
  BY DEF CheckGuard, CheckExpected
<1>1. PICK l \in {"expected", "write", "false"} : pc' = [pc EXCEPT ![c] = l]
  BY DEF CheckGuard, CheckExpected
<1>2. TypeOK' /\ (expired \cap Lasting = {})'
  BY <1>0, <1>1 DEF TypeOK
<1>3. pc'[c] = l /\ \A d \in Client \ {c} : pc'[d] = pc[d]
  BY <1>1 DEF TypeOK
<1>4. Acting(c)
  BY <1>0 DEF Acting
<1>5. \A d \in Client : Acting(d)' => Acting(d)
  BY <1>0, <1>3, <1>4 DEF Acting
<1>6. Exclusive'
  BY <1>0, <1>5 DEF Exclusive
<1>7. GuardChecked'
  <2>1. ASSUME Acting(c)', asked[c].guard # NoKey PROVE file[asked[c].guard] = asked[c].held
    <3>1. CASE pc[c] = "expected"
      BY <1>4, <2>1, <3>1 DEF GuardChecked
    <3>2. CASE CheckGuard(c)
      <4>1. Get(asked[c].guard) = asked[c].held
        BY <1>3, <2>1, <3>2 DEF CheckGuard, Acting, TypeOK
      <4>2. asked[c].held # None
        BY RequestFacts DEF TypeOK, FileStoreAssumption
      <4> QED
        BY <4>1, <4>2 DEF Get
    <3> QED
      BY <3>1, <3>2 DEF CheckExpected
  <2> QED
    BY <1>0, <1>3, <1>5, <2>1 DEF GuardChecked
<1>8. ExpectedChecked'
  <2>1. ASSUME Acting(c)', pc'[c] = "write"
        PROVE  IF asked[c].expected = None THEN Get(asked[c].key) = None
               ELSE file[asked[c].key] = asked[c].expected
    <3>1. Get(asked[c].key) = asked[c].expected
      BY <1>3, <2>1 DEF CheckGuard, CheckExpected, TypeOK
    <3> QED
      BY <3>1 DEF Get
  <2>2. \A k : Get(k)' = Get(k)
    BY <1>0 DEF Get
  <2> QED
    BY <1>0, <1>3, <1>5, <2>1, <2>2 DEF ExpectedChecked
<1>9. DeadWereCalling'
  BY <1>0, <1>3 DEF DeadWereCalling, TypeOK
<1> QED
  BY <1>2, <1>6, <1>7, <1>8, <1>9

LEMMA WriteIInv == ASSUME FileStoreAssumption, IInv, NEW c \in Client, Write(c) PROVE IInv'
<1> USE DEF IInv, Write, Goto, At, PC
<1>0. asked[c].key \in Key /\ asked[c].next \in Value \cup {None}
  BY RequestFacts DEF TypeOK
<1>1. TypeOK' /\ (expired \cap Lasting = {})'
  BY <1>0 DEF TypeOK
<1>2. pc'[c] = "true" /\ \A d \in Client \ {c} : pc'[d] = pc[d]
  BY DEF TypeOK
<1>3. lock = c
  BY DEF Exclusive, Acting
<1>4. \A d \in Client : ~Acting(d)'
  BY <1>2, <1>3 DEF Acting, Exclusive
<1>5. Exclusive' /\ GuardChecked' /\ ExpectedChecked'
  BY <1>4 DEF Exclusive, GuardChecked, ExpectedChecked
<1>6. DeadWereCalling'
  BY <1>2 DEF DeadWereCalling, TypeOK
<1> QED
  BY <1>1, <1>5, <1>6

(* The lock goes from a holder that does not act: its own unlinking, the   *)
(* operator's.                                                             *)
LEMMA LockFreedIInv ==
    ASSUME IInv, lock \in Client => ~Acting(lock), lock' = NoClient, UNCHANGED <<diskVars, pc, asked, dead, crashes>>
    PROVE  IInv'
<1> USE DEF IInv, diskVars
<1>1. \A c \in Client : ~Acting(c)
  BY DEF Exclusive
<1>2. \A c \in Client : ~Acting(c)'
  BY <1>1 DEF Acting
<1> QED
  BY <1>2 DEF TypeOK, Exclusive, GuardChecked, ExpectedChecked, DeadWereCalling

LEMMA CrashIInv == ASSUME FileStoreAssumption, IInv, NEW c \in Client, Crash(c) PROVE IInv'
<1> USE DEF IInv, Crash, diskVars
<1>1. crashes' \in 0 .. MaxCrashes
  BY DEF TypeOK, FileStoreAssumption
<1>2. \A d \in Client : Acting(d)' => Acting(d)
  BY DEF Acting
<1> QED
  BY <1>1, <1>2 DEF TypeOK, Exclusive, GuardChecked, ExpectedChecked, Get, DeadWereCalling

LEMMA ExpireIInv == ASSUME FileStoreAssumption, IInv, NEW k \in Key, Expire(k) PROVE IInv'
<1> USE DEF IInv, Expire
<1>1. \A d \in Client : Acting(d)' <=> Acting(d)
  BY DEF Acting
<1>2. \A j : Get(j) = None => Get(j)' = None
  BY DEF Get
<1> QED
  BY <1>1, <1>2 DEF TypeOK, Exclusive, GuardChecked, ExpectedChecked, DeadWereCalling

LEMMA StopIInv ==
    ASSUME FileStoreAssumption, IInv, NEW c \in Client,
           (\E r \in Requests : Call(c, r)) \/ GiveUp(c) \/ IOFails(c) \/ Return(c) \/ Restart(c)
    PROVE  IInv'
<1> USE DEF IInv
<1>1. lock \in Client \cup {NoClient} /\ crashes \in 0 .. MaxCrashes /\ asked \in [Client -> Requests]
  BY DEF TypeOK
<1>2. ASSUME NEW r \in Requests, Call(c, r) PROVE IInv'
  <2>1. asked' \in [Client -> Requests] /\ \A d \in Client \ {c} : asked'[d] = asked[d]
    BY <1>1, <1>2 DEF Call
  <2> QED
    BY <1>1, <1>2, <2>1, StopsActing DEF Call
<1>3. CASE GiveUp(c)
  BY <1>1, <1>3, StopsActing DEF GiveUp
<1>4. CASE IOFails(c)
  <2>1. crashes' \in 0 .. MaxCrashes
    BY <1>1, <1>4 DEF IOFails, FileStoreAssumption
  <2> QED
    BY <1>1, <1>4, <2>1, StopsActing DEF IOFails
<1>5. CASE Return(c)
  <2>1. asked' \in [Client -> Requests] /\ \A d \in Client \ {c} : asked'[d] = asked[d]
    BY <1>1, <1>5, NoRequestIsOne DEF Return
  <2> QED
    BY <1>1, <1>5, <2>1, StopsActing DEF Return
<1>6. CASE Restart(c)
  <2>1. asked' \in [Client -> Requests] /\ \A d \in Client \ {c} : asked'[d] = asked[d]
    BY <1>1, <1>6, NoRequestIsOne DEF Restart
  <2> QED
    BY <1>1, <1>6, <2>1, StopsActing DEF Restart
<1> QED
  BY <1>2, <1>3, <1>4, <1>5, <1>6

LEMMA NextIInv == ASSUME FileStoreAssumption, IInv, [Next]_vars PROVE IInv'
<1>1. CASE UNCHANGED vars
  BY <1>1 DEF vars, diskVars, IInv, TypeOK, Exclusive, GuardChecked, ExpectedChecked, Acting, Get, DeadWereCalling
<1>2. ASSUME NEW c \in Client, Unlock(c) PROVE IInv'
  <2>1. ~Acting(c) /\ lock = c
    BY <1>2 DEF Unlock, At, Acting
  <2> QED
    BY <1>2, <2>1, LockFreedIInv DEF Unlock
<1>3. CASE RemoveLock
  <2>1. lock \in Client => ~Acting(lock)
    BY <1>3 DEF RemoveLock, Acting
  <2> QED
    BY <1>3, <2>1, LockFreedIInv DEF RemoveLock
<1> QED
  BY <1>1, <1>2, <1>3, AcquireIInv, CheckIInv, WriteIInv, CrashIInv, ExpireIInv, StopIInv DEF Next, Run

-----------------------------------------------------------------------------

(* Every step is one of the atomic store, or time passing there.            *)
\* Nothing is seen that was not there: what others see may only end.
LEMMA SeenEnds ==
    ASSUME FileStoreAssumption, IInv, IInv', file' = file, expired \ Checked \subseteq (expired \ Checked)'
    PROVE  SeenAll' \in Abstract!Later(SeenAll)
<1> DEFINE ended == (expired \ Checked)'
<1>1. ended \in SUBSET (Key \ Lasting)
  BY DEF IInv, TypeOK
<1>2. SeenAll' = [k \in Key |-> IF k \in ended THEN None ELSE SeenAll[k]]
  BY DEF SeenAll, Seen
<1> QED
  BY <1>1, <1>2 DEF Abstract!Later

\* Only the holder of the lock has checked anything.
LEMMA CheckedByHolder ==
    ASSUME FileStoreAssumption, IInv, NEW c \in Client, pc[c] \notin {"expected", "write"},
           lock' = lock \/ lock = c, pc'[c] \notin {"expected", "write"},
           \A d \in Client \ {c} : pc'[d] = pc[d] /\ asked'[d] = asked[d],
           lock' \in {lock, c, NoClient}
    PROVE  Checked' = Checked
BY DEF IInv, TypeOK, Checked, FileStoreAssumption

\* Where a call stands, after a step of its client.
LEMMA StageMoves ==
    ASSUME IInv, NEW c \in Client, NEW l \in PC, Goto(c, l)
    PROVE  Staged' = [Staged EXCEPT ![c] = Stage(l)] /\ Staged[c] = Stage(pc[c])
BY DEF IInv, TypeOK, Goto, Staged

\* A step nobody can tell from the passing of time.
LEMMA Lapses ==
    ASSUME FileStoreAssumption, IInv, IInv', UNCHANGED <<file, asked>>, Staged' = Staged,
           expired \ Checked \subseteq (expired \ Checked)'
    PROVE  Abstract!Lapse
<1>1. SeenAll' \in Abstract!Later(SeenAll)
  BY SeenEnds
<1> QED
  BY <1>1 DEF Abstract!Lapse, SeenAll, Staged

\* A call that begins, and one that is over, whatever its answer.
LEMMA CallMaps ==
    ASSUME FileStoreAssumption, IInv, IInv', NEW c \in Client, NEW r \in Requests, Call(c, r)
    PROVE  Abstract!Ask(c, r)
<1>1. pc[c] = "none" /\ pc'[c] = "lock" /\ \A d \in Client \ {c} : pc'[d] = pc[d] /\ asked'[d] = asked[d]
  BY DEF Call, At, Goto, IInv, TypeOK
<1>2. Checked' = Checked
  BY <1>1, CheckedByHolder DEF Call
<1>3. SeenAll' \in Abstract!Later(SeenAll)
  BY <1>2, SeenEnds DEF Call, diskVars
<1>4. Staged' = [Staged EXCEPT ![c] = "asked"] /\ Staged[c] = "none"
  BY <1>1, StageMoves DEF Call, Stage, PC
<1> QED
  BY <1>3, <1>4 DEF Abstract!Ask, SeenAll, Staged, Call

LEMMA OverMaps ==
    ASSUME FileStoreAssumption, IInv, IInv', NEW c \in Client, Return(c) \/ Restart(c)
    PROVE  Abstract!Return(c)
<1>1. /\ pc[c] # "none" /\ Goto(c, "none")
      /\ lock = c => pc[c] = "error"
      /\ asked' = [asked EXCEPT ![c] = NoRequest]
      /\ UNCHANGED <<diskVars, lock>>
  BY DEF Return, Restart, IInv, DeadWereCalling
<1>2. pc'[c] = "none" /\ \A d \in Client \ {c} : pc'[d] = pc[d] /\ asked'[d] = asked[d]
  BY <1>1 DEF Goto, IInv, TypeOK
<1>3. Checked' = Checked
  BY <1>1, <1>2 DEF Checked, IInv, TypeOK, FileStoreAssumption
<1>4. SeenAll' \in Abstract!Later(SeenAll)
  BY <1>1, <1>3, SeenEnds DEF diskVars
<1>5. Staged' = [Staged EXCEPT ![c] = "none"] /\ Staged[c] # "none"
  BY <1>1, StageMoves DEF Stage, PC
<1>6. \E r \in Abstract!Request : asked' = [asked EXCEPT ![c] = r]
  BY <1>1, NoRequestIsOne, RequestFacts
<1> QED
  BY <1>4, <1>5, <1>6 DEF Abstract!Return, SeenAll, Staged

\* A call that fails, before the write or after it.
LEMMA FailMaps ==
    ASSUME FileStoreAssumption, IInv, IInv', NEW c \in Client, GiveUp(c) \/ IOFails(c)
    PROVE  Abstract!Fail(c)
<1>1. /\ pc[c] \in {"lock", "guard", "expected", "write", "true", "false"} /\ Goto(c, "error")
      /\ lock = c \/ pc[c] = "lock"
      /\ lock' \in {lock, NoClient}
      /\ UNCHANGED <<diskVars, asked>>
  BY DEF GiveUp, IOFails, At
<1>2. pc'[c] = "error" /\ \A d \in Client \ {c} : pc'[d] = pc[d]
  BY <1>1 DEF Goto, IInv, TypeOK
<1>3. Checked' \subseteq Checked
  BY <1>1, <1>2 DEF Checked, IInv, TypeOK, FileStoreAssumption
<1>4. SeenAll' \in Abstract!Later(SeenAll)
  BY <1>1, <1>3, SeenEnds DEF diskVars
<1>5. Staged' = [Staged EXCEPT ![c] = "error"] /\ Staged[c] \in {"asked", "true", "false"}
  BY <1>1, StageMoves DEF Stage, PC
<1> QED
  BY <1>1, <1>4, <1>5 DEF Abstract!Fail, SeenAll, Staged

\* The guard does not hold now: this is the moment of the answer "false".
\* That it holds is seen by nobody.
LEMMA GuardMaps ==
    ASSUME FileStoreAssumption, IInv, IInv', NEW c \in Client, CheckGuard(c)
    PROVE  Abstract!Apply(c) \/ Abstract!Lapse
<1> USE DEF IInv
<1>1. asked[c] \in Requests /\ lock = c /\ lock # NoClient /\ pc[c] = "guard"
  BY DEF CheckGuard, At, TypeOK, Exclusive, Acting, FileStoreAssumption
<1>2. Checked = {}
  BY <1>1 DEF Checked
<1>3. CASE asked[c].guard # NoKey /\ Get(asked[c].guard) # asked[c].held
  <2>1. Goto(c, "false") /\ UNCHANGED <<diskVars, lock, asked>>
    BY <1>3 DEF CheckGuard
  <2>2. Staged' = [Staged EXCEPT ![c] = "false"] /\ Staged[c] = "asked"
    BY <1>1, <2>1, StageMoves DEF Stage, PC
  <2>3. SeenAll' \in Abstract!Later(SeenAll)
    <3>1. pc'[c] = "false"
      BY <2>1 DEF Goto, TypeOK
    <3>2. Checked' = {}
      BY <1>1, <2>1, <3>1 DEF Checked
    <3> QED
      BY <1>2, <2>1, <3>2, SeenEnds DEF diskVars
  <2>4. SeenAll[asked[c].guard] # asked[c].held
    <3>1. asked[c].guard \in Key
      BY <1>1, <1>3, RequestFacts
    <3> QED
      BY <1>2, <1>3, <3>1 DEF SeenAll, Seen, Get
  <2>5. ~Abstract!Holds(asked[c])
    BY <1>3, <2>4 DEF Abstract!Holds, SeenAll
  <2> QED
    BY <2>1, <2>2, <2>3, <2>5 DEF Abstract!Apply, SeenAll, Staged
<1>4. CASE ~(asked[c].guard # NoKey /\ Get(asked[c].guard) # asked[c].held)
  <2>1. Goto(c, "expected") /\ UNCHANGED <<diskVars, lock, asked>>
    BY <1>4 DEF CheckGuard
  <2>2. Staged' = [Staged EXCEPT ![c] = "asked"] /\ Staged[c] = "asked"
    BY <1>1, <2>1, StageMoves DEF Stage, PC
  <2>3. Staged' = Staged
    BY <2>2 DEF Staged
  <2>4. Checked' = {asked[c].guard}
    <3>1. pc'[c] = "expected"
      BY <2>1 DEF Goto, TypeOK
    <3> QED
      BY <1>1, <2>1, <3>1 DEF Checked
  <2>5. asked[c].guard \notin expired
    <3>1. asked[c].held # None
      BY <1>1, RequestFacts DEF FileStoreAssumption
    <3> QED
      BY <1>4, <3>1 DEF Get, TypeOK, FileStoreAssumption
  <2>6. expired \ Checked \subseteq (expired \ Checked)'
    BY <2>1, <2>4, <2>5 DEF diskVars
  <2> QED
    BY <2>1, <2>3, <2>6, Lapses DEF diskVars
<1> QED
  BY <1>3, <1>4

\* The same of the expected value.
LEMMA ExpectedMaps ==
    ASSUME FileStoreAssumption, IInv, IInv', NEW c \in Client, CheckExpected(c)
    PROVE  Abstract!Apply(c) \/ Abstract!Lapse
<1> USE DEF IInv
<1>1. asked[c] \in Requests /\ lock = c /\ lock # NoClient /\ pc[c] = "expected"
  BY DEF CheckExpected, At, TypeOK, Exclusive, Acting, FileStoreAssumption
<1>2. Checked = {asked[c].guard}
  BY <1>1 DEF Checked
<1>3. asked[c].key \in Key /\ asked[c].key # asked[c].guard
  BY <1>1, RequestFacts
<1>4. CASE Get(asked[c].key) # asked[c].expected
  <2>1. Goto(c, "false") /\ UNCHANGED <<diskVars, lock, asked>>
    BY <1>4 DEF CheckExpected
  <2>2. Staged' = [Staged EXCEPT ![c] = "false"] /\ Staged[c] = "asked"
    BY <1>1, <2>1, StageMoves DEF Stage, PC
  <2>3. SeenAll' \in Abstract!Later(SeenAll)
    <3>1. pc'[c] = "false"
      BY <2>1 DEF Goto, TypeOK
    <3>2. Checked' = {}
      BY <1>1, <2>1, <3>1 DEF Checked
    <3> QED
      BY <2>1, <3>2, SeenEnds DEF diskVars
  <2>4. SeenAll[asked[c].key] # asked[c].expected
    BY <1>2, <1>3, <1>4 DEF SeenAll, Seen, Get
  <2>5. ~Abstract!Holds(asked[c])
    BY <2>4 DEF Abstract!Holds, SeenAll
  <2> QED
    BY <2>1, <2>2, <2>3, <2>5 DEF Abstract!Apply, SeenAll, Staged
<1>5. CASE Get(asked[c].key) = asked[c].expected
  <2>1. Goto(c, "write") /\ UNCHANGED <<diskVars, lock, asked>>
    BY <1>5 DEF CheckExpected
  <2>2. Staged' = [Staged EXCEPT ![c] = "asked"] /\ Staged[c] = "asked"
    BY <1>1, <2>1, StageMoves DEF Stage, PC
  <2>3. Staged' = Staged
    BY <2>2 DEF Staged
  <2>4. Checked' = {asked[c].guard} \cup (IF asked[c].expected # None THEN {asked[c].key} ELSE {})
    <3>1. pc'[c] = "write"
      BY <2>1 DEF Goto, TypeOK
    <3> QED
      BY <1>1, <2>1, <3>1 DEF Checked
  <2>5. asked[c].expected # None => asked[c].key \notin expired
    BY <1>5 DEF Get
  <2>6. expired \ Checked \subseteq (expired \ Checked)'
    BY <1>2, <2>1, <2>4, <2>5 DEF diskVars
  <2> QED
    BY <2>1, <2>3, <2>6, Lapses DEF diskVars
<1> QED
  BY <1>4, <1>5

\* The write is the moment of the answer "true": guard and expected value,
\* checked before, hold now.
LEMMA WriteMaps ==
    ASSUME FileStoreAssumption, IInv, IInv', NEW c \in Client, Write(c)
    PROVE  Abstract!Apply(c)
<1> USE DEF IInv
<1> DEFINE r == asked[c]
<1>1. r \in Requests /\ lock = c /\ lock # NoClient /\ pc[c] = "write" /\ Acting(c)
  BY DEF Write, At, TypeOK, Exclusive, Acting, FileStoreAssumption
<1>2. r.key \in Key /\ r.key # r.guard /\ r.guard \in Key \cup {NoKey} /\ r.next \in Value \cup {None}
  BY <1>1, RequestFacts
<1>3. Checked = {r.guard} \cup (IF r.expected # None THEN {r.key} ELSE {})
  BY <1>1 DEF Checked
<1>4. r.guard # NoKey => SeenAll[r.guard] = r.held
  BY <1>1, <1>2, <1>3 DEF SeenAll, Seen, GuardChecked
<1>5. SeenAll[r.key] = r.expected
  <2>1. CASE r.expected = None
    BY <1>1, <1>2, <1>3, <2>1 DEF SeenAll, Seen, ExpectedChecked, Get
  <2>2. CASE r.expected # None
    BY <1>1, <1>2, <1>3, <2>2 DEF SeenAll, Seen, ExpectedChecked
  <2> QED
    BY <2>1, <2>2
<1>6. Abstract!Holds(r)
  BY <1>4, <1>5 DEF Abstract!Holds, SeenAll
<1>7. Staged' = [Staged EXCEPT ![c] = "true"] /\ Staged[c] = "asked"
  BY <1>1, StageMoves DEF Write, Stage, PC
<1>8. SeenAll' \in Abstract!Later([SeenAll EXCEPT ![r.key] = r.next])
  <2> DEFINE ended == expired \ {r.key}
             written == [SeenAll EXCEPT ![r.key] = r.next]
  <2>1. ended \in SUBSET (Key \ Lasting)
    BY DEF TypeOK
  <2>2. Checked' = {}
    <3>1. pc'[c] = "true"
      BY DEF Write, Goto, TypeOK
    <3> QED
      BY <1>1, <3>1 DEF Checked, Write
  <2>3. SeenAll' = [k \in Key |-> IF k \in ended THEN None ELSE written[k]]
    BY <1>2, <2>2 DEF SeenAll, Seen, Write, TypeOK
  <2> HIDE DEF ended, written
  <2>4. SeenAll' \in Abstract!Later(written)
    BY <2>1, <2>3 DEF Abstract!Later
  <2> QED
    BY <2>4 DEF written
<1> QED
  BY <1>6, <1>7, <1>8 DEF Abstract!Apply, SeenAll, Staged, Write

\* The lock's file comes and goes, processes die and time passes unseen.
LEMMA UnseenMaps ==
    ASSUME FileStoreAssumption, IInv, IInv',
           \/ \E c \in Client : Acquire(c) \/ Unlock(c) \/ Crash(c)
           \/ RemoveLock
           \/ \E k \in Key : Expire(k)
    PROVE  Abstract!Lapse
<1> USE DEF IInv
<1>1. ASSUME NEW c \in Client, Acquire(c) PROVE Abstract!Lapse
  <2>1. Checked = {} /\ pc[c] = "lock" /\ Goto(c, "guard")
    BY <1>1 DEF Checked, Acquire, At
  <2>2. pc'[c] = "guard"
    BY <2>1 DEF Goto, TypeOK
  <2>3. Checked' = {}
    BY <1>1, <2>2 DEF Checked, Acquire
  <2>4. Staged' = Staged
    BY <2>1 DEF Staged, Goto, Stage, TypeOK
  <2> QED
    BY <1>1, <2>1, <2>3, <2>4, Lapses DEF Acquire, diskVars
<1>2. ASSUME NEW c \in Client, Unlock(c) PROVE Abstract!Lapse
  <2>1. Checked' = {}
    BY <1>2 DEF Checked, Unlock
  <2> QED
    BY <1>2, <2>1, Lapses DEF Unlock, diskVars, Staged
<1>3. ASSUME NEW c \in Client, Crash(c) PROVE Abstract!Lapse
  <2>1. Checked' = Checked
    BY <1>3 DEF Checked, Crash
  <2> QED
    BY <1>3, <2>1, Lapses DEF Crash, diskVars, Staged
<1>4. CASE RemoveLock
  <2>1. Checked' = {}
    BY <1>4 DEF Checked, RemoveLock
  <2> QED
    BY <1>4, <2>1, Lapses DEF RemoveLock, diskVars, Staged
<1>5. ASSUME NEW k \in Key, Expire(k) PROVE Abstract!Lapse
  <2>1. Checked' = Checked
    BY <1>5 DEF Checked, Expire
  <2> QED
    BY <1>5, <2>1, Lapses DEF Expire, Staged
<1> QED
  BY <1>1, <1>2, <1>3, <1>4, <1>5

LEMMA InitMaps == ASSUME FileStoreAssumption, Init PROVE Abstract!StoreInit
<1>1. \A k \in Key : Seen(k) = None
  BY DEF Init, Seen
<1> QED
  BY <1>1, NoRequestIsOne, RequestFacts DEF Init, Abstract!StoreInit, Stage, SeenAll, Staged

(* compareAndSet on disk is as atomic as the Redis script                  *)
(* (durable-store.ts:65-93), for any processes, keys, requests and         *)
(* crashes.                                                                *)
THEOREM DiskIsAtomic == ASSUME FileStoreAssumption PROVE Spec => ImplementsAtomicStore
<1>1. Init => IInv
  BY InitIInv
<1>2. IInv /\ [Next]_vars => IInv'
  BY NextIInv
<1>3. IInv /\ IInv' /\ [Next]_vars => [Abstract!StoreNext]_(Abstract!storeVars)
  <2> SUFFICES ASSUME IInv, IInv', [Next]_vars PROVE [Abstract!StoreNext]_(Abstract!storeVars)
    OBVIOUS
  <2>1. CASE UNCHANGED vars
    BY <2>1 DEF vars, diskVars, Abstract!storeVars, SeenAll, Seen, Staged, Checked
  <2>2. ASSUME NEW c \in Client, NEW r \in Requests, Call(c, r) PROVE Abstract!StoreNext
    BY <2>2, CallMaps, RequestFacts DEF Abstract!StoreNext
  <2>3. ASSUME NEW c \in Client,
               \/ GiveUp(c) \/ CheckGuard(c) \/ CheckExpected(c) \/ Write(c)
               \/ Return(c) \/ IOFails(c) \/ Restart(c)
        PROVE  Abstract!StoreNext
    BY <2>3, FailMaps, GuardMaps, ExpectedMaps, WriteMaps, OverMaps DEF Abstract!StoreNext
  <2>4. ASSUME \/ \E c \in Client : Acquire(c) \/ Unlock(c) \/ Crash(c)
               \/ RemoveLock
               \/ \E k \in Key : Expire(k)
        PROVE  Abstract!StoreNext
    BY <2>4, UnseenMaps DEF Abstract!StoreNext
  <2> QED
    BY <2>1, <2>2, <2>3, <2>4 DEF Next, Run
<1>4. Init => Abstract!StoreInit
  BY InitMaps
<1>5. Spec => Abstract!StoreSpec
  BY <1>1, <1>2, <1>3, <1>4, PTL DEF Spec, Abstract!StoreSpec
<1> QED
  BY <1>5 DEF ImplementsAtomicStore

=============================================================================
