----------------------------- MODULE ReadWorkers -----------------------------
(***************************************************************************)
(* readSolverState (src/server/solve-rpc.ts): the solver's reads of the    *)
(* chain, taken from one list by a few workers that share its index.       *)
(***************************************************************************)
EXTENDS Naturals, TLAPS

CONSTANTS Jobs, Concurrency     \* the number of reads, and of workers at most
ASSUME ReadWorkersAssumption == Jobs \in Nat /\ Concurrency \in Nat \ {0}

VARIABLES
    next,       \* reads taken so far
    failed,     \* whether one has failed
    worker,     \* worker -> the read it awaits, 0 between reads, Jobs + 1 when it has left
    outcome,    \* read -> "none", "ok" or "bad" (history)
    result      \* what the caller has: "none", "ok" or "failed"

vars == <<next, failed, worker, outcome, result>>

Workers == 1 .. (IF Concurrency < Jobs THEN Concurrency ELSE Jobs)
Left == Jobs + 1

Init ==
    /\ next = 0 /\ failed = FALSE
    /\ worker = [w \in Workers |-> 0]
    /\ outcome = [j \in 1 .. Jobs |-> "none"]
    /\ result = "none"

MayTake == ~failed /\ next < Jobs

Take(w) ==
    /\ worker[w] = 0 /\ MayTake
    /\ next' = next + 1
    /\ worker' = [worker EXCEPT ![w] = next + 1]
    /\ UNCHANGED <<failed, outcome, result>>

Leave(w) ==
    /\ worker[w] = 0 /\ ~MayTake
    /\ worker' = [worker EXCEPT ![w] = Left]
    /\ UNCHANGED <<next, failed, outcome, result>>

\* The read a worker awaits ends.
Settles(w) ==
    /\ worker[w] \in 1 .. Jobs
    /\ worker' = [worker EXCEPT ![w] = 0]
    /\ \E ok \in BOOLEAN :
        /\ outcome' = [outcome EXCEPT ![worker[w]] = IF ok THEN "ok" ELSE "bad"]
        /\ failed' = (failed \/ ~ok)
    /\ UNCHANGED <<next, result>>

\* Mutated form of Return: the first failure is passed on at once.
ReturnEarly ==
    /\ result = "none" /\ (failed \/ \A w \in Workers : worker[w] = Left)
    /\ result' = IF failed THEN "failed" ELSE "ok"
    /\ UNCHANGED <<next, failed, worker, outcome>>

\* Promise.all: every worker has left.
Return ==
    /\ result = "none" /\ \A w \in Workers : worker[w] = Left
    /\ result' = IF failed THEN "failed" ELSE "ok"
    /\ UNCHANGED <<next, failed, worker, outcome>>

Next == (\E w \in Workers : Take(w) \/ Leave(w) \/ Settles(w)) \/ Return

Spec == Init /\ [][Next]_vars

-----------------------------------------------------------------------------
TypeOK ==
    /\ next \in 0 .. Jobs /\ failed \in BOOLEAN
    /\ worker \in [Workers -> 0 .. Left]
    /\ outcome \in [1 .. Jobs -> {"none", "ok", "bad"}]
    /\ result \in {"none", "ok", "failed"}

(* A search goes on only with every read answered (solve-rpc.ts:30 "without*)
(* dropping any read").                                                    *)
NoneDropped == result = "ok" => \A j \in 1 .. Jobs : outcome[j] = "ok"

(* No read is on its way once the caller has its answer, so a retry shares *)
(* nothing with an old search (solve-rpc.ts:30-32).                        *)
NoneLeftRunning == result # "none" => \A w \in Workers : worker[w] \notin 1 .. Jobs

(* A search goes on when every one of its reads was answered, and nothing  *)
(* of it runs on (solve-rpc.ts:28-42).                                     *)
WorkersDone == NoneDropped /\ NoneLeftRunning

-----------------------------------------------------------------------------
(* For any number of reads and workers: no read is dropped, and none is    *)
(* left running.                                                           *)

\* Every read taken so far is answered, is with a worker, or one has failed.
Accounted ==
    \A j \in 1 .. Jobs : j <= next => outcome[j] = "ok" \/ failed \/ \E w \in Workers : worker[w] = j

\* A worker leaves only after the last read was taken or one has failed.
LeftLate == \A w \in Workers : worker[w] = Left => failed \/ next = Jobs

\* A worker's read was taken from the list.
Taken == \A w \in Workers : worker[w] \in 1 .. Jobs => worker[w] <= next

\* The caller's answer is the workers' when all have left.
Returned ==
    /\ result # "none" => \A w \in Workers : worker[w] = Left
    /\ result = "ok" => ~failed

IInv == TypeOK /\ Accounted /\ LeftLate /\ Taken /\ Returned

USE ReadWorkersAssumption

(* The reads have not begun: nothing is owed.                              *)
LEMMA InitIInv == Init => IInv
<1> SUFFICES ASSUME Init PROVE IInv
  OBVIOUS
<1> USE DEF Init
<1>1. TypeOK
  <2>1. failed \in BOOLEAN
    OBVIOUS
  <2> QED BY <2>1 DEF TypeOK, Left
<1>2. Accounted /\ Taken /\ Returned
  BY DEF Accounted, Taken, Returned
<1>3. LeftLate
  BY DEF LeftLate, Left
<1> QED BY <1>1, <1>2, <1>3 DEF IInv

(* A worker that takes a read holds it.                                    *)
LEMMA TakeIInv == ASSUME IInv, NEW w \in Workers, Take(w) PROVE IInv'
<1> USE DEF IInv, Take, MayTake
<1>1. TypeOK'
  BY DEF TypeOK, Left
<1>2. Accounted'
  <2> SUFFICES ASSUME NEW j \in 1 .. Jobs, j <= next + 1, outcome[j] # "ok"
               PROVE \E v \in Workers : worker'[v] = j
    BY DEF Accounted, TypeOK
  <2>1. CASE j = next + 1
    BY <2>1 DEF TypeOK
  <2>2. CASE j <= next
    <3>1. PICK v \in Workers : worker[v] = j
      BY <2>2 DEF Accounted
    <3>2. v # w
      BY <3>1 DEF TypeOK
    <3> QED BY <3>1, <3>2 DEF TypeOK
  <2> QED BY <2>1, <2>2 DEF TypeOK
<1>3. LeftLate'
  BY DEF LeftLate, TypeOK, Left
<1>4. Taken'
  BY DEF Taken, TypeOK
<1>5. Returned'
  BY DEF Returned, TypeOK, Left
<1> QED BY <1>1, <1>2, <1>3, <1>4, <1>5

(* A worker leaves with nothing in hand.                                   *)
LEMMA LeaveIInv == ASSUME IInv, NEW w \in Workers, Leave(w) PROVE IInv'
<1> USE DEF IInv, Leave, MayTake
<1>1. TypeOK'
  BY DEF TypeOK, Left
<1>2. Accounted'
  <2> SUFFICES ASSUME NEW j \in 1 .. Jobs, j <= next, outcome[j] # "ok", ~failed
               PROVE \E v \in Workers : worker'[v] = j
    BY DEF Accounted
  <2>1. PICK v \in Workers : worker[v] = j
    BY DEF Accounted
  <2>2. v # w
    BY <2>1
  <2> QED BY <2>1, <2>2 DEF TypeOK
<1>3. LeftLate'
  BY DEF LeftLate, TypeOK
<1>4. Taken'
  BY DEF Taken, TypeOK, Left
<1>5. Returned'
  BY DEF Returned, TypeOK
<1> QED BY <1>1, <1>2, <1>3, <1>4, <1>5

(* A worker's read ends: answered, or the search has failed.               *)
LEMMA SettlesIInv == ASSUME IInv, NEW w \in Workers, Settles(w) PROVE IInv'
<1> USE DEF IInv, Settles
<1>0. PICK ok \in BOOLEAN : /\ outcome' = [outcome EXCEPT ![worker[w]] = IF ok THEN "ok" ELSE "bad"]
                            /\ failed' = (failed \/ ~ok)
  OBVIOUS
<1>1. TypeOK'
  <2>1. failed' \in BOOLEAN
    BY <1>0
  <2>2. worker' \in [Workers -> 0 .. Left] /\ outcome' \in [1 .. Jobs -> {"none", "ok", "bad"}]
    BY <1>0 DEF TypeOK, Left
  <2> QED BY <2>1, <2>2 DEF TypeOK
<1>2. Accounted'
  <2> SUFFICES ASSUME NEW j \in 1 .. Jobs, j <= next, outcome'[j] # "ok", ~failed'
               PROVE \E v \in Workers : worker'[v] = j
    BY DEF Accounted
  <2>1. ok /\ ~failed
    BY <1>0
  <2>2. j # worker[w] /\ outcome[j] # "ok"
    BY <1>0, <2>1 DEF TypeOK
  <2>3. PICK v \in Workers : worker[v] = j
    BY <2>1, <2>2 DEF Accounted
  <2> QED BY <2>2, <2>3 DEF TypeOK
<1>3. LeftLate'
  BY <1>0 DEF LeftLate, TypeOK, Left
<1>4. Taken'
  BY DEF Taken, TypeOK, IInv
<1>5. Returned'
  BY <1>0 DEF Returned, TypeOK, Left
<1> QED BY <1>1, <1>2, <1>3, <1>4, <1>5

(* The caller is answered when all have left.                              *)
LEMMA ReturnIInv == ASSUME IInv, Return PROVE IInv'
BY DEF IInv, Return, TypeOK, Accounted, LeftLate, Taken, Returned

(* The inductive invariant holds in every reachable state.                 *)
THEOREM AlwaysIInv == Spec => []IInv
<1>1. IInv /\ [Next]_vars => IInv'
  <2> SUFFICES ASSUME IInv, [Next]_vars PROVE IInv'
    OBVIOUS
  <2>1. CASE UNCHANGED vars
    BY <2>1 DEF vars, IInv, TypeOK, Accounted, LeftLate, Taken, Returned
  <2>2. CASE Return
    BY <2>2, ReturnIInv
  <2>3. CASE \E w \in Workers : Take(w) \/ Leave(w) \/ Settles(w)
    BY <2>3, TakeIInv, LeaveIInv, SettlesIInv
  <2> QED BY <2>1, <2>2, <2>3 DEF Next
<1> QED BY <1>1, InitIInv, PTL DEF Spec

(* A search goes on with every read it asked for, and nothing of an        *)
(* answered search is still being read (readSolverState).                  *)
THEOREM ReadsComplete == Spec => []WorkersDone
<1>1. IInv => NoneDropped
  <2> SUFFICES ASSUME IInv, result = "ok", NEW j \in 1 .. Jobs PROVE outcome[j] = "ok"
    BY DEF NoneDropped
  <2>1. 1 \in Workers
    BY DEF Workers
  <2>2. ~failed /\ \A w \in Workers : worker[w] = Left
    BY DEF IInv, Returned
  <2>3. next = Jobs
    BY <2>1, <2>2 DEF IInv, LeftLate
  <2>4. \A w \in Workers : worker[w] # j
    BY <2>2 DEF Left
  <2>5. outcome[j] = "ok" \/ failed \/ \E w \in Workers : worker[w] = j
    BY <2>3 DEF IInv, Accounted
  <2> QED BY <2>2, <2>4, <2>5
<1>2. IInv => NoneLeftRunning
  BY DEF IInv, Returned, NoneLeftRunning, Left
<1>3. IInv => WorkersDone
  BY <1>1, <1>2 DEF WorkersDone
<1> QED BY <1>3, AlwaysIInv, PTL

=============================================================================
