---------------------------- MODULE AgentRequest ----------------------------
(***************************************************************************)
(* A request to the agent (withAgentRequest, RequestBudget, admitAgent;    *)
(* src/server/agent/): one deadline and one signal for the admission, the  *)
(* reads and the answer.  The answer is raced against the signal, so what  *)
(* the request started may still be running after it was answered.         *)
(*                                                                         *)
(* Admission is by sliding windows (rate-limit.ts): one bucket of admission*)
(* times per route and client, kept by one Redis script, or in a           *)
(* development server's memory, where the buckets are also bounded.  Times *)
(* are ticks; a second is Second of them.                                  *)
(***************************************************************************)
EXTENDS Integers, Sequences, FiniteSets, SequencesExt

CONSTANTS
    Key,            \* a route and a client
    Limit,          \* key -> its route's requests per window
    Window,         \* WINDOW_MS
    Second,         \* ticks in a second: retryAfter counts seconds
    Shared,         \* Redis decides; otherwise the process' memory
    MaxBuckets,     \* the buckets memory holds
    MaxNow,         \* bound: the last tick
    Request,
    Timeout,        \* the route's time limit, in ticks
    MaxReads,       \* bound: reads a request starts
    MaxSiblings     \* reads it has in flight at once

AgentRequestAssumption ==
    /\ Limit \in [Key -> Nat \ {0}] /\ Window \in Nat \ {0} /\ Second \in Nat \ {0}
    /\ Shared \in BOOLEAN /\ MaxBuckets \in Nat \ {0} /\ MaxNow \in Nat
    /\ Timeout \in Nat \ {0} /\ MaxReads \in Nat /\ MaxSiblings \in Nat \ {0}

VARIABLES
    now,        \* the store's clock
    buckets,    \* key -> the times kept, for the keys kept
    admitted,   \* key -> every admission, oldest first (history)
    told,       \* key -> when its last refused client may try again, 0 if none
    req         \* request -> its budget, its stage, its reads and its answer

limitVars == <<now, buckets, admitted, told>>
vars == <<limitVars, req>>

-----------------------------------------------------------------------------
(* The sliding windows (rate-limit.ts) *)

LimitInit ==
    /\ now = 0
    /\ buckets = [k \in {} |-> <<>>]
    /\ admitted = [k \in Key |-> <<>>]
    /\ told = [k \in Key |-> 0]

Tick == now < MaxNow /\ now' = now + 1 /\ UNCHANGED <<buckets, admitted, told>>

\* The admissions of the window that ends now.  A bucket has its times in order:
\* the ones that are over are a beginning of it.
Over(times) ==
    CHOOSE n \in 0 .. Len(times) : \A i \in DOMAIN times : times[i] <= now - Window <=> i <= n

Active(times) == SubSeq(times, Over(times) + 1, Len(times))

\* Redis drops the old entries of the one bucket it looks at, memory of all.
Left(j, k) == IF Shared /\ j # k THEN buckets[j] ELSE Active(buckets[j])
Cleared(k) == [j \in {i \in DOMAIN buckets : Left(i, k) # <<>>} |-> Left(j, k)]

Times(b, k) == IF k \in DOMAIN b THEN b[k] ELSE <<>>
Full(b, k) == Len(Times(b, k)) >= Limit[k]
Crowded(b, k) == ~Shared /\ k \notin DOMAIN b /\ Cardinality(DOMAIN b) >= MaxBuckets

\* The tick after retryAfter seconds, rounded up and never zero.
Due(at) ==
    LET seconds == (at - now + Second - 1) \div Second IN now + Second * (IF seconds < 1 THEN 1 ELSE seconds)

\* The first moment at which a bucket empties.
FirstGone(b) == CHOOSE t \in {Last(b[j]) + Window : j \in DOMAIN b} : \A j \in DOMAIN b : t <= Last(b[j]) + Window

\* consume and the script: decide, and count what is admitted.
Consume(k, allowed) ==
    LET b == Cleared(k) IN
    /\ allowed = (~Full(b, k) /\ ~Crowded(b, k))
    /\ buckets' = IF allowed THEN [j \in DOMAIN b \cup {k} |-> IF j = k THEN Append(Times(b, k), now) ELSE b[j]] ELSE b
    /\ admitted' = IF allowed THEN [admitted EXCEPT ![k] = Append(@, now)] ELSE admitted
    /\ told' = IF allowed
               THEN [j \in Key |-> IF Shared /\ j # k THEN told[j] ELSE 0]
               ELSE [told EXCEPT ![k] = Due(IF Full(b, k) THEN Times(b, k)[1] + Window ELSE FirstGone(b))]
    /\ UNCHANGED now

LimitNext == Tick \/ \E k \in Key, allowed \in BOOLEAN : Consume(k, allowed)

LimitSpec == LimitInit /\ [][LimitNext]_limitVars

-----------------------------------------------------------------------------
(* The request (request-control.ts, request-budget.ts) *)

Answers == {"none", "ok", "limited", "failed", "unavailable", "timeout", "cancelled"}
NewRequest == [stage |-> "new", key |-> CHOOSE k \in Key : TRUE, reason |-> "none", deadline |-> 0,
               paid |-> FALSE, reads |-> 0, pending |-> 0, left |-> FALSE, answer |-> "none"]

Init == LimitInit /\ req = [r \in Request |-> NewRequest]

Late(r) == now >= req[r].deadline

\* What a checkpoint throws: the first reason, or the deadline it finds reached.
Stopped(r) == IF req[r].reason # "none" THEN req[r].reason ELSE IF Late(r) THEN "timeout" ELSE "none"

\* run's answer, and dispose: whatever is still running is aborted.
Answer(q, answer) ==
    IF q.answer = "none"
    THEN [q EXCEPT !.answer = answer,
                   !.reason = IF @ # "none" THEN @ ELSE IF answer = "timeout" THEN answer ELSE "cancelled"]
    ELSE q

\* The work stops at a checkpoint, or ends with an answer of its own.
Settle(r, q, answer) == req' = [req EXCEPT ![r] = Answer(q, IF Stopped(r) # "none" THEN Stopped(r) ELSE answer)]

\* withAgentRequest starts the deadline; a caller already gone is not served.
Receive(r) ==
    /\ req[r].stage = "new" /\ now + Timeout <= MaxNow
    /\ \E k \in Key, gone \in BOOLEAN :
        LET q == [NewRequest EXCEPT !.stage = "admit", !.key = k, !.deadline = now + Timeout, !.left = gone] IN
        req' = [req EXCEPT ![r] = IF gone THEN Answer([q EXCEPT !.stage = "over"], "cancelled") ELSE q]
    /\ UNCHANGED limitVars

\* Mutated form of Timer: the signal is set, the answer waits for the work.
TimerUnraced(r) ==
    /\ req[r].stage # "new" /\ req[r].answer = "none" /\ req[r].reason = "none" /\ Late(r)
    /\ req' = [req EXCEPT ![r].reason = "timeout"]
    /\ UNCHANGED limitVars

\* The deadline's timer runs, some time after the deadline.
Timer(r) ==
    /\ req[r].stage # "new" /\ req[r].answer = "none" /\ Late(r)
    /\ req' = [req EXCEPT ![r] = Answer(@, "timeout")]
    /\ UNCHANGED limitVars

\* The caller's connection ends.
CallerLeaves(r) ==
    /\ req[r].stage # "new" /\ ~req[r].left
    /\ req' = [req EXCEPT ![r] = Answer([@ EXCEPT !.left = TRUE], "cancelled")]
    /\ UNCHANGED limitVars

\* admitAgent: memory decides at once, Redis is asked.
Admit(r) ==
    /\ req[r].stage = "admit"
    /\ IF req[r].reason # "none"
       THEN /\ req' = [req EXCEPT ![r].stage = "over"]
            /\ UNCHANGED limitVars
       ELSE IF Shared
       THEN /\ req' = [req EXCEPT ![r].stage = "asking"]
            /\ UNCHANGED limitVars
       ELSE \E allowed \in BOOLEAN :
            /\ Consume(req[r].key, allowed)
            /\ req' = [req EXCEPT ![r].stage = "decided", ![r].paid = allowed]

\* The script runs, even for a request already answered.
StoreDecides(r) ==
    /\ req[r].stage = "asking"
    /\ \E allowed \in BOOLEAN :
        /\ Consume(req[r].key, allowed)
        /\ req' = [req EXCEPT ![r].stage = "decided", ![r].paid = allowed]

\* Mutated form of StoreFails: a store that cannot be asked lets everyone in.
FailOpen(r) ==
    /\ req[r].stage = "asking"
    /\ req' = [req EXCEPT ![r].stage = "working"]
    /\ UNCHANGED limitVars

\* Redis cannot be asked, or its answer is lost: nobody is let in.
StoreFails(r) ==
    /\ req[r].stage = "asking" \/ (Shared /\ req[r].stage = "decided")
    /\ Settle(r, [req[r] EXCEPT !.stage = "over"], "unavailable")
    /\ UNCHANGED limitVars

\* The decision arrives.
Decided(r) ==
    /\ req[r].stage = "decided"
    /\ IF req[r].paid /\ Stopped(r) = "none"
       THEN req' = [req EXCEPT ![r].stage = "working"]
       ELSE Settle(r, [req[r] EXCEPT !.stage = "over"], "limited")
    /\ UNCHANGED limitVars

\* The work reads the body, the Graph or the chain: each read begins with a checkpoint.
StartRead(r) ==
    /\ req[r].stage = "working" /\ req[r].reads < MaxReads /\ req[r].pending < MaxSiblings
    /\ IF Stopped(r) = "none"
       THEN req' = [req EXCEPT ![r].reads = @ + 1, ![r].pending = @ + 1]
       ELSE Settle(r, [req[r] EXCEPT !.stage = "over"], "failed")
    /\ UNCHANGED limitVars

ReadEnds(r) ==
    /\ req[r].pending > 0
    /\ req' = [req EXCEPT ![r].pending = @ - 1]
    /\ UNCHANGED limitVars

\* A failed read fails the request; its siblings go on to their next checkpoint.
ReadFails(r) ==
    /\ req[r].pending > 0
    /\ Settle(r, [req[r] EXCEPT !.pending = @ - 1], "failed")
    /\ UNCHANGED limitVars

\* The work returns: checked once more before it is the answer.
Finish(r) ==
    /\ req[r].stage = "working" /\ req[r].reads > 0 /\ req[r].pending = 0
    /\ Settle(r, [req[r] EXCEPT !.stage = "over"], "ok")
    /\ UNCHANGED limitVars

Step(r) ==
    \/ Receive(r) \/ Timer(r) \/ CallerLeaves(r) \/ Admit(r) \/ StoreDecides(r) \/ StoreFails(r)
    \/ Decided(r) \/ StartRead(r) \/ ReadEnds(r) \/ ReadFails(r) \/ Finish(r)

Clock == Tick /\ UNCHANGED req

Next == Clock \/ \E r \in Request : Step(r)

Spec == Init /\ [][Next]_vars

\* Time passes and the server's event loop runs its timers.
FairSpec ==
    /\ Spec /\ WF_vars(Clock)
    /\ \A r \in Request : WF_vars(Timer(r))

-----------------------------------------------------------------------------
TypeOK ==
    /\ now \in 0 .. MaxNow
    /\ DOMAIN buckets \subseteq Key /\ \A k \in DOMAIN buckets : buckets[k] # <<>> /\ Len(buckets[k]) <= Limit[k]
    /\ \A r \in Request : /\ req[r].answer \in Answers /\ req[r].reason \in {"none", "timeout", "cancelled"}
                          /\ req[r].reads \in 0 .. MaxReads /\ req[r].pending \in 0 .. MaxSiblings

(* No window of WINDOW_MS ever holds more admissions of one route and      *)
(* client than its limit (rate-limit.ts:52-62, 74-80).                     *)
WindowLimit ==
    \A k \in Key : \A i \in DOMAIN admitted[k] :
        Cardinality({j \in DOMAIN admitted[k] : admitted[k][i] - Window < admitted[k][j] /\ admitted[k][j] <= admitted[k][i]})
            <= Limit[k]

(* The seconds a refused client is told to wait are enough: unless someone *)
(* else is admitted meanwhile, its next request passes (rate-limit.ts:57-60*)
(* and :76-79; the answer's Retry-After).                                  *)
RetrySuffices ==
    \A k \in Key : told[k] # 0 /\ now >= told[k] => ~Full(Cleared(k), k) /\ ~Crowded(Cleared(k), k)

(* Every request that read anything was paid for by an admission of its    *)
(* own, also when Redis fails or its answer is lost (request-control.ts:42 *)
(* "Admission precedes body/params/Graph reads").                          *)
ReadsPaid ==
    \A k \in Key : Cardinality({r \in Request : req[r].key = k /\ req[r].reads > 0}) <= Len(admitted[k])

(* Once a request is answered nothing it left running starts another read  *)
(* (request-budget.ts:69-74, "Cancel sibling I/O").                        *)
NothingAfterAnswer == [][\A r \in Request : req[r].answer # "none" => req'[r].reads = req[r].reads]_vars

(* The answer tells the truth about the request: an answer from the work   *)
(* comes before the deadline and to a caller still there, a time limit only*)
(* after the deadline, a cancellation only when the caller left            *)
(* (request-control.ts:62-72).                                           *)
HonestAnswer ==
    [][\A r \in Request : req[r].answer = "none" =>
        LET q == req'[r] IN
        /\ q.answer \in {"ok", "failed", "limited", "unavailable"} => now < q.deadline /\ ~q.left
        /\ q.answer = "timeout" => now >= q.deadline
        /\ q.answer = "cancelled" => q.left]_vars

(* Admission and answers together: windows and what a refused client is    *)
(* told, what every read was paid by, and what a request is answered and   *)
(* when it stops (rate-limit.ts:52-80, request-control.ts:42-72,           *)
(* request-budget.ts:69-74).                                               *)
RequestsKept == [](ReadsPaid /\ WindowLimit /\ RetrySuffices) /\ NothingAfterAnswer /\ HonestAnswer

(* Every request is answered, whatever the store and the reads do          *)
(* (request-budget.ts:50-66).                                              *)
EveryRequestAnswered == \A r \in Request : req[r].stage # "new" ~> req[r].answer # "none"

=============================================================================
