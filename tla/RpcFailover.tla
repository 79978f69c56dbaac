----------------------------- MODULE RpcFailover -----------------------------
(***************************************************************************)
(* Reads of the chain over several providers (src/server/arc-read-rpc.ts)  *)
(* and the solver's transport that retries them (src/server/solve-rpc.ts). *)
(* A read tries the providers in order, leaves out those that asked for a  *)
(* pause, and shares a request that is on its way.  Ticks are seconds.     *)
(***************************************************************************)
EXTENDS Naturals, Sequences, FiniteSets, WellFoundedInduction, TLAPS

CONSTANTS
    Reader,         \* reads of the transport; a mapped reader reads once
    Methods,        \* what they read; the same method is the same request
    Logs,           \* eth_getLogs, which a provider may refuse
    Providers,      \* the endpoints in their order, the primary first
    Wrong,          \* those that serve another chain
    Waits,          \* Retry-After of a throttled answer
    MaxDelay,       \* a longer pause goes to the caller (2)
    Retries,        \* rateLimitRetries
    Keep,           \* how long a provider's chain and refusals are remembered (60)
    MaxHeight, MaxNow   \* bounds: blocks mined, seconds

Provider == {Providers[i] : i \in DOMAIN Providers}

\* The endpoints differ from each other, and the primary serves this chain.
RpcFailoverAssumption ==
    /\ Providers \in Seq(Provider) /\ Len(Providers) > 0 /\ Methods # {}
    /\ \A i, j \in DOMAIN Providers : Providers[i] = Providers[j] => i = j
    /\ Wrong \subseteq {Providers[i] : i \in 2 .. Len(Providers)}
    /\ Waits \subseteq Nat \ {0} /\ {MaxDelay, Retries, Keep, MaxHeight, MaxNow} \subseteq Nat

VARIABLES
    now, height,
    cooldown,       \* provider -> when its pause ends
    verified,       \* provider -> until when its chain is known
    unsupported,    \* provider -> until when it is not asked for logs
    pending,        \* <<provider, what>> -> the request on its way
    reader

caches == <<cooldown, verified, unsupported>>
vars == <<now, height, caches, pending, reader>>

Beyond == Len(Providers) + 1
Probe == "eth_chainId"
Nobody == [stage |-> "idle", method |-> CHOOSE m \in Methods : TRUE, at |-> 0, asks |-> Probe, asked |-> 0,
           attempt |-> 0, wake |-> 0, got |-> "none", height |-> 0, told |-> [p \in Provider |-> 0], answer |-> "none"]

Init ==
    /\ now = 0 /\ height = 0
    /\ cooldown = [p \in Provider |-> 0] /\ verified = [p \in Provider |-> 0]
    /\ unsupported = [p \in Provider |-> 0]
    /\ pending = [k \in {} |-> "sent"]
    /\ reader = [r \in Reader |-> Nobody]

Mine == height < MaxHeight /\ height' = height + 1 /\ UNCHANGED <<now, caches, pending, reader>>
Tick == now < MaxNow /\ now' = now + 1 /\ UNCHANGED <<height, caches, pending, reader>>

\* Passed over: a pause, or logs it has refused.
Skipped(i, m) ==
    cooldown[Providers[i]] > now \/ (m = Logs /\ unsupported[Providers[i]] > now)

\* Mutated form of FirstRequest: a second provider is taken at its word.
FirstRequestTrusted(i, m) == m

\* The primary is asked at once, another provider first for its chain.
FirstRequest(i, m) == IF i # 1 /\ verified[Providers[i]] <= now THEN Probe ELSE m

NextAt(i, m) ==
    LET left == {j \in i .. Len(Providers) : ~Skipped(j, m)} IN
    IF left = {} THEN Beyond ELSE CHOOSE j \in left : \A k \in left : j <= k

\* request: joins the one on its way or sends one.
Sent(i, what) ==
    IF <<Providers[i], what>> \in DOMAIN pending THEN pending
    ELSE [k \in DOMAIN pending \cup {<<Providers[i], what>>} |->
            IF k \in DOMAIN pending THEN pending[k] ELSE [served |-> FALSE, got |-> "none", height |-> 0]]

Larger(a, b) == IF a > b THEN a ELSE b

\* The shortest pause, at least a second.
Pause(cool) == LET ends == {cool[p] : p \in {q \in Provider : cool[q] > now}} IN
    Larger(1, (CHOOSE e \in ends : \A f \in ends : e <= f) - now)

\* The read's answer; the provider it came from, and the chain it saw.
Done(q, answer) ==
    [Nobody EXCEPT !.stage = "done", !.answer = answer, !.at = q.at, !.asked = q.asked, !.height = q.height]

\* Every provider was passed over or failed: the transport waits or gives up.
GivesUp(q, cool) ==
    IF \A p \in Provider : cool[p] <= now THEN Done(q, "unavailable")
    ELSE IF q.attempt < Retries /\ Pause(cool) <= MaxDelay
    THEN [q EXCEPT !.stage = "waiting", !.wake = now + Pause(cool), !.attempt = @ + 1]
    ELSE Done(q, "limited")

\* The loop goes on from the i-th provider, with the pauses cool.
GoOn(r, q, i, cool) ==
    LET j == NextAt(i, q.method) IN
    IF j = Beyond
    THEN /\ reader' = [reader EXCEPT ![r] = GivesUp([q EXCEPT !.got = "none", !.height = 0], cool)]
         /\ pending' = pending
    ELSE LET what == FirstRequest(j, q.method) IN
         /\ reader' = [reader EXCEPT ![r] = [q EXCEPT !.stage = "asking", !.at = j, !.asks = what, !.got = "none", !.height = 0]]
         /\ pending' = Sent(j, what)

Ask(r) ==
    /\ reader[r].stage = "idle"
    /\ \E m \in Methods : GoOn(r, [Nobody EXCEPT !.method = m, !.asked = height], 1, cooldown)
    /\ UNCHANGED <<now, height, caches>>

\* A short pause is over: the whole read begins again.
Wake(r) ==
    /\ reader[r].stage = "waiting" /\ now >= reader[r].wake
    /\ GoOn(r, [reader[r] EXCEPT !.wake = 0], 1, cooldown)
    /\ UNCHANGED <<now, height, caches>>

\* What a provider may make of a request; failed: no answer, a 5xx, a 408, no result.
Outcomes(k) ==
    {"failed", "throttled"} \cup
    (IF k[2] = Probe THEN {IF k[1] \in Wrong THEN "otherChain" ELSE "ok"} ELSE {"ok", "reverted", "rejected"}) \cup
    (IF k[2] = Logs THEN {"noLogs"} ELSE {})

\* The provider handles the request, on the chain as it is.
Serve(k) ==
    /\ k \in DOMAIN pending /\ ~pending[k].served
    /\ \E got \in Outcomes(k) :
        pending' = [pending EXCEPT ![k].served = TRUE, ![k].got = got, ![k].height = height]
    /\ UNCHANGED <<now, height, caches, reader>>

Sharing(k) == {r \in Reader : reader[r].stage = "asking" /\ <<Providers[reader[r].at], reader[r].asks>> = k}
Told(r, k) == [reader[r] EXCEPT !.stage = "told", !.got = pending[k].got, !.height = pending[k].height]

Delivered(k) == reader' = [r \in Reader |-> IF r \in Sharing(k) THEN Told(r, k) ELSE reader[r]]

\* Its answer, or its time limit, reaches everyone who shares it; nobody joins it any more.
Land(k) ==
    /\ k \in DOMAIN pending /\ pending[k].served
    /\ Delivered(k)
    /\ pending' = [j \in DOMAIN pending \ {k} |-> pending[j]]
    /\ UNCHANGED <<now, height, caches>>

\* The reader's answer is its provider's.
Ends(r, answer) ==
    /\ reader' = [reader EXCEPT ![r] = Done(@, answer)]
    /\ UNCHANGED <<pending, caches>>

Paused(p, wait) == [cooldown EXCEPT ![p] = Larger(@, now + wait)]

\* A throttled provider is left alone for as long as it asks.
Throttled(r) ==
    LET q == reader[r]  p == Providers[q.at] IN
    /\ q.stage = "told" /\ q.got = "throttled"
    /\ \E wait \in Waits :
        /\ cooldown' = Paused(p, wait)
        /\ GoOn(r, [q EXCEPT !.told[p] = now + wait], q.at + 1, Paused(p, wait))
    /\ UNCHANGED <<now, height, verified, unsupported>>

\* A probe that names the chain: the read itself follows.
Verify(r) ==
    LET q == reader[r]  p == Providers[q.at] IN
    /\ q.stage = "told" /\ q.asks = Probe /\ q.got = "ok"
    /\ verified' = [verified EXCEPT ![p] = now + Keep]
    /\ reader' = [reader EXCEPT ![r].stage = "asking", ![r].asks = q.method, ![r].got = "none", ![r].height = 0]
    /\ pending' = Sent(q.at, q.method)
    /\ UNCHANGED <<now, height, cooldown, unsupported>>

\* Logs refused by a free plan: not asked again for a while.
NoLogs(r) ==
    LET q == reader[r] IN
    /\ q.stage = "told" /\ q.got = "noLogs"
    /\ unsupported' = [unsupported EXCEPT ![Providers[q.at]] = now + Keep]
    /\ GoOn(r, q, q.at + 1, cooldown)
    /\ UNCHANGED <<now, height, cooldown, verified>>

\* No answer worth having: the next provider.
Fails(r) ==
    LET q == reader[r] IN
    /\ q.stage = "told" /\ q.got \in {"failed", "otherChain"}
    /\ GoOn(r, q, q.at + 1, cooldown)
    /\ UNCHANGED <<now, height, caches>>

\* The chain's answer, a revert included, or a request the provider rejects.
Replies(r) ==
    LET q == reader[r] IN
    /\ q.stage = "told" /\ q.asks # Probe
    /\ \/ q.got = "ok" /\ Ends(r, "ok")
       \/ q.got = "reverted" /\ Ends(r, "error")
       \/ q.got = "rejected" /\ Ends(r, "unavailable")
    /\ UNCHANGED <<now, height>>

Process(r) == Throttled(r) \/ Verify(r) \/ NoLogs(r) \/ Fails(r) \/ Replies(r)

Keys == Provider \X (Methods \cup {Probe})

Next ==
    \/ Mine \/ Tick
    \/ \E r \in Reader : Ask(r) \/ Wake(r) \/ Process(r)
    \/ \E k \in Keys : Serve(k) \/ Land(k)

Spec == Init /\ [][Next]_vars

\* Time passes; a request is answered or reaches its time limit; callbacks run.
FairSpec ==
    /\ Spec /\ WF_vars(Tick)
    /\ \A r \in Reader : WF_vars(Wake(r)) /\ WF_vars(Process(r))
    /\ \A k \in Keys : WF_vars(Serve(k)) /\ WF_vars(Land(k))

-----------------------------------------------------------------------------
Got == {"none", "ok", "otherChain", "failed", "throttled", "reverted", "rejected", "noLogs"}
Request == [served : BOOLEAN, got : Got, height : Nat]
ReadState == [
    stage : {"idle", "asking", "told", "waiting", "done"}, method : Methods, at : 0 .. Len(Providers),
    asks : Methods \cup {Probe}, asked : Nat, attempt : Nat, wake : Nat, got : Got, height : Nat,
    told : [Provider -> Nat], answer : {"none", "ok", "error", "unavailable", "limited"}]

TypeOK ==
    /\ now \in Nat /\ height \in Nat
    /\ {cooldown, verified, unsupported} \subseteq [Provider -> Nat]
    /\ DOMAIN pending \subseteq Keys /\ pending \in [DOMAIN pending -> Request]
    /\ reader \in [Reader -> ReadState]

(* An answer comes only from a provider of this chain, whichever of them   *)
(* failed or paused meanwhile (arc-read-rpc.ts:53-60).                     *)
RightChain == \A r \in Reader : reader[r].answer \in {"ok", "error"} => Providers[reader[r].at] \notin Wrong

(* A reader does not go back to a provider before the pause that provider  *)
(* asked of it is over (arc-read-rpc.ts:50; solve-rpc.ts:16 "never retry   *)
(* before the provider permits it").                                       *)
PermittedAgain ==
    [][\A r \in Reader :
        reader'[r].stage = "asking" /\ reader[r].stage # "asking" => reader'[r].told[Providers[reader'[r].at]] <= now]_vars

(* Every read ends: shared requests, pauses and retries leave nobody       *)
(* waiting, but for a pause that outlasts the bound on time                *)
(* (arc-read-rpc.ts:19-33; solve-rpc.ts:11-18).                            *)
EveryReadEnds ==
    \A r \in Reader :
        reader[r].stage # "idle" ~> reader[r].stage = "done" \/ (now = MaxNow /\ reader[r].wake > now)

(* A read never answers from the chain as it was before it was asked       *)
(* (arc-read-rpc.ts:20 "Never reuse an earlier state read after a write"). *)
NeverEarlier == \A r \in Reader : reader[r].answer = "ok" => reader[r].height >= reader[r].asked

-----------------------------------------------------------------------------
(* The invariant behind the first two: a provider of another chain is      *)
(* never known to be of this one, and is asked for nothing but its chain;  *)
(* a reader has asked nobody within the pause that it was told.            *)
ProbesTell == \A k \in DOMAIN pending : k[1] \in Wrong /\ k[2] = Probe => pending[k].got # "ok"

NoneMistaken == \A p \in Wrong : verified[p] = 0

\* Of one reader, with the pauses cool.
OnlyProbed(q) == q.stage \in {"asking", "told"} =>
    q.at \in DOMAIN Providers /\ (Providers[q.at] \in Wrong => q.asks = Probe /\ q.got # "ok")
AnsweredRight(q) ==
    /\ q.stage # "done" => q.answer = "none"
    /\ q.answer \in {"ok", "error"} => Providers[q.at] \notin Wrong
Waited(q, cool) ==
    /\ \A p \in Provider : q.told[p] <= cool[p]
    /\ q.stage \in {"asking", "told"} => q.told[Providers[q.at]] <= now
ReaderOK(q, cool) == OnlyProbed(q) /\ AnsweredRight(q) /\ Waited(q, cool)

IInv == TypeOK /\ ProbesTell /\ NoneMistaken /\ \A r \in Reader : ReaderOK(reader[r], cooldown)

\* A set of naturals has a least element.
LEMMA LeastExists == ASSUME NEW T, T \subseteq Nat, T # {} PROVE \E e \in T : \A f \in T : e <= f
<1>1. \E e \in T : \A f \in T : <<f, e>> \notin OpToRel(<, Nat)
  BY NatLessThanWellFounded, WFMin
<1>2. PICK e \in T : \A f \in T : <<f, e>> \notin OpToRel(<, Nat)
  BY <1>1
<1>3. \A f \in T : ~(f < e)
  BY <1>2 DEF OpToRel
<1> QED
  BY <1>3

\* The loop's next provider, if there is one, is not passed over.
LEMMA NextIsOpen ==
    ASSUME RpcFailoverAssumption, NEW i \in 1 .. Beyond, NEW m
    PROVE  \/ NextAt(i, m) = Beyond
           \/ NextAt(i, m) \in i .. Len(Providers) /\ ~Skipped(NextAt(i, m), m)
<1> DEFINE left == {j \in i .. Len(Providers) : ~Skipped(j, m)}
<1> SUFFICES ASSUME left # {} PROVE NextAt(i, m) \in left
  BY DEF NextAt
<1>1. left \subseteq Nat
  BY DEF RpcFailoverAssumption, Beyond
<1>2. \E j \in left : \A k \in left : j <= k
  <2> HIDE DEF left
  <2> QED
    BY <1>1, LeastExists
<1> QED
  BY <1>2 DEF NextAt

\* A request that is sent or joined is one of a provider, and has no answer it could not have.
LEMMA SentIsHonest ==
    ASSUME RpcFailoverAssumption, TypeOK, ProbesTell,
           NEW i \in DOMAIN Providers, NEW what \in Methods \cup {Probe}, pending' = Sent(i, what)
    PROVE  /\ DOMAIN pending' \subseteq Keys /\ pending' \in [DOMAIN pending' -> Request]
           /\ ProbesTell'
<1>1. CASE <<Providers[i], what>> \in DOMAIN pending
  BY <1>1 DEF Sent, TypeOK, ProbesTell
<1>2. CASE <<Providers[i], what>> \notin DOMAIN pending
  <2> DEFINE k == <<Providers[i], what>>
  <2> DEFINE fresh == [served |-> FALSE, got |-> "none", height |-> 0]
  <2>1. pending' = [j \in DOMAIN pending \cup {k} |-> IF j \in DOMAIN pending THEN pending[j] ELSE fresh]
    BY <1>2 DEF Sent
  <2>2. k \in Keys /\ fresh \in Request
    BY DEF Keys, Provider, Request, Got
  <2>3. \A j \in DOMAIN pending : pending[j] \in Request
    BY DEF TypeOK
  <2>4. DOMAIN pending' = DOMAIN pending \cup {k}
    BY <2>1
  <2>5. DOMAIN pending' \subseteq Keys /\ pending' \in [DOMAIN pending' -> Request]
    <3> HIDE DEF k, fresh
    <3> QED
      BY <2>1, <2>2, <2>3, <2>4 DEF TypeOK
  <2>6. ProbesTell'
    BY <2>1, <2>4 DEF ProbesTell
  <2> QED
    BY <2>5, <2>6
<1> QED
  BY <1>1, <1>2

\* What the first request to a provider that is not passed over asks.
LEMMA FirstIsProbe ==
    ASSUME RpcFailoverAssumption, TypeOK, NoneMistaken, NEW j \in DOMAIN Providers, NEW m \in Methods
    PROVE  /\ FirstRequest(j, m) \in Methods \cup {Probe}
           /\ Providers[j] \in Wrong => FirstRequest(j, m) = Probe
<1>1. Providers[j] \in Wrong => j # 1 /\ verified[Providers[j]] <= now
  <2> SUFFICES ASSUME Providers[j] \in Wrong PROVE j # 1 /\ verified[Providers[j]] <= now
    OBVIOUS
  <2>1. PICK i \in 2 .. Len(Providers) : Providers[j] = Providers[i]
    BY DEF RpcFailoverAssumption
  <2>2. i \in DOMAIN Providers /\ i # 1
    BY <2>1 DEF RpcFailoverAssumption
  <2>3. i = j
    BY <2>1, <2>2 DEF RpcFailoverAssumption
  <2> QED
    BY <2>2, <2>3 DEF TypeOK, NoneMistaken
<1> QED
  BY <1>1 DEF FirstRequest

\* A reader that gives up or waits says nothing of the chain.
LEMMA GivingUp ==
    ASSUME RpcFailoverAssumption, TypeOK, NEW cool \in [Provider -> Nat],
           NEW q \in ReadState, q.answer = "none", \A p \in Provider : q.told[p] <= cool[p]
    PROVE  GivesUp(q, cool) \in ReadState /\ ReaderOK(GivesUp(q, cool), cool)
<1>1. \A a \in {"unavailable", "limited"} : Done(q, a) \in ReadState /\ ReaderOK(Done(q, a), cool)
  <2> TAKE a \in {"unavailable", "limited"}
  <2>1. (CHOOSE m \in Methods : TRUE) \in Methods
    BY DEF RpcFailoverAssumption
  <2>2. [p \in Provider |-> 0] \in [Provider -> Nat]
    OBVIOUS
  <2>3. Nobody \in ReadState
    BY <2>1, <2>2 DEF Nobody, ReadState, Got, RpcFailoverAssumption
  <2>4. Done(q, a) \in ReadState
    BY <2>3 DEF Done, ReadState
  <2>5. Done(q, a).stage = "done" /\ Done(q, a).answer = a /\ Done(q, a).told = [p \in Provider |-> 0]
    BY DEF Done, Nobody
  <2> QED
    BY <2>4, <2>5 DEF ReaderOK, OnlyProbed, AnsweredRight, Waited
<1>2. ASSUME ~ \A p \in Provider : cool[p] <= now
      PROVE  Pause(cool) \in Nat
  <2> DEFINE ends == {cool[o] : o \in {x \in Provider : cool[x] > now}}
  <2>0. PICK p \in Provider : ~(cool[p] <= now)
    BY <1>2
  <2>1. ends \subseteq Nat /\ ends # {} /\ \A e \in ends : e > now
    <3>1. cool[p] > now
      BY <2>0 DEF TypeOK
    <3>2. cool[p] \in ends
      BY <3>1
    <3> QED
      BY <3>2
  <2> HIDE DEF ends
  <2>2. \E e \in ends : \A f \in ends : e <= f
    BY <2>1, LeastExists
  <2>3. (CHOOSE e \in ends : \A f \in ends : e <= f) \in ends
    BY <2>2
  <2>4. (CHOOSE e \in ends : \A f \in ends : e <= f) - now \in Nat
    BY <2>1, <2>3 DEF TypeOK
  <2> QED
    BY <2>4 DEF Pause, Larger, ends
<1>3. CASE GivesUp(q, cool) \in {Done(q, "unavailable"), Done(q, "limited")}
  BY <1>1, <1>3
<1>4. CASE /\ GivesUp(q, cool) = [q EXCEPT !.stage = "waiting", !.wake = now + Pause(cool), !.attempt = @ + 1]
           /\ ~ \A p \in Provider : cool[p] <= now
  <2> DEFINE f == [q EXCEPT !.stage = "waiting", !.wake = now + Pause(cool), !.attempt = @ + 1]
  <2>1. now + Pause(cool) \in Nat /\ q.attempt + 1 \in Nat
    BY <1>2, <1>4 DEF TypeOK, ReadState
  <2>2. f \in ReadState
    BY <2>1 DEF ReadState
  <2>3. f.stage = "waiting" /\ f.answer = "none" /\ f.told = q.told
    BY DEF ReadState
  <2> QED
    BY <1>4, <2>2, <2>3 DEF ReaderOK, OnlyProbed, AnsweredRight, Waited
<1> QED
  BY <1>3, <1>4 DEF GivesUp

\* One reader goes on to f; pauses are not shortened.
LEMMA ReaderStep ==
    ASSUME IInv, NEW r \in Reader, NEW f \in ReadState, reader' = [reader EXCEPT ![r] = f],
           UNCHANGED <<now, height>>, {cooldown', verified', unsupported'} \subseteq [Provider -> Nat],
           \A p \in Provider : cooldown[p] <= cooldown'[p],
           DOMAIN pending' \subseteq Keys, pending' \in [DOMAIN pending' -> Request],
           ProbesTell', NoneMistaken', ReaderOK(f, cooldown')
    PROVE  IInv'
<1>1. TypeOK'
  BY DEF IInv, TypeOK
<1>2. \A o \in Reader : ReaderOK(reader'[o], cooldown')
  <2> TAKE o \in Reader
  <2>1. CASE o = r
    BY <2>1 DEF IInv, TypeOK
  <2>2. CASE o # r
    <3>1. reader'[o] = reader[o] /\ reader[o] \in ReadState /\ ReaderOK(reader[o], cooldown)
      BY <2>2 DEF IInv, TypeOK
    <3>2. \A p \in Provider : reader[o].told[p] <= cooldown'[p]
      <4> TAKE p \in Provider
      <4>1. reader[o].told[p] \in Nat /\ cooldown[p] \in Nat /\ cooldown'[p] \in Nat
        BY <3>1 DEF ReadState, IInv, TypeOK
      <4> QED
        BY <3>1, <4>1 DEF ReaderOK, Waited
    <3> QED
      BY <3>1, <3>2 DEF ReaderOK, Waited
  <2> QED
    BY <2>1, <2>2
<1>3. \A o \in Reader : ReaderOK(reader[o], cooldown)'
  BY <1>2 DEF ReaderOK, Waited, OnlyProbed, AnsweredRight
<1> QED
  BY <1>1, <1>3 DEF IInv

\* The loop goes on: it asks a provider that is open, or the read waits or ends.
LEMMA GoingOn ==
    ASSUME RpcFailoverAssumption, IInv, NEW r \in Reader, NEW i \in 1 .. Beyond,
           NEW q \in ReadState, q.answer = "none",
           NEW cool \in [Provider -> Nat], \A p \in Provider : cooldown[p] <= cool[p] /\ q.told[p] <= cool[p],
           \A j \in i .. Len(Providers) : q.told[Providers[j]] <= cooldown[Providers[j]],
           GoOn(r, q, i, cool),
           cooldown' = cool, verified' = verified, unsupported' \in [Provider -> Nat],
           UNCHANGED <<now, height>>
    PROVE  IInv'
<1> DEFINE j == NextAt(i, q.method)
<1>1. j = Beyond \/ (j \in i .. Len(Providers) /\ ~Skipped(j, q.method))
  BY NextIsOpen
<1>2. /\ NoneMistaken' /\ {cooldown', verified', unsupported'} \subseteq [Provider -> Nat]
      /\ \A p \in Provider : cooldown[p] <= cooldown'[p]
  BY DEF IInv, NoneMistaken, TypeOK
<1>3. CASE j = Beyond
  <2> DEFINE f == GivesUp([q EXCEPT !.got = "none", !.height = 0], cool)
  <2>1. reader' = [reader EXCEPT ![r] = f] /\ pending' = pending
    BY <1>3 DEF GoOn
  <2>2. /\ [q EXCEPT !.got = "none", !.height = 0] \in ReadState
        /\ [q EXCEPT !.got = "none", !.height = 0].answer = "none"
        /\ [q EXCEPT !.got = "none", !.height = 0].told = q.told
    BY DEF ReadState, Got
  <2>3. f \in ReadState /\ ReaderOK(f, cool)
    BY <2>2, GivingUp DEF IInv
  <2>4. ProbesTell' /\ DOMAIN pending' \subseteq Keys /\ pending' \in [DOMAIN pending' -> Request]
    BY <2>1 DEF IInv, TypeOK, ProbesTell
  <2> HIDE DEF f
  <2> QED
    BY <1>2, <2>1, <2>3, <2>4, ReaderStep
<1>4. CASE j # Beyond
  <2> DEFINE what == FirstRequest(j, q.method)
             f == [q EXCEPT !.stage = "asking", !.at = j, !.asks = what, !.got = "none", !.height = 0]
  <2>1. /\ j \in i .. Len(Providers) /\ j \in DOMAIN Providers /\ j \in 0 .. Len(Providers)
        /\ Providers[j] \in Provider /\ cooldown[Providers[j]] <= now
    <3>1. j \in i .. Len(Providers) /\ ~Skipped(j, q.method)
      BY <1>1, <1>4
    <3>2. j \in DOMAIN Providers /\ j \in 0 .. Len(Providers)
      BY <3>1 DEF RpcFailoverAssumption, Beyond
    <3>3. Providers[j] \in Provider
      BY <3>2 DEF Provider
    <3>4. cooldown[Providers[j]] \in Nat /\ now \in Nat
      BY <3>3 DEF IInv, TypeOK
    <3> QED
      BY <3>1, <3>2, <3>3, <3>4 DEF Skipped
  <2>2. reader' = [reader EXCEPT ![r] = f] /\ pending' = Sent(j, what)
    BY <1>4 DEF GoOn
  <2>3. q.method \in Methods
    BY DEF ReadState
  <2>4. what \in Methods \cup {Probe} /\ (Providers[j] \in Wrong => what = Probe)
    BY <2>1, <2>3, FirstIsProbe DEF IInv
  <2> HIDE DEF what, j
  <2>5. ProbesTell' /\ DOMAIN pending' \subseteq Keys /\ pending' \in [DOMAIN pending' -> Request]
    BY <2>1, <2>2, <2>4, SentIsHonest DEF IInv
  <2>6. f \in ReadState
    BY <2>1, <2>4 DEF ReadState, Got
  <2>7. /\ f.stage = "asking" /\ f.at = j /\ f.asks = what /\ f.got = "none"
        /\ f.told = q.told /\ f.answer = "none"
    BY DEF ReadState
  <2>8. q.told[Providers[j]] <= now
    <3>1. q.told[Providers[j]] \in Nat /\ cooldown[Providers[j]] \in Nat /\ now \in Nat
      BY <2>1 DEF ReadState, IInv, TypeOK
    <3>2. q.told[Providers[j]] <= cooldown[Providers[j]]
      BY <2>1
    <3> QED
      BY <2>1, <3>1, <3>2
  <2> HIDE DEF f
  <2>9. ReaderOK(f, cool)
    BY <2>1, <2>4, <2>7, <2>8 DEF ReaderOK, OnlyProbed, AnsweredRight, Waited
  <2> QED
    BY <1>2, <2>2, <2>5, <2>6, <2>9, ReaderStep
<1> QED
  BY <1>3, <1>4

LEMMA InitIInv == ASSUME RpcFailoverAssumption, Init PROVE IInv
<1>1. (CHOOSE m \in Methods : TRUE) \in Methods
  BY DEF RpcFailoverAssumption
<1>2. [p \in Provider |-> 0] \in [Provider -> Nat]
  OBVIOUS
<1>3. Nobody \in ReadState
  BY <1>1, <1>2 DEF Nobody, ReadState, Got, RpcFailoverAssumption
<1>4. DOMAIN pending = {}
  BY DEF Init
<1>5. TypeOK
  BY <1>2, <1>3, <1>4 DEF Init, TypeOK
<1>6. ReaderOK(Nobody, cooldown)
  BY DEF Init, ReaderOK, OnlyProbed, AnsweredRight, Waited, Nobody
<1>7. NoneMistaken
  <2>1. Wrong \subseteq Provider
    BY DEF RpcFailoverAssumption, Provider
  <2> QED
    BY <2>1 DEF Init, NoneMistaken
<1> QED
  BY <1>4, <1>5, <1>6, <1>7 DEF Init, IInv, ProbesTell

\* What the steps look at in a reader and the provider that it asks.
LEMMA ReaderFacts ==
    ASSUME RpcFailoverAssumption, IInv, NEW r \in Reader
    PROVE  /\ reader[r] \in ReadState /\ ReaderOK(reader[r], cooldown)
           /\ {cooldown, verified, unsupported} \subseteq [Provider -> Nat] /\ now \in Nat /\ height \in Nat
           /\ reader[r].stage \in {"asking", "told"} =>
                 /\ reader[r].at \in DOMAIN Providers /\ reader[r].at + 1 \in 1 .. Beyond
                 /\ Providers[reader[r].at] \in Provider
           /\ \A p \in Provider : cooldown[p] <= cooldown[p] /\ reader[r].told[p] <= cooldown[p]
           /\ \A j \in 1 .. Len(Providers) : reader[r].told[Providers[j]] <= cooldown[Providers[j]]
<1>1. reader[r] \in ReadState /\ ReaderOK(reader[r], cooldown)
  BY DEF IInv, TypeOK
<1>2. {cooldown, verified, unsupported} \subseteq [Provider -> Nat] /\ now \in Nat /\ height \in Nat
  BY DEF IInv, TypeOK
<1>3. \A j \in 1 .. Len(Providers) : j \in DOMAIN Providers /\ Providers[j] \in Provider /\ j + 1 \in 1 .. Beyond
  BY DEF RpcFailoverAssumption, Provider, Beyond
<1>4. DOMAIN Providers = 1 .. Len(Providers)
  BY DEF RpcFailoverAssumption
<1>5. \A p \in Provider : cooldown[p] <= cooldown[p] /\ reader[r].told[p] <= cooldown[p]
  BY <1>1, <1>2 DEF ReaderOK, Waited
<1> QED
  BY <1>1, <1>2, <1>3, <1>4, <1>5 DEF ReaderOK, OnlyProbed

LEMMA AskIInv == ASSUME RpcFailoverAssumption, IInv, NEW r \in Reader, Ask(r) PROVE IInv'
<1>1. PICK m \in Methods : GoOn(r, [Nobody EXCEPT !.method = m, !.asked = height], 1, cooldown)
  BY DEF Ask
<1> DEFINE q == [Nobody EXCEPT !.method = m, !.asked = height]
<1>2. [p \in Provider |-> 0] \in [Provider -> Nat]
  OBVIOUS
<1>3. q \in ReadState /\ q.answer = "none" /\ q.told = [p \in Provider |-> 0]
  <2>1. Nobody \in ReadState
    BY <1>2 DEF Nobody, ReadState, Got, RpcFailoverAssumption
  <2>2. q \in ReadState /\ q.answer = Nobody.answer /\ q.told = Nobody.told
    BY <2>1 DEF ReadState, IInv, TypeOK
  <2> QED
    BY <2>2 DEF Nobody
<1>4. \A p \in Provider : cooldown[p] <= cooldown[p] /\ q.told[p] <= cooldown[p]
  BY <1>3 DEF IInv, TypeOK
<1>5. \A j \in 1 .. Len(Providers) : Providers[j] \in Provider
  BY DEF RpcFailoverAssumption, Provider
<1>6. /\ 1 \in 1 .. Beyond /\ cooldown \in [Provider -> Nat] /\ cooldown' = cooldown /\ verified' = verified
      /\ unsupported' \in [Provider -> Nat] /\ UNCHANGED <<now, height>>
  BY DEF Ask, caches, IInv, TypeOK, RpcFailoverAssumption, Beyond
<1> HIDE DEF q
<1> QED
  BY <1>1, <1>3, <1>4, <1>5, <1>6, GoingOn DEF q

LEMMA WakeIInv == ASSUME RpcFailoverAssumption, IInv, NEW r \in Reader, Wake(r) PROVE IInv'
<1> DEFINE q == [reader[r] EXCEPT !.wake = 0]
<1>1. reader[r] \in ReadState /\ reader[r].answer = "none" /\ GoOn(r, q, 1, cooldown)
  BY ReaderFacts DEF Wake, ReaderOK, AnsweredRight
<1>2. q \in ReadState /\ q.answer = "none" /\ q.told = reader[r].told
  BY <1>1 DEF ReadState
<1>3. /\ 1 \in 1 .. Beyond /\ cooldown \in [Provider -> Nat] /\ cooldown' = cooldown /\ verified' = verified
      /\ unsupported' \in [Provider -> Nat] /\ UNCHANGED <<now, height>>
  BY DEF Wake, caches, IInv, TypeOK, RpcFailoverAssumption, Beyond
<1> HIDE DEF q
<1> QED
  BY <1>1, <1>2, <1>3, ReaderFacts, GoingOn

LEMMA FailsIInv == ASSUME RpcFailoverAssumption, IInv, NEW r \in Reader, Fails(r) \/ NoLogs(r) PROVE IInv'
<1> DEFINE q == reader[r]
<1>1. q.stage = "told" /\ GoOn(r, q, q.at + 1, cooldown)
  BY DEF Fails, NoLogs
<1>2. /\ q \in ReadState /\ q.answer = "none" /\ q.at + 1 \in 1 .. Beyond
      /\ Providers[q.at] \in Provider /\ unsupported \in [Provider -> Nat] /\ now \in Nat
  BY <1>1, ReaderFacts DEF ReaderOK, AnsweredRight
<1>3. now + Keep \in Nat
  BY <1>2 DEF RpcFailoverAssumption
<1>4. unsupported' \in [Provider -> Nat]
  BY <1>2, <1>3 DEF Fails, NoLogs, caches
<1>5. /\ cooldown \in [Provider -> Nat] /\ cooldown' = cooldown /\ verified' = verified
      /\ UNCHANGED <<now, height>>
  BY DEF Fails, NoLogs, caches, IInv, TypeOK
<1>6. \A j \in q.at + 1 .. Len(Providers) : j \in 1 .. Len(Providers)
  BY <1>2 DEF RpcFailoverAssumption, Beyond
<1>7. \A j \in q.at + 1 .. Len(Providers) : q.told[Providers[j]] <= cooldown[Providers[j]]
  BY <1>6, ReaderFacts
<1>8. \A p \in Provider : cooldown[p] <= cooldown[p] /\ q.told[p] <= cooldown[p]
  BY ReaderFacts
<1> HIDE DEF q
<1> QED
  BY <1>1, <1>2, <1>4, <1>5, <1>7, <1>8, GoingOn

LEMMA ThrottledIInv == ASSUME RpcFailoverAssumption, IInv, NEW r \in Reader, Throttled(r) PROVE IInv'
<1> DEFINE q == reader[r]  p == Providers[q.at]
<1>1. PICK wait \in Waits :
        /\ q.stage = "told" /\ cooldown' = Paused(p, wait)
        /\ GoOn(r, [q EXCEPT !.told[p] = now + wait], q.at + 1, Paused(p, wait))
  BY DEF Throttled
<1> DEFINE o == [q EXCEPT !.told[p] = now + wait]  cool == Paused(p, wait)
<1>2. /\ q \in ReadState /\ q.answer = "none" /\ q.at + 1 \in 1 .. Beyond /\ q.at \in DOMAIN Providers
      /\ p \in Provider /\ cooldown \in [Provider -> Nat] /\ now \in Nat
  BY <1>1, ReaderFacts DEF ReaderOK, AnsweredRight
<1>3. now + wait \in Nat
  <2>1. wait \in Nat
    BY DEF RpcFailoverAssumption
  <2> QED
    BY <1>2, <2>1
<1>4. q.told \in [Provider -> Nat]
  BY <1>2 DEF ReadState
<1>5. \A x \in Provider : q.told[x] <= cooldown[x]
  BY ReaderFacts
<1>6. /\ o \in ReadState /\ o.answer = "none" /\ o.told = [q.told EXCEPT ![p] = now + wait]
  BY <1>2, <1>3, <1>4 DEF ReadState
<1>7. cool \in [Provider -> Nat] /\ cool[p] >= now + wait /\ cool[p] >= cooldown[p]
      /\ \A x \in Provider \ {p} : cool[x] = cooldown[x]
  BY <1>2, <1>3 DEF Paused, Larger
<1>8. \A x \in Provider : cooldown[x] <= cool[x] /\ o.told[x] <= cool[x]
  <2> TAKE x \in Provider
  <2>1. cooldown[x] \in Nat /\ q.told[x] \in Nat /\ cool[x] \in Nat
    BY <1>2, <1>4, <1>7
  <2>2. CASE x = p
    BY <2>1, <2>2, <1>3, <1>4, <1>6, <1>7
  <2>3. CASE x # p
    BY <2>1, <2>3, <1>4, <1>5, <1>6, <1>7
  <2> QED
    BY <2>2, <2>3
<1>9. \A j \in q.at + 1 .. Len(Providers) : o.told[Providers[j]] <= cooldown[Providers[j]]
  <2> TAKE j \in q.at + 1 .. Len(Providers)
  <2>0. DOMAIN Providers = 1 .. Len(Providers) /\ Len(Providers) \in Nat
    BY DEF RpcFailoverAssumption
  <2>1. j \in DOMAIN Providers /\ j # q.at
    BY <1>2, <2>0
  <2>2. Providers[j] \in Provider /\ Providers[j] # p
    BY <1>2, <2>1 DEF RpcFailoverAssumption, Provider
  <2> QED
    BY <1>4, <1>5, <1>6, <2>2
<1>10. verified' = verified /\ unsupported' \in [Provider -> Nat] /\ UNCHANGED <<now, height>>
  BY DEF Throttled, IInv, TypeOK
<1> HIDE DEF q, p, o, cool
<1> QED
  BY <1>1, <1>2, <1>6, <1>7, <1>8, <1>9, <1>10, GoingOn DEF o, cool

\* The provider is on this chain: it answered the probe, and a wrong one cannot.
LEMMA VerifyIInv == ASSUME RpcFailoverAssumption, IInv, NEW r \in Reader, Verify(r) PROVE IInv'
<1> DEFINE q == reader[r]  p == Providers[q.at]
           f == [q EXCEPT !.stage = "asking", !.asks = q.method, !.got = "none", !.height = 0]
<1>1. /\ q.stage = "told" /\ q.asks = Probe /\ q.got = "ok"
      /\ verified' = [verified EXCEPT ![p] = now + Keep]
      /\ pending' = Sent(q.at, q.method)
      /\ UNCHANGED <<now, height, cooldown, unsupported>>
  BY DEF Verify
<1>2. /\ q \in ReadState /\ ReaderOK(q, cooldown) /\ q.at \in DOMAIN Providers /\ p \in Provider
      /\ {cooldown, verified, unsupported} \subseteq [Provider -> Nat] /\ now \in Nat
  BY <1>1, ReaderFacts
<1>3. p \notin Wrong
  BY <1>1, <1>2 DEF ReaderOK, OnlyProbed
<1>4. reader' = [reader EXCEPT ![r] = f]
  BY <1>2 DEF Verify, IInv, TypeOK, ReadState
<1>5. q.method \in Methods \cup {Probe} /\ q.method \in Methods
  BY <1>2 DEF ReadState
<1>6. /\ f \in ReadState /\ f.stage = "asking" /\ f.at = q.at /\ f.told = q.told
      /\ f.answer = q.answer /\ f.asks = q.method
  BY <1>2, <1>5 DEF ReadState, Got
<1>7. now + Keep \in Nat
  BY <1>2 DEF RpcFailoverAssumption
<1>8. {cooldown', verified', unsupported'} \subseteq [Provider -> Nat]
  BY <1>1, <1>2, <1>7
<1>9. \A x \in Provider : cooldown[x] <= cooldown'[x]
  BY <1>1, <1>2
<1>10. NoneMistaken'
  <2> SUFFICES ASSUME NEW x \in Wrong PROVE verified'[x] = 0
    BY DEF NoneMistaken
  <2>1. x # p /\ verified[x] = 0 /\ x \in Provider
    BY <1>3 DEF IInv, NoneMistaken, RpcFailoverAssumption, Provider
  <2> QED
    BY <1>1, <1>2, <2>1
<1>11. ProbesTell' /\ DOMAIN pending' \subseteq Keys /\ pending' \in [DOMAIN pending' -> Request]
  <2> HIDE DEF q
  <2> QED
    BY <1>1, <1>2, <1>5, SentIsHonest DEF IInv
<1>12. ReaderOK(f, cooldown')
  <2> HIDE DEF q, f
  <2> QED
    BY <1>1, <1>2, <1>3, <1>6 DEF ReaderOK, OnlyProbed, AnsweredRight, Waited, p
<1>13. UNCHANGED <<now, height>>
  BY <1>1
<1> HIDE DEF q, p, f
<1> QED
  BY <1>4, <1>6, <1>8, <1>9, <1>10, <1>11, <1>12, <1>13, ReaderStep

LEMMA RepliesIInv == ASSUME RpcFailoverAssumption, IInv, NEW r \in Reader, Replies(r) PROVE IInv'
<1> DEFINE q == reader[r]
<1>1. /\ q.stage = "told" /\ q.asks # Probe /\ UNCHANGED <<now, height, cooldown, verified, unsupported, pending>>
  BY DEF Replies, Ends, caches
<1>2. PICK a \in {"ok", "error", "unavailable"} : reader' = [reader EXCEPT ![r] = Done(q, a)]
  BY DEF Replies, Ends, IInv, TypeOK
<1>3. /\ q \in ReadState /\ ReaderOK(q, cooldown) /\ Providers[q.at] \notin Wrong
      /\ {cooldown, verified, unsupported} \subseteq [Provider -> Nat]
  BY <1>1, ReaderFacts DEF ReaderOK, OnlyProbed
<1> DEFINE f == Done(q, a)
<1>4. Nobody \in ReadState /\ Nobody.told = [p \in Provider |-> 0]
  <2>1. (CHOOSE m \in Methods : TRUE) \in Methods
    BY DEF RpcFailoverAssumption
  <2>2. [p \in Provider |-> 0] \in [Provider -> Nat]
    OBVIOUS
  <2> QED
    BY <2>1, <2>2 DEF Nobody, ReadState, Got, RpcFailoverAssumption
<1>5. f \in ReadState /\ f.stage = "done" /\ f.answer = a /\ f.at = q.at /\ f.told = Nobody.told
  <2> HIDE DEF q
  <2> QED
    BY <1>3, <1>4 DEF Done, ReadState
<1>6. ReaderOK(f, cooldown')
  <2> HIDE DEF q, f
  <2> QED
    BY <1>1, <1>3, <1>4, <1>5 DEF ReaderOK, OnlyProbed, AnsweredRight, Waited
<1>7. /\ NoneMistaken' /\ ProbesTell'
      /\ DOMAIN pending' \subseteq Keys /\ pending' \in [DOMAIN pending' -> Request]
      /\ {cooldown', verified', unsupported'} \subseteq [Provider -> Nat]
      /\ \A x \in Provider : cooldown[x] <= cooldown'[x]
  BY <1>1, <1>3 DEF IInv, TypeOK, NoneMistaken, ProbesTell
<1>8. UNCHANGED <<now, height>>
  BY <1>1
<1> HIDE DEF q, f
<1> QED
  BY <1>2, <1>5, <1>6, <1>7, <1>8, ReaderStep DEF f

LEMMA ServeIInv == ASSUME RpcFailoverAssumption, IInv, NEW k \in Keys, Serve(k) PROVE IInv'
<1>1. /\ k \in DOMAIN pending /\ UNCHANGED <<now, height, caches, reader>>
  BY DEF Serve
<1>2. PICK got \in Outcomes(k) :
        pending' = [pending EXCEPT ![k].served = TRUE, ![k].got = got, ![k].height = height]
  BY DEF Serve
<1>3. got \in Got /\ (k[1] \in Wrong /\ k[2] = Probe => got # "ok")
  BY <1>2 DEF Outcomes, Got
<1>4. pending \in [DOMAIN pending -> Request] /\ pending[k] \in Request /\ height \in Nat
  BY <1>1 DEF IInv, TypeOK
<1>5. /\ DOMAIN pending' = DOMAIN pending /\ pending'[k].got = got /\ pending'[k] \in Request
      /\ \A j \in DOMAIN pending \ {k} : pending'[j] = pending[j]
      /\ pending' \in [DOMAIN pending -> Request]
  BY <1>1, <1>2, <1>3, <1>4 DEF Request
<1>6. TypeOK'
  BY <1>1, <1>5 DEF IInv, TypeOK, caches
<1>7. ProbesTell'
  BY <1>3, <1>5 DEF IInv, ProbesTell
<1> QED
  BY <1>1, <1>6, <1>7 DEF IInv, NoneMistaken, caches, ReaderOK, OnlyProbed, AnsweredRight, Waited

\* Who shares the request is told what became of it.
LEMMA LandIInv == ASSUME RpcFailoverAssumption, IInv, NEW k \in Keys, Land(k) PROVE IInv'
<1>1. /\ k \in DOMAIN pending /\ Delivered(k) /\ UNCHANGED <<now, height, caches>>
      /\ pending' = [j \in DOMAIN pending \ {k} |-> pending[j]]
  BY DEF Land
<1>2. pending[k] \in Request
  BY <1>1 DEF IInv, TypeOK
<1>3. \A r \in Reader : reader'[r] = IF r \in Sharing(k) THEN Told(r, k) ELSE reader[r]
  BY <1>1 DEF Delivered
<1>4. ASSUME NEW r \in Sharing(k)
      PROVE  Told(r, k) \in ReadState /\ ReaderOK(Told(r, k), cooldown)
  <2> DEFINE q == reader[r]  f == Told(r, k)
  <2>1. r \in Reader /\ q.stage = "asking" /\ k = <<Providers[q.at], q.asks>>
    BY DEF Sharing
  <2>2. q \in ReadState /\ ReaderOK(q, cooldown)
    BY <2>1, ReaderFacts
  <2>3. /\ f \in ReadState /\ f.stage = "told" /\ f.got = pending[k].got /\ f.at = q.at
        /\ f.asks = q.asks /\ f.told = q.told /\ f.answer = q.answer
    BY <1>2, <2>2 DEF Told, ReadState, Request
  <2>4. Providers[q.at] \in Wrong => q.asks = Probe /\ pending[k].got # "ok"
    BY <1>1, <2>1, <2>2 DEF ReaderOK, OnlyProbed, IInv, ProbesTell
  <2> HIDE DEF q, f
  <2>5. ReaderOK(f, cooldown)
    BY <2>1, <2>2, <2>3, <2>4 DEF ReaderOK, OnlyProbed, AnsweredRight, Waited
  <2> QED
    BY <2>3, <2>5 DEF f
<1>5. \A r \in Reader : reader'[r] \in ReadState /\ ReaderOK(reader'[r], cooldown)
  BY <1>3, <1>4, ReaderFacts
<1>6. reader' \in [Reader -> ReadState]
  BY <1>1, <1>5 DEF Delivered
<1>7. TypeOK' /\ ProbesTell'
  BY <1>1, <1>6 DEF IInv, TypeOK, ProbesTell, caches
<1>8. NoneMistaken'
  BY <1>1 DEF IInv, NoneMistaken, caches
<1>9. \A r \in Reader : ReaderOK(reader[r], cooldown)'
  BY <1>1, <1>5 DEF caches, ReaderOK, OnlyProbed, AnsweredRight, Waited
<1> QED
  BY <1>7, <1>8, <1>9 DEF IInv

\* Time only takes pauses away.
LEMMA TickIInv == ASSUME RpcFailoverAssumption, IInv, Tick \/ Mine PROVE IInv'
<1>1. /\ UNCHANGED <<caches, pending, reader>> /\ now' \in Nat /\ height' \in Nat /\ now' >= now
  BY DEF Tick, Mine, IInv, TypeOK
<1>2. TypeOK' /\ ProbesTell' /\ NoneMistaken'
  BY <1>1 DEF IInv, TypeOK, ProbesTell, NoneMistaken, caches
<1>3. \A r \in Reader : ReaderOK(reader[r], cooldown)'
  <2> TAKE r \in Reader
  <2>1. reader[r] \in ReadState /\ ReaderOK(reader[r], cooldown) /\ now \in Nat
    BY ReaderFacts
  <2>2. reader[r].stage \in {"asking", "told"} => reader[r].told[Providers[reader[r].at]] \in Nat
    BY <2>1, ReaderFacts DEF ReadState
  <2> QED
    BY <1>1, <2>1, <2>2 DEF caches, ReaderOK, OnlyProbed, AnsweredRight, Waited
<1> QED
  BY <1>2, <1>3 DEF IInv

LEMMA NextIInv == ASSUME RpcFailoverAssumption, IInv, [Next]_vars PROVE IInv'
<1>1. CASE Mine \/ Tick
  BY <1>1, TickIInv
<1>2. ASSUME NEW r \in Reader, Ask(r) \/ Wake(r) \/ Process(r) PROVE IInv'
  BY <1>2, AskIInv, WakeIInv, ThrottledIInv, VerifyIInv, FailsIInv, RepliesIInv DEF Process
<1>3. ASSUME NEW k \in Keys, Serve(k) \/ Land(k) PROVE IInv'
  BY <1>3, ServeIInv, LandIInv
<1>4. CASE UNCHANGED vars
  <2>1. UNCHANGED <<now, height, cooldown, verified, unsupported, pending, reader>>
    BY <1>4 DEF vars, caches
  <2> QED
    BY <2>1 DEF IInv, TypeOK, ProbesTell, NoneMistaken, ReaderOK, OnlyProbed, AnsweredRight, Waited
<1> QED
  BY <1>1, <1>2, <1>3, <1>4 DEF Next

(* However requests are shared, fail, are throttled or refused, whatever   *)
(* providers there are and whichever of them serve another chain: a read   *)
(* is answered by this chain, and returns to no provider before the pause  *)
(* it was told is over (arc-read-rpc.ts:47-60, solve-rpc.ts:11-18).        *)
THEOREM ProvidersAreRight ==
    ASSUME RpcFailoverAssumption PROVE Spec => []TypeOK /\ []RightChain /\ PermittedAgain
<1>1. Spec => []IInv
  <2>1. Init => IInv
    BY InitIInv
  <2>2. IInv /\ [Next]_vars => IInv'
    BY NextIInv
  <2> QED
    BY <2>1, <2>2, PTL DEF Spec
<1>2. IInv => TypeOK /\ RightChain
  BY DEF IInv, RightChain, ReaderOK, AnsweredRight
<1>3. IInv /\ [Next]_vars =>
        [\A r \in Reader : reader'[r].stage = "asking" /\ reader[r].stage # "asking"
            => reader'[r].told[Providers[reader'[r].at]] <= now]_vars
  <2> SUFFICES ASSUME IInv, Next, NEW r \in Reader,
                      reader'[r].stage = "asking", reader[r].stage # "asking"
               PROVE  reader'[r].told[Providers[reader'[r].at]] <= now
    OBVIOUS
  <2>1. IInv'
    BY NextIInv
  <2>2. now' = now
    BY DEF Next, Mine, Tick, Ask, Wake, Process, Throttled, Verify, NoLogs, Fails, Replies, Serve, Land
  <2> QED
    BY <2>1, <2>2 DEF IInv, ReaderOK, Waited
<1> QED
  BY <1>1, <1>2, <1>3, PTL DEF Spec, PermittedAgain

=============================================================================
