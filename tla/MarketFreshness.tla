--------------------------- MODULE MarketFreshness ---------------------------
(***************************************************************************)
(* The browser's market store (src/lib/market-freshness.ts) over the shared*)
(* market snapshot of one server process (src/server/graph-market-cache.ts)*)
(* On the server, complete snapshots are kept for a while, reads with the  *)
(* same minimum block share one request to the index, and a failed request *)
(* may still be answered with the last good snapshot.  In the browser a    *)
(* receipt of the user's own transaction raises the floor before anything  *)
(* is awaited; a refresh waits for the index, reads, and publishes only if *)
(* no receipt came in between.  Refreshes of several revisions may be      *)
(* under way in one browser, and their answers may come in any order.  A   *)
(* snapshot is known here by its block.                                    *)
(***************************************************************************)
EXTENDS Integers, FiniteSets, TLAPS

CONSTANTS
    Browser,
    MaxBlock,       \* bound: blocks of the chain
    MaxRevision,    \* bound: receipts of one browser
    MaxFailures     \* bound: failed requests and time-outs

FreshnessAssumption ==
    MaxBlock \in Nat \ {0} /\ MaxRevision \in Nat /\ MaxFailures \in Nat

Revision == 0 .. MaxRevision

\* Whoever may wait for a read: a refresh of a browser.
Reader == Browser \X Revision

Block == 0 .. MaxBlock
NoBlock == -1

VARIABLES
    chain,      \* newest block of the chain
    indexed,    \* the newest block an indexer of the gateway has
    cached,     \* the kept snapshot, and how old it is
    pending,    \* minimum block -> the readers of the request under way
    market,     \* browser -> block of the published snapshot, or NoBlock
    floor,      \* browser -> the block of its last receipt
    indexing,   \* browser -> whether that block is still waited for
    revision,   \* browser -> how many times the floor was raised
    run,        \* browser, revision -> the refresh of that revision
    failures

cacheVars == <<cached, pending>>
shownVars == <<market, floor, indexing, revision>>
vars == <<chain, indexed, cacheVars, shownVars, run, failures>>

\* stage: nothing, waiting for the index, about to read, reading, answered.
\* The rest is what refresh took from the state when it began.
NoRun == [stage |-> "none", min |-> 0, fresh |-> FALSE, answer |-> NoBlock]
Run == [stage : {"none", "wait", "read", "reading", "answered"}, min : Block,
        fresh : BOOLEAN, answer : Block \cup {NoBlock}]

-----------------------------------------------------------------------------
(* The shared snapshot on the server *)

\* Younger than 45 seconds, younger than ten minutes, or older.
Age == {"new", "good", "old"}
NoSnapshot == [block |-> NoBlock, age |-> "old"]

CacheInit ==
    /\ cached = NoSnapshot
    /\ pending = [m \in Block |-> {}]

\* Mutated form of Hit: a kept snapshot answers every read.
HitAlways(fresh, m) == cached.age = "new"

\* A cached snapshot that answers this read at once.
Hit(fresh, m) == ~fresh /\ cached.age = "new" /\ cached.block >= m

\* A read that misses begins the request for its floor, or joins it.
Join(r, m) == pending' = [pending EXCEPT ![m] = @ \cup {r}] /\ UNCHANGED cached

\* An answer replaces what is kept unless it is older.
Kept(v) == IF v >= cached.block THEN [block |-> v, age |-> "new"] ELSE cached

\* The index answers with a block no older than the floor (number_gte): any of
\* its indexers may, at its own head.
Load(m, v) ==
    /\ pending[m] # {}
    /\ v \in m .. indexed
    /\ cached' = Kept(v)
    /\ pending' = [pending EXCEPT ![m] = {}]

\* What a failed request is answered with: the last good snapshot or an error.
Fallback(m) == IF cached.age # "old" /\ cached.block >= m THEN cached.block ELSE NoBlock

LoadFails(m) ==
    /\ pending[m] # {}
    /\ pending' = [pending EXCEPT ![m] = {}]
    /\ UNCHANGED cached

\* Mutated form of Leave: whoever leaves ends the request.
LeaveAll(R) ==
    /\ pending' = [m \in Block |-> IF pending[m] \cap R # {} THEN {} ELSE pending[m]]
    /\ UNCHANGED cached

\* Readers go away; the last one of a request takes the request with it.
Leave(R) == pending' = [m \in Block |-> pending[m] \ R] /\ UNCHANGED cached

GrowOlder ==
    /\ cached.age # "old"
    /\ cached' = [cached EXCEPT !.age = IF @ = "new" THEN "good" ELSE "old"]
    /\ UNCHANGED pending

-----------------------------------------------------------------------------
Init ==
    /\ chain = 0 /\ indexed = 0
    /\ CacheInit
    /\ market = [b \in Browser |-> NoBlock]
    /\ floor = [b \in Browser |-> 0]
    /\ indexing = [b \in Browser |-> FALSE]
    /\ revision = [b \in Browser |-> 0]
    /\ run = [b \in Browser |-> [r \in Revision |-> NoRun]]
    /\ failures = 0

Current(b, r) == revision[b] = r

\* The run of revision r goes on as f says.
Becomes(b, r, f) == run' = [run EXCEPT ![b][r] = f]
Failure == failures < MaxFailures /\ failures' = failures + 1

-----------------------------------------------------------------------------
(* The store *)

\* A transaction of this browser's user is mined and its receipt arrives:
\* requireBlock, before anything is waited for.
Receipt(b) ==
    /\ chain < MaxBlock /\ revision[b] < MaxRevision
    /\ chain' = chain + 1
    /\ floor' = [floor EXCEPT ![b] = chain + 1]
    /\ indexing' = [indexing EXCEPT ![b] = TRUE]
    /\ revision' = [revision EXCEPT ![b] = @ + 1]
    /\ UNCHANGED <<indexed, cacheVars, market, run, failures>>

Minimum(b) == IF market[b] > floor[b] THEN market[b] ELSE floor[b]

\* refresh, when the revision has none under way: later callers share it.
Refresh(b, fresh) ==
    LET r == revision[b] IN
    /\ run[b][r].stage = "none"
    /\ Becomes(b, r, [stage |-> IF indexing[b] /\ market[b] # NoBlock THEN "wait" ELSE "read",
                      min |-> Minimum(b), fresh |-> fresh \/ indexing[b], answer |-> NoBlock])
    /\ UNCHANGED <<chain, indexed, cacheVars, shownVars, failures>>

\* What an exception does: the run ends.  The error shown is left out.
Throw(b, r) == Becomes(b, r, NoRun)

\* waitForIndexed sees the minimum, or times out.
Waited(b, r) ==
    /\ run[b][r].stage = "wait"
    /\ \/ /\ indexed >= run[b][r].min
          /\ Becomes(b, r, IF Current(b, r) THEN [run[b][r] EXCEPT !.stage = "read"] ELSE NoRun)
       \/ indexed < run[b][r].min /\ Throw(b, r)
    /\ UNCHANGED <<chain, indexed, cacheVars, shownVars, failures>>

\* GET /api/market: answered from the cache, or joined to a request.
Read(b, r) ==
    /\ run[b][r].stage = "read"
    /\ LET m == run[b][r].min IN
       IF Hit(run[b][r].fresh, m)
       THEN /\ Becomes(b, r, [run[b][r] EXCEPT !.stage = "answered", !.answer = cached.block])
            /\ UNCHANGED cacheVars
       ELSE Becomes(b, r, [run[b][r] EXCEPT !.stage = "reading"]) /\ Join(<<b, r>>, m)
    /\ UNCHANGED <<chain, indexed, shownVars, failures>>

\* The answer of the request for floor m goes to each of its readers.
Deliver(m, v) ==
    run' = [b \in Browser |-> [r \in Revision |->
              IF <<b, r>> \in pending[m]
              THEN [run[b][r] EXCEPT !.stage = "answered", !.answer = v] ELSE run[b][r]]]

IndexAnswers(m) ==
    /\ \E v \in Block : Load(m, v) /\ Deliver(m, v)
    /\ UNCHANGED <<chain, indexed, shownVars, failures>>

\* The index is behind the floor (an error of the query), or cannot be reached.
IndexFails(m) ==
    /\ LoadFails(m)
    /\ Deliver(m, Fallback(m))
    /\ IF indexed < m THEN UNCHANGED failures ELSE Failure
    /\ UNCHANGED <<chain, indexed, shownVars>>

\* The answer is published if its revision is current and its block enough.
Publish(b, r) ==
    /\ run[b][r].stage = "answered"
    /\ IF ~Current(b, r) \/ run[b][r].answer < run[b][r].min
       THEN Throw(b, r) /\ UNCHANGED <<market, indexing>>
       ELSE /\ market' = [market EXCEPT ![b] = run[b][r].answer]
            /\ indexing' = [indexing EXCEPT ![b] = FALSE]
            /\ Becomes(b, r, NoRun)
    /\ UNCHANGED <<chain, indexed, cacheVars, floor, revision, failures>>

\* The page is reloaded: its requests are aborted, the floor comes back from the
\* session's storage and is required again.
Reload(b) ==
    /\ revision[b] > 0 /\ market[b] # NoBlock
    /\ market' = [market EXCEPT ![b] = NoBlock]
    /\ indexing' = [indexing EXCEPT ![b] = floor[b] > 0]
    /\ revision' = [revision EXCEPT ![b] = IF floor[b] > 0 THEN 1 ELSE 0]
    /\ run' = [run EXCEPT ![b] = [r \in Revision |-> NoRun]]
    /\ Leave({b} \X Revision)
    /\ UNCHANGED <<chain, indexed, floor, failures>>

\* A refresh's request is dropped by the network: its reader leaves.
Disconnect(b, r) ==
    /\ run[b][r].stage = "reading"
    /\ Failure
    /\ Leave({<<b, r>>})
    /\ Throw(b, r)
    /\ UNCHANGED <<chain, indexed, shownVars>>

\* Blocks without our transactions, and the index catching up.
Grow == chain < MaxBlock /\ chain' = chain + 1 /\ UNCHANGED <<indexed, cacheVars, shownVars, run, failures>>
CatchUp == indexed < chain /\ indexed' = indexed + 1 /\ UNCHANGED <<chain, cacheVars, shownVars, run, failures>>
Age45 == GrowOlder /\ UNCHANGED <<chain, indexed, shownVars, run, failures>>

\* The user presses Retry; a request to the index ends.
Retry(b) == indexing[b] /\ Refresh(b, TRUE)
IndexEnds(m) == IndexAnswers(m) \/ IndexFails(m)

Step(b, r) == Waited(b, r) \/ Read(b, r) \/ Publish(b, r)

Next ==
    \/ \E b \in Browser :
          \/ Receipt(b) \/ Reload(b) \/ \E fresh \in BOOLEAN : Refresh(b, fresh)
          \/ \E r \in Revision : Step(b, r) \/ Disconnect(b, r)
    \/ \E m \in Block : IndexEnds(m)
    \/ Grow \/ CatchUp \/ Age45

Spec == Init /\ [][Next]_vars

\* Requests end, the index follows the chain, and the user presses Retry.
FairSpec ==
    /\ Spec
    /\ \A b \in Browser :
          /\ \A r \in Revision : WF_vars(Step(b, r))
          /\ WF_vars(Retry(b))
    /\ \A m \in Block : WF_vars(IndexEnds(m)) /\ SF_vars(IndexAnswers(m))
    /\ WF_vars(CatchUp)

-----------------------------------------------------------------------------
TypeOK ==
    /\ chain \in Block /\ indexed \in 0 .. chain
    /\ cached \in [block : -1 .. indexed, age : Age]
    /\ pending \in [Block -> SUBSET Reader]
    /\ market \in [Browser -> -1 .. indexed] /\ floor \in [Browser -> 0 .. chain]
    /\ indexing \in [Browser -> BOOLEAN] /\ revision \in [Browser -> Revision]
    /\ run \in [Browser -> [Revision -> Run]]

(* A browser that is not waiting shows nothing older than its own last     *)
(* receipt, whichever cached snapshot, shared request or fallback answered *)
(* and in whatever order (market-freshness.ts:26-34, 49-66).               *)
ShowsOwnWrites == \A b \in Browser :
    ~indexing[b] /\ market[b] # NoBlock => market[b] >= floor[b]

(* What a page shows never goes back to an older block, though requests of *)
(* several revisions overtake each other and the cache serves stale blocks *)
(* (market-freshness.ts:52-63).                                            *)
NeverBack == [][\A b \in Browser : market'[b] = NoBlock \/ market'[b] >= market[b]]_vars

(* What the server keeps never goes back either, though requests for       *)
(* different floors finish in any order (graph-market-cache.ts:52-54).     *)
CacheNeverBack == [][cached'.block >= cached.block]_vars

(* Nobody waits for a request that is gone: a reader that leaves, or a     *)
(* second request for another floor, takes nothing from the others         *)
(* (graph-market-cache.ts:63-83).                                          *)
ReadersAreServed == \A b \in Browser, r \in Revision :
    run[b][r].stage = "reading" => <<b, r>> \in pending[run[b][r].min]

(* After a receipt the page comes to show it, once requests stop failing   *)
(* (market-freshness.ts:26-28, Market.tsx:261).                            *)
WriteIsShown == \A b \in Browser : indexing[b] ~> ~indexing[b]

Store(b) == INSTANCE MarketStore
              WITH market <- market[b], floor <- floor[b], indexing <- indexing[b]

(* Each page's store keeps what the trading page relies on: requests, the  *)
(* shared cache and the index behind it are steps of MarketStore or none   *)
(* (Market.tsx:60-62, market-freshness.ts).                                *)
ImplementsStore ==
    /\ \A b \in Browser : Store(b)!StoreInit
    /\ [][\A b \in Browser : [Store(b)!StoreNext]_(Store(b)!storeVars)]_vars

(* A page shows its own writes and never goes back, through whichever      *)
(* request, cache or fallback its snapshots come, and nobody is left       *)
(* waiting (market-freshness.ts:26-63, graph-market-cache.ts:52-83,        *)
(* Market.tsx:60-62).                                                      *)
PagesFresh ==
    /\ [](ShowsOwnWrites /\ ReadersAreServed)
    /\ NeverBack /\ CacheNeverBack /\ ImplementsStore

-----------------------------------------------------------------------------
(* The invariant behind it: a refresh of the current revision asks for at  *)
(* least what the page shows and what it has to show, and a reader waits   *)
(* for exactly the request of its floor.                                   *)
Assigned == \A b \in Browser, r \in Revision, m \in Block :
    <<b, r>> \in pending[m] <=> run[b][r].stage = "reading" /\ run[b][r].min = m

NoneLater == \A b \in Browser, r \in Revision : r > revision[b] => run[b][r].stage = "none"

AsksEnough == \A b \in Browser :
    run[b][revision[b]].stage # "none" => run[b][revision[b]].min >= Minimum(b)

AnswersIndexed == \A b \in Browser, r \in Revision : run[b][r].answer <= indexed

IInv == TypeOK /\ ShowsOwnWrites /\ Assigned /\ NoneLater /\ AsksEnough /\ AnswersIndexed

LEMMA InitIInv == ASSUME FreshnessAssumption, Init PROVE IInv
<1> USE FreshnessAssumption DEF Init, CacheInit
<1>1. 0 \in Block /\ 0 \in Revision /\ NoRun \in Run /\ NoSnapshot \in [block : {-1}, age : Age]
  BY DEF Block, Revision, NoRun, Run, NoBlock, NoSnapshot, Age, FreshnessAssumption
<1>2. TypeOK
  BY <1>1 DEF TypeOK, NoBlock
<1>3. ShowsOwnWrites
  BY DEF ShowsOwnWrites
<1>4. Assigned /\ NoneLater
  BY DEF Assigned, NoneLater, NoRun
<1>5. AsksEnough /\ AnswersIndexed
  BY <1>1 DEF AsksEnough, AnswersIndexed, NoRun, NoBlock
<1> QED
  BY <1>2, <1>3, <1>4, <1>5 DEF IInv

(* One refresh goes on to f, and only its own place among the readers      *)
(* changes: what f needs for the invariant to hold on.                     *)
LEMMA RunStep ==
    ASSUME FreshnessAssumption, IInv, UNCHANGED <<chain, indexed, shownVars>>,
           NEW b \in Browser, NEW r \in Revision, NEW f \in Run, Becomes(b, r, f),
           cached' \in [block : -1 .. indexed, age : Age],
           pending' \in [Block -> SUBSET Reader],
           \A m \in Block : pending'[m] \ {<<b, r>>} = pending[m] \ {<<b, r>>},
           \A m \in Block : <<b, r>> \in pending'[m] <=> f.stage = "reading" /\ f.min = m,
           r > revision[b] => f.stage = "none",
           r = revision[b] /\ f.stage # "none" => f.min >= Minimum(b),
           f.answer <= indexed
    PROVE  IInv'
<1>1. /\ run' \in [Browser -> [Revision -> Run]]
      /\ run'[b][r] = f
      /\ \A c \in Browser, s \in Revision : <<c, s>> # <<b, r>> => run'[c][s] = run[c][s]
  BY DEF Becomes, IInv, TypeOK
<1>2. /\ chain' = chain /\ indexed' = indexed /\ market' = market /\ floor' = floor
      /\ indexing' = indexing /\ revision' = revision
  BY DEF shownVars
<1>3. TypeOK'
  BY <1>1, <1>2 DEF IInv, TypeOK
<1>4. ShowsOwnWrites'
  BY <1>2 DEF IInv, ShowsOwnWrites
<1>5. Assigned'
  <2> SUFFICES ASSUME NEW c \in Browser, NEW s \in Revision, NEW m \in Block
               PROVE  <<c, s>> \in pending'[m] <=> run'[c][s].stage = "reading" /\ run'[c][s].min = m
    BY DEF Assigned
  <2>1. CASE <<c, s>> = <<b, r>>
    BY <2>1, <1>1
  <2>2. CASE <<c, s>> # <<b, r>>
    <3>1. <<c, s>> \in pending'[m] <=> <<c, s>> \in pending[m]
      BY <2>2
    <3> QED
      BY <2>2, <3>1, <1>1 DEF IInv, Assigned
  <2> QED
    BY <2>1, <2>2
<1>6. NoneLater'
  BY <1>1, <1>2 DEF IInv, NoneLater
<1>7. AsksEnough'
  <2> SUFFICES ASSUME NEW c \in Browser, run'[c][revision[c]].stage # "none"
               PROVE  run'[c][revision[c]].min >= Minimum(c)
    BY <1>2 DEF AsksEnough, Minimum
  <2>1. revision[c] \in Revision
    BY DEF IInv, TypeOK
  <2> QED
    BY <2>1, <1>1 DEF IInv, AsksEnough
<1>8. AnswersIndexed'
  BY <1>1, <1>2 DEF IInv, AnswersIndexed
<1> QED
  BY <1>3, <1>4, <1>5, <1>6, <1>7, <1>8 DEF IInv

(* Types of what the steps look at. *)
LEMMA StateFacts ==
    ASSUME FreshnessAssumption, IInv, NEW b \in Browser, NEW r \in Revision
    PROVE  /\ run[b][r] \in Run /\ run[b][r].min \in Block
           /\ revision[b] \in Revision /\ indexing[b] \in BOOLEAN
           /\ market[b] \in -1 .. indexed /\ floor[b] \in 0 .. chain
           /\ indexed \in 0 .. chain /\ chain \in Block /\ Minimum(b) \in Block
           /\ cached \in [block : -1 .. indexed, age : Age]
           /\ pending \in [Block -> SUBSET Reader]
           /\ run[b][r].stage # "reading" => \A m \in Block : <<b, r>> \notin pending[m]
<1>1. run[b][r] \in Run /\ revision[b] \in Revision /\ indexing[b] \in BOOLEAN
  BY DEF IInv, TypeOK
<1>2. /\ market[b] \in -1 .. indexed /\ floor[b] \in 0 .. chain
      /\ indexed \in 0 .. chain /\ chain \in Block
      /\ cached \in [block : -1 .. indexed, age : Age]
      /\ pending \in [Block -> SUBSET Reader]
  BY DEF IInv, TypeOK
<1>3. Minimum(b) \in Block
  BY <1>2 DEF Minimum, Block, FreshnessAssumption
<1>4. run[b][r].min \in Block
  BY <1>1 DEF Run
<1>5. run[b][r].stage # "reading" => \A m \in Block : <<b, r>> \notin pending[m]
  BY DEF IInv, Assigned
<1> QED
  BY <1>1, <1>2, <1>3, <1>4, <1>5

LEMMA Numbers ==
    ASSUME FreshnessAssumption, IInv
    PROVE  /\ indexed \in Nat /\ chain \in Nat /\ indexed <= MaxBlock /\ MaxBlock \in Nat
           /\ NoRun \in Run /\ NoRun.answer <= indexed
<1>1. MaxBlock \in Nat /\ 0 \in 0 .. MaxBlock
  BY DEF FreshnessAssumption
<1>2. indexed \in 0 .. chain /\ chain \in 0 .. MaxBlock
  BY DEF IInv, TypeOK, Block
<1>3. indexed \in Nat /\ chain \in Nat /\ indexed <= MaxBlock
  BY <1>1, <1>2
<1>4. NoRun \in Run /\ NoRun.answer = -1
  BY <1>1 DEF NoRun, Run, NoBlock, Block
<1> QED
  BY <1>1, <1>3, <1>4

(* The minimum is no less than what is shown and what has to be.           *)
LEMMA MinimumBounds ==
    ASSUME FreshnessAssumption, IInv, NEW b \in Browser
    PROVE  Minimum(b) \in Nat /\ Minimum(b) >= floor[b] /\ Minimum(b) >= market[b]
<1>1. market[b] \in -1 .. indexed /\ floor[b] \in 0 .. chain
  BY DEF IInv, TypeOK
<1>2. market[b] \in Int /\ floor[b] \in Nat
  BY <1>1
<1> QED
  BY <1>2 DEF Minimum

LEMMA GoesOn ==
    ASSUME NEW q \in Run, NEW g \in {"read", "reading"}
    PROVE  LET f == [q EXCEPT !.stage = g]
           IN  f \in Run /\ f.stage = g /\ f.min = q.min /\ f.answer = q.answer
  BY DEF Run

LEMMA Answered ==
    ASSUME NEW q \in Run, NEW v \in Block \cup {NoBlock}
    PROVE  LET f == [q EXCEPT !.stage = "answered", !.answer = v]
           IN  f \in Run /\ f.stage = "answered" /\ f.min = q.min /\ f.answer = v
  BY DEF Run

LEMMA RefreshKeeps ==
    ASSUME FreshnessAssumption, IInv, NEW b \in Browser, NEW fresh \in BOOLEAN, Refresh(b, fresh)
    PROVE  IInv'
<1> DEFINE r == revision[b]
           f == [stage |-> IF indexing[b] /\ market[b] # NoBlock THEN "wait" ELSE "read",
                 min |-> Minimum(b), fresh |-> fresh \/ indexing[b], answer |-> NoBlock]
<1>1. r \in Revision
  BY DEF IInv, TypeOK
<1>2. /\ UNCHANGED <<chain, indexed, shownVars, cached, pending>>
      /\ Becomes(b, r, f) /\ run[b][r].stage = "none"
  BY DEF Refresh, cacheVars
<1>3. f \in Run /\ f.stage \in {"wait", "read"} /\ f.min = Minimum(b) /\ f.answer = -1
  BY <1>1, StateFacts DEF Run, NoBlock
<1>4. /\ Minimum(b) \in Int /\ Minimum(b) >= Minimum(b) /\ -1 <= indexed
      /\ cached \in [block : -1 .. indexed, age : Age] /\ pending \in [Block -> SUBSET Reader]
      /\ \A m \in Block : <<b, r>> \notin pending[m]
  BY <1>1, <1>2, StateFacts DEF Block
<1> HIDE DEF f
<1>5. ~(r > revision[b])
  BY <1>1 DEF Revision
<1> HIDE DEF r
<1> QED
  BY <1>1, <1>2, <1>3, <1>4, <1>5, RunStep

(* A run that is given up, or fails, and leaves no reader behind. *)
LEMMA ThrowKeeps ==
    ASSUME FreshnessAssumption, IInv, UNCHANGED <<chain, indexed, shownVars>>,
           NEW b \in Browser, NEW r \in Revision, Throw(b, r), UNCHANGED cached,
           pending' \in [Block -> SUBSET Reader],
           \A m \in Block : pending'[m] = pending[m] \ {<<b, r>>}
    PROVE  IInv'
<1>1. NoRun \in Run /\ NoRun.stage = "none" /\ NoRun.answer <= indexed
  BY Numbers DEF NoRun
<1>2. cached' \in [block : -1 .. indexed, age : Age]
  BY StateFacts
<1>3. /\ \A m \in Block : pending'[m] \ {<<b, r>>} = pending[m] \ {<<b, r>>}
      /\ \A m \in Block : <<b, r>> \notin pending'[m]
  OBVIOUS
<1>4. Becomes(b, r, NoRun)
  BY DEF Throw
<1> HIDE DEF NoRun
<1> QED
  BY <1>1, <1>2, <1>3, <1>4, RunStep DEF NoRun

LEMMA WaitedKeeps ==
    ASSUME FreshnessAssumption, IInv, NEW b \in Browser, NEW r \in Revision, Waited(b, r)
    PROVE  IInv'
<1>1. UNCHANGED <<chain, indexed, shownVars>> /\ UNCHANGED <<cached, pending>> /\ run[b][r].stage = "wait"
  BY DEF Waited, cacheVars
<1>2. pending \in [Block -> SUBSET Reader] /\ \A m \in Block : <<b, r>> \notin pending[m]
  BY <1>1, StateFacts
<1>3. CASE Throw(b, r)
  BY <1>1, <1>2, <1>3, ThrowKeeps
<1>4. CASE Current(b, r) /\ Becomes(b, r, [run[b][r] EXCEPT !.stage = "read"])
  <2> DEFINE f == [run[b][r] EXCEPT !.stage = "read"]
  <2>1. /\ f \in Run /\ f.stage = "read" /\ f.min = run[b][r].min /\ f.answer = run[b][r].answer
        /\ revision[b] = r /\ Becomes(b, r, f)
    BY <1>4, StateFacts, GoesOn DEF Current
  <2> HIDE DEF f
  <2>2. f.min >= Minimum(b) /\ f.answer <= indexed
    BY <2>1, <1>1 DEF IInv, AsksEnough, AnswersIndexed
  <2>3. ~(r > revision[b])
    BY <2>1 DEF Revision
  <2>4. cached' \in [block : -1 .. indexed, age : Age]
    BY <1>1, StateFacts
  <2> QED
    BY <1>1, <1>2, <2>1, <2>2, <2>3, <2>4, RunStep
<1> QED
  BY <1>3, <1>4 DEF Waited, Throw

LEMMA ReadKeeps ==
    ASSUME FreshnessAssumption, IInv, NEW b \in Browser, NEW r \in Revision, Read(b, r)
    PROVE  IInv'
<1> DEFINE q == run[b][r]
           hit == [q EXCEPT !.stage = "answered", !.answer = cached.block]
           joined == [q EXCEPT !.stage = "reading"]
<1>1. UNCHANGED <<chain, indexed, shownVars>> /\ q.stage = "read"
  BY DEF Read
<1>2. /\ q \in Run /\ q.min \in Block /\ pending \in [Block -> SUBSET Reader]
      /\ \A m \in Block : <<b, r>> \notin pending[m]
      /\ cached \in [block : -1 .. indexed, age : Age]
      /\ indexed \in 0 .. chain /\ chain \in Block
  BY <1>1, StateFacts
<1>3. q.answer <= indexed /\ ~(r > revision[b]) /\ (r = revision[b] => q.min >= Minimum(b))
  BY <1>1 DEF IInv, NoneLater, AsksEnough, AnswersIndexed
<1>4. CASE Hit(q.fresh, q.min)
  <2>1. Becomes(b, r, hit) /\ UNCHANGED <<cached, pending>>
    BY <1>4 DEF Read, cacheVars
  <2>2. hit \in Run /\ hit.stage = "answered" /\ hit.min = q.min /\ hit.answer = cached.block
    <3>1. cached.block \in -1 .. indexed
      BY <1>2
    <3>2. indexed \in Nat /\ indexed <= MaxBlock /\ MaxBlock \in Nat
      BY <1>2 DEF Block, FreshnessAssumption
    <3>3. cached.block \in Block \cup {NoBlock}
      BY <3>1, <3>2 DEF Block, NoBlock
    <3> QED
      BY <1>2, <3>3, Answered
  <2>3. cached.block <= indexed
    BY <1>2
  <2> HIDE DEF hit, q
  <2> QED
    BY <1>1, <1>2, <1>3, <2>1, <2>2, <2>3, RunStep
<1>5. CASE ~Hit(q.fresh, q.min)
  <2>1. /\ Becomes(b, r, joined) /\ UNCHANGED cached
        /\ pending' = [pending EXCEPT ![q.min] = @ \cup {<<b, r>>}]
    BY <1>5 DEF Read, Join
  <2>2. joined \in Run /\ joined.stage = "reading" /\ joined.min = q.min /\ joined.answer = q.answer
    BY <1>2, GoesOn
  <2>3. <<b, r>> \in Reader
    BY DEF Reader
  <2> HIDE DEF joined, q
  <2>4. /\ pending' \in [Block -> SUBSET Reader]
        /\ \A m \in Block : pending'[m] \ {<<b, r>>} = pending[m] \ {<<b, r>>}
        /\ \A m \in Block : <<b, r>> \in pending'[m] <=> q.min = m
    BY <1>2, <2>1, <2>3
  <2> QED
    BY <1>1, <1>2, <1>3, <2>1, <2>2, <2>4, RunStep
<1> QED
  BY <1>4, <1>5

LEMMA DisconnectKeeps ==
    ASSUME FreshnessAssumption, IInv, NEW b \in Browser, NEW r \in Revision, Disconnect(b, r)
    PROVE  IInv'
<1>1. /\ UNCHANGED <<chain, indexed, shownVars>> /\ UNCHANGED cached /\ Throw(b, r)
      /\ pending' = [m \in Block |-> pending[m] \ {<<b, r>>}]
  BY DEF Disconnect, Leave
<1>2. pending \in [Block -> SUBSET Reader]
  BY StateFacts
<1>3. pending' \in [Block -> SUBSET Reader] /\ \A m \in Block : pending'[m] = pending[m] \ {<<b, r>>}
  BY <1>1, <1>2
<1> QED
  BY <1>1, <1>3, ThrowKeeps

(* What Publish does: nothing, or the page shows the answer of its current *)
(* revision, which is no older than anything it has to show.               *)
LEMMA PublishShows ==
    ASSUME FreshnessAssumption, IInv, NEW b \in Browser, NEW r \in Revision, Publish(b, r)
    PROVE  \/ Throw(b, r) /\ UNCHANGED shownVars
           \/ \E v \in Block :
                /\ v >= Minimum(b) /\ v <= indexed /\ revision[b] = r
                /\ market' = [market EXCEPT ![b] = v]
                /\ indexing' = [indexing EXCEPT ![b] = FALSE]
                /\ UNCHANGED <<floor, revision>> /\ Throw(b, r)
<1>1. CASE ~Current(b, r) \/ run[b][r].answer < run[b][r].min
  BY <1>1 DEF Publish, shownVars
<1>2. CASE Current(b, r) /\ ~(run[b][r].answer < run[b][r].min)
  <2> DEFINE v == run[b][r].answer
  <2>1. /\ market' = [market EXCEPT ![b] = v] /\ indexing' = [indexing EXCEPT ![b] = FALSE]
        /\ UNCHANGED <<floor, revision>> /\ Throw(b, r)
    BY <1>2 DEF Publish, Throw
  <2>2. revision[b] = r /\ run[b][r].min >= Minimum(b) /\ v <= indexed
    BY <1>2 DEF Publish, Current, IInv, AsksEnough, AnswersIndexed
  <2>3. run[b][r].min \in Nat /\ Minimum(b) \in Nat /\ MaxBlock \in Nat
    <3>1. run[b][r].min \in Block
      BY StateFacts
    <3> QED
      BY <3>1, Numbers, MinimumBounds DEF Block
  <2>4. v \in Block \cup {NoBlock}
    <3>1. run[b][r] \in Run
      BY StateFacts
    <3> QED
      BY <3>1 DEF Run
  <2>5. v \in Block
    BY <1>2, <2>3, <2>4 DEF Block, NoBlock
  <2>6. v >= Minimum(b)
    BY <1>2, <2>2, <2>3, <2>5 DEF Block
  <2> QED
    BY <2>1, <2>2, <2>5, <2>6
<1> QED
  BY <1>1, <1>2

LEMMA PublishKeeps ==
    ASSUME FreshnessAssumption, IInv, NEW b \in Browser, NEW r \in Revision, Publish(b, r)
    PROVE  IInv'
<1>1. UNCHANGED <<chain, indexed, cached, pending, floor, revision>> /\ run[b][r].stage = "answered"
  BY DEF Publish, cacheVars
<1>2. /\ pending \in [Block -> SUBSET Reader]
      /\ \A m \in Block : <<b, r>> \notin pending[m]
  BY <1>1, StateFacts
<1>3. pending' \in [Block -> SUBSET Reader] /\ \A m \in Block : pending'[m] = pending[m] \ {<<b, r>>}
  BY <1>1, <1>2
<1>4. CASE Throw(b, r) /\ UNCHANGED shownVars
  BY <1>1, <1>3, <1>4, ThrowKeeps
<1>5. ASSUME NEW v \in Block, v >= Minimum(b), v <= indexed, revision[b] = r, Throw(b, r),
             market' = [market EXCEPT ![b] = v], indexing' = [indexing EXCEPT ![b] = FALSE]
      PROVE  IInv'
  <2>1. /\ run' \in [Browser -> [Revision -> Run]]
        /\ run'[b][r] = NoRun
        /\ \A c \in Browser, s \in Revision : <<c, s>> # <<b, r>> => run'[c][s] = run[c][s]
    <3>1. NoRun \in Run
      BY DEF NoRun, Run, Block, NoBlock, FreshnessAssumption
    <3> QED
      BY <1>5, <3>1 DEF Throw, Becomes, IInv, TypeOK
  <2>2. /\ market' \in [Browser -> -1 .. indexed] /\ market'[b] = v
        /\ \A c \in Browser : c # b => market'[c] = market[c]
    <3>1. v \in -1 .. indexed
      BY <1>5 DEF Block, IInv, TypeOK, FreshnessAssumption
    <3> QED
      BY <1>5, <3>1 DEF IInv, TypeOK
  <2>3. /\ indexing' \in [Browser -> BOOLEAN]
        /\ \A c \in Browser : c # b => indexing'[c] = indexing[c]
    BY <1>5 DEF IInv, TypeOK
  <2>4. TypeOK'
    BY <1>1, <2>1, <2>2, <2>3 DEF IInv, TypeOK
  <2>5. ShowsOwnWrites'
    <3>1. v >= floor[b]
      <4>1. Minimum(b) \in Nat /\ Minimum(b) >= floor[b] /\ floor[b] \in Nat /\ v \in Nat
        BY MinimumBounds DEF Block, IInv, TypeOK
      <4> QED
        BY <4>1, <1>5
    <3> QED
      BY <3>1, <1>1, <2>2, <2>3 DEF IInv, ShowsOwnWrites
  <2>6. Assigned'
    <3> SUFFICES ASSUME NEW c \in Browser, NEW s \in Revision, NEW m \in Block
                 PROVE  <<c, s>> \in pending[m] <=> run'[c][s].stage = "reading" /\ run'[c][s].min = m
      BY <1>1 DEF Assigned
    <3>1. CASE <<c, s>> = <<b, r>>
      BY <3>1, <1>2, <2>1 DEF NoRun
    <3>2. CASE <<c, s>> # <<b, r>>
      BY <3>2, <2>1 DEF IInv, Assigned
    <3> QED
      BY <3>1, <3>2
  <2>7. NoneLater'
    BY <1>1, <2>1 DEF IInv, NoneLater, NoRun
  <2>8. AsksEnough'
    <3> SUFFICES ASSUME NEW c \in Browser, run'[c][revision[c]].stage # "none"
                 PROVE  run'[c][revision[c]].min >= Minimum(c)'
      BY <1>1 DEF AsksEnough
    <3>1. revision[c] \in Revision
      BY DEF IInv, TypeOK
    <3>2. c # b
      BY <1>5, <2>1 DEF NoRun
    <3>3. Minimum(c)' = Minimum(c)
      BY <3>2, <1>1, <2>2 DEF Minimum
    <3> QED
      BY <3>1, <3>2, <3>3, <2>1 DEF IInv, AsksEnough
  <2>9. AnswersIndexed'
    <3>1. NoRun.answer <= indexed
      BY Numbers
    <3> QED
      BY <3>1, <1>1, <2>1 DEF IInv, AnswersIndexed
  <2> QED
    BY <2>4, <2>5, <2>6, <2>7, <2>8, <2>9 DEF IInv
<1> QED
  BY <1>4, <1>5, PublishShows

(* A receipt: the new revision has no refresh yet. *)
LEMMA ReceiptKeeps ==
    ASSUME FreshnessAssumption, IInv, NEW b \in Browser, Receipt(b)
    PROVE  IInv'
<1>1. /\ chain < MaxBlock /\ revision[b] < MaxRevision /\ chain' = chain + 1
      /\ floor' = [floor EXCEPT ![b] = chain + 1]
      /\ indexing' = [indexing EXCEPT ![b] = TRUE]
      /\ revision' = [revision EXCEPT ![b] = @ + 1]
      /\ UNCHANGED <<indexed, cached, pending, market, run>>
  BY DEF Receipt, cacheVars
<1>2. /\ chain \in Nat /\ indexed \in 0 .. chain /\ chain' \in Block /\ chain' = chain + 1
      /\ revision[b] \in Nat /\ revision[b] + 1 \in Revision
  BY <1>1 DEF IInv, TypeOK, Block, Revision, FreshnessAssumption
<1>3. /\ floor' \in [Browser -> 0 .. chain'] /\ indexing' \in [Browser -> BOOLEAN]
      /\ revision' \in [Browser -> Revision] /\ indexed' \in 0 .. chain'
      /\ revision'[b] = revision[b] + 1 /\ indexing'[b] = TRUE
      /\ \A c \in Browser : c # b => /\ revision'[c] = revision[c] /\ floor'[c] = floor[c]
                                     /\ indexing'[c] = indexing[c]
  BY <1>1, <1>2 DEF IInv, TypeOK
<1>4. TypeOK'
  BY <1>1, <1>2, <1>3 DEF IInv, TypeOK
<1>5. ShowsOwnWrites'
  BY <1>1, <1>3 DEF IInv, ShowsOwnWrites
<1>6. Assigned'
  BY <1>1 DEF IInv, Assigned
<1>7. NoneLater'
  <2> SUFFICES ASSUME NEW c \in Browser, NEW s \in Revision, s > revision'[c]
               PROVE  run[c][s].stage = "none"
    BY <1>1 DEF NoneLater
  <2>1. s > revision[c]
    BY <1>2, <1>3 DEF Revision
  <2> QED
    BY <2>1 DEF IInv, NoneLater
<1>8. AsksEnough'
  <2> SUFFICES ASSUME NEW c \in Browser, run[c][revision'[c]].stage # "none"
               PROVE  run[c][revision'[c]].min >= Minimum(c)'
    BY <1>1 DEF AsksEnough
  <2>1. c # b
    <3>1. revision'[b] \in Revision /\ revision'[b] > revision[b]
      BY <1>2, <1>3
    <3> QED
      BY <3>1 DEF IInv, NoneLater
  <2>2. Minimum(c)' = Minimum(c) /\ revision'[c] = revision[c]
    BY <2>1, <1>1, <1>3 DEF Minimum
  <2> QED
    BY <2>2 DEF IInv, AsksEnough
<1>9. AnswersIndexed'
  BY <1>1 DEF IInv, AnswersIndexed
<1> QED
  BY <1>4, <1>5, <1>6, <1>7, <1>8, <1>9 DEF IInv

LEMMA ReloadKeeps ==
    ASSUME FreshnessAssumption, IInv, NEW b \in Browser, Reload(b)
    PROVE  IInv'
<1>1. /\ market' = [market EXCEPT ![b] = NoBlock]
      /\ indexing' = [indexing EXCEPT ![b] = floor[b] > 0]
      /\ revision' = [revision EXCEPT ![b] = IF floor[b] > 0 THEN 1 ELSE 0]
      /\ run' = [run EXCEPT ![b] = [r \in Revision |-> NoRun]]
      /\ pending' = [m \in Block |-> pending[m] \ ({b} \X Revision)]
      /\ UNCHANGED <<chain, indexed, floor, cached>> /\ revision[b] > 0
  BY DEF Reload, Leave
<1>2. NoRun \in Run /\ 0 \in Revision /\ 1 \in Revision
  <2>1. revision[b] \in 0 .. MaxRevision /\ MaxRevision \in Nat
    BY DEF IInv, TypeOK, Revision, FreshnessAssumption
  <2>2. MaxRevision >= 1
    BY <1>1, <2>1
  <2> QED
    BY <2>1, <2>2 DEF NoRun, Run, Block, NoBlock, Revision, FreshnessAssumption
<1>3. /\ run' \in [Browser -> [Revision -> Run]]
      /\ \A r \in Revision : run'[b][r] = NoRun
      /\ \A c \in Browser : c # b => run'[c] = run[c]
  BY <1>1, <1>2 DEF IInv, TypeOK
<1>4. /\ market' \in [Browser -> -1 .. indexed] /\ market'[b] = NoBlock
      /\ \A c \in Browser : c # b => market'[c] = market[c]
  BY <1>1 DEF IInv, TypeOK, NoBlock
<1>5. /\ indexing' \in [Browser -> BOOLEAN] /\ revision' \in [Browser -> Revision]
      /\ \A c \in Browser : c # b => indexing'[c] = indexing[c] /\ revision'[c] = revision[c]
  BY <1>1, <1>2 DEF IInv, TypeOK
<1>6. /\ pending' \in [Block -> SUBSET Reader]
      /\ \A m \in Block, r \in Revision : <<b, r>> \notin pending'[m]
      /\ \A m \in Block, c \in Browser, r \in Revision :
            c # b => (<<c, r>> \in pending'[m] <=> <<c, r>> \in pending[m])
  BY <1>1 DEF IInv, TypeOK
<1>7. TypeOK'
  BY <1>1, <1>3, <1>4, <1>5, <1>6 DEF IInv, TypeOK
<1>8. ShowsOwnWrites'
  BY <1>1, <1>4, <1>5 DEF IInv, ShowsOwnWrites
<1>9. Assigned'
  <2> SUFFICES ASSUME NEW c \in Browser, NEW s \in Revision, NEW m \in Block
               PROVE  <<c, s>> \in pending'[m] <=> run'[c][s].stage = "reading" /\ run'[c][s].min = m
    BY DEF Assigned
  <2>1. CASE c = b
    BY <2>1, <1>3, <1>6 DEF NoRun
  <2>2. CASE c # b
    BY <2>2, <1>3, <1>6 DEF IInv, Assigned
  <2> QED
    BY <2>1, <2>2
<1>10. NoneLater'
  <2> SUFFICES ASSUME NEW c \in Browser, NEW s \in Revision, s > revision'[c]
               PROVE  run'[c][s].stage = "none"
    BY DEF NoneLater
  <2>1. CASE c = b
    BY <2>1, <1>3 DEF NoRun
  <2>2. CASE c # b
    BY <2>2, <1>3, <1>5 DEF IInv, NoneLater
  <2> QED
    BY <2>1, <2>2
<1>11. AsksEnough'
  <2> SUFFICES ASSUME NEW c \in Browser, run'[c][revision'[c]].stage # "none"
               PROVE  run'[c][revision'[c]].min >= Minimum(c)'
    BY DEF AsksEnough
  <2>1. c # b
    BY <1>3, <1>5 DEF NoRun
  <2>2. Minimum(c)' = Minimum(c)
    BY <2>1, <1>1, <1>4 DEF Minimum
  <2> QED
    BY <2>1, <2>2, <1>3, <1>5 DEF IInv, AsksEnough
<1>12. AnswersIndexed'
  <2>1. NoRun.answer <= indexed
    BY Numbers
  <2> SUFFICES ASSUME NEW c \in Browser, NEW s \in Revision PROVE run'[c][s].answer <= indexed
    BY <1>1 DEF AnswersIndexed
  <2>2. CASE c = b
    BY <2>1, <2>2, <1>3
  <2>3. CASE c # b
    BY <2>3, <1>3 DEF IInv, AnswersIndexed
  <2> QED
    BY <2>2, <2>3
<1> QED
  BY <1>7, <1>8, <1>9, <1>10, <1>11, <1>12 DEF IInv

(* The request for floor m ends, with an answer or an error for all its    *)
(* readers.                                                                *)
LEMMA DeliverKeeps ==
    ASSUME FreshnessAssumption, IInv, UNCHANGED <<chain, indexed, shownVars>>,
           NEW m \in Block, NEW v \in Block \cup {NoBlock}, v <= indexed, Deliver(m, v),
           cached' \in [block : -1 .. indexed, age : Age],
           pending' = [pending EXCEPT ![m] = {}]
    PROVE  IInv'
<1> DEFINE served(q) == [q EXCEPT !.stage = "answered", !.answer = v]
<1>1. /\ run \in [Browser -> [Revision -> Run]] /\ pending \in [Block -> SUBSET Reader]
      /\ chain' = chain /\ indexed' = indexed /\ market' = market /\ floor' = floor
      /\ indexing' = indexing /\ revision' = revision
  BY DEF IInv, TypeOK, shownVars
<1>2. \A q \in Run : /\ served(q) \in Run /\ served(q).stage = "answered"
                     /\ served(q).min = q.min /\ served(q).answer = v
  BY Answered
<1> HIDE DEF served
<1>3. \A b \in Browser, r \in Revision :
         run'[b][r] = IF <<b, r>> \in pending[m] THEN served(run[b][r]) ELSE run[b][r]
  BY DEF Deliver, served
<1>4. \A b \in Browser, r \in Revision : run[b][r] \in Run
  BY <1>1
<1>5. run' \in [Browser -> [Revision -> Run]]
  <2>1. run' = [b \in Browser |-> [r \in Revision |->
                  IF <<b, r>> \in pending[m] THEN served(run[b][r]) ELSE run[b][r]]]
    BY DEF Deliver, served
  <2> QED
    BY <2>1, <1>2, <1>4
<1>6. TypeOK'
  <2>1. pending' \in [Block -> SUBSET Reader]
    BY <1>1
  <2> QED
    BY <2>1, <1>1, <1>5 DEF IInv, TypeOK
<1>7. ShowsOwnWrites'
  BY <1>1 DEF IInv, ShowsOwnWrites
<1>8. Assigned'
  <2> SUFFICES ASSUME NEW b \in Browser, NEW r \in Revision, NEW n \in Block
               PROVE  <<b, r>> \in pending'[n] <=> run'[b][r].stage = "reading" /\ run'[b][r].min = n
    BY DEF Assigned
  <2>1. /\ <<b, r>> \in pending[m] => run'[b][r].stage = "answered" /\ run[b][r].min = m
        /\ <<b, r>> \notin pending[m] => run'[b][r] = run[b][r]
    BY <1>2, <1>3, <1>4 DEF IInv, Assigned
  <2>2. /\ <<b, r>> \in pending[n] <=> run[b][r].stage = "reading" /\ run[b][r].min = n
        /\ <<b, r>> \in pending[m] <=> run[b][r].stage = "reading" /\ run[b][r].min = m
    BY DEF IInv, Assigned
  <2>3. pending'[n] = IF n = m THEN {} ELSE pending[n]
    BY <1>1
  <2> QED
    BY <2>1, <2>2, <2>3
<1>9. NoneLater'
  <2> SUFFICES ASSUME NEW b \in Browser, NEW r \in Revision, r > revision[b]
               PROVE  run'[b][r].stage = "none"
    BY <1>1 DEF NoneLater
  <2>1. run[b][r].stage = "none"
    BY DEF IInv, NoneLater
  <2>2. <<b, r>> \notin pending[m]
    BY <2>1 DEF IInv, Assigned
  <2> QED
    BY <2>1, <2>2, <1>3
<1>10. AsksEnough'
  <2> SUFFICES ASSUME NEW b \in Browser, run'[b][revision[b]].stage # "none"
               PROVE  run'[b][revision[b]].min >= Minimum(b)
    BY <1>1 DEF AsksEnough, Minimum
  <2>1. revision[b] \in Revision
    BY DEF IInv, TypeOK
  <2>2. run[b][revision[b]].stage # "none" /\ run'[b][revision[b]].min = run[b][revision[b]].min
    <3>1. CASE <<b, revision[b]>> \in pending[m]
      <4>1. run[b][revision[b]].stage = "reading" /\ run[b][revision[b]] \in Run
        BY <2>1, <3>1, <1>4 DEF IInv, Assigned
      <4>2. run'[b][revision[b]] = served(run[b][revision[b]])
        BY <2>1, <3>1, <1>3
      <4> QED
        BY <4>1, <4>2, <1>2
    <3>2. CASE <<b, revision[b]>> \notin pending[m]
      BY <2>1, <3>2, <1>3
    <3> QED
      BY <3>1, <3>2
  <2> QED
    BY <2>2 DEF IInv, AsksEnough
<1>11. AnswersIndexed'
  <2> SUFFICES ASSUME NEW b \in Browser, NEW r \in Revision PROVE run'[b][r].answer <= indexed
    BY <1>1 DEF AnswersIndexed
  <2>1. CASE <<b, r>> \in pending[m]
    <3>1. run'[b][r] = served(run[b][r]) /\ run[b][r] \in Run
      BY <2>1, <1>3, <1>4
    <3> QED
      BY <3>1, <1>2
  <2>2. CASE <<b, r>> \notin pending[m]
    BY <2>2, <1>3 DEF IInv, AnswersIndexed
  <2> QED
    BY <2>1, <2>2
<1> QED
  BY <1>6, <1>7, <1>8, <1>9, <1>10, <1>11 DEF IInv

(* What is kept after an answer is at most what the index has, and never   *)
(* older than before.                                                      *)
LEMMA KeptBounds ==
    ASSUME FreshnessAssumption, IInv, NEW v \in Block, v <= indexed
    PROVE  Kept(v) \in [block : -1 .. indexed, age : Age] /\ Kept(v).block >= cached.block
<1>1. cached \in [block : -1 .. indexed, age : Age]
  BY DEF IInv, TypeOK
<1>2. v \in -1 .. indexed /\ cached.block \in -1 .. indexed
  BY <1>1, Numbers DEF Block
<1>3. CASE v >= cached.block
  BY <1>2, <1>3 DEF Kept, Age
<1>4. CASE ~(v >= cached.block)
  BY <1>1, <1>2, <1>4 DEF Kept
<1> QED
  BY <1>3, <1>4

LEMMA IndexEndsKeeps ==
    ASSUME FreshnessAssumption, IInv, NEW m \in Block, IndexEnds(m)
    PROVE  IInv' /\ cached'.block >= cached.block /\ UNCHANGED shownVars
<1>1. cached \in [block : -1 .. indexed, age : Age] /\ indexed \in Nat /\ indexed <= MaxBlock /\ MaxBlock \in Nat
  BY Numbers DEF IInv, TypeOK
<1>2. cached.block \in -1 .. indexed
  BY <1>1
<1>3. CASE IndexAnswers(m)
  <2>1. PICK v \in Block : Load(m, v) /\ Deliver(m, v)
    BY <1>3 DEF IndexAnswers
  <2>2. /\ UNCHANGED <<chain, indexed, shownVars>> /\ v <= indexed
        /\ cached' = Kept(v) /\ pending' = [pending EXCEPT ![m] = {}]
    BY <1>3, <2>1 DEF IndexAnswers, Load
  <2>3. cached' \in [block : -1 .. indexed, age : Age] /\ cached'.block >= cached.block
    BY <2>2, KeptBounds
  <2> QED
    BY <2>1, <2>2, <2>3, DeliverKeeps
<1>4. CASE IndexFails(m)
  <2>1. /\ UNCHANGED <<chain, indexed, shownVars>> /\ UNCHANGED cached
        /\ pending' = [pending EXCEPT ![m] = {}] /\ Deliver(m, Fallback(m))
    BY <1>4 DEF IndexFails, LoadFails
  <2>2. Fallback(m) \in Block \cup {NoBlock} /\ Fallback(m) <= indexed
    BY <1>1, <1>2 DEF Fallback, Block, NoBlock
  <2>3. cached' \in [block : -1 .. indexed, age : Age] /\ cached'.block >= cached.block
    BY <1>1, <1>2, <2>1
  <2> QED
    BY <2>1, <2>2, <2>3, DeliverKeeps
<1> QED
  BY <1>3, <1>4 DEF IndexEnds

(* The world moves on without the page. *)
LEMMA TimeKeeps ==
    ASSUME FreshnessAssumption, IInv, Grow \/ CatchUp \/ Age45
    PROVE  IInv' /\ cached'.block >= cached.block /\ UNCHANGED shownVars
<1>1. /\ UNCHANGED <<pending, shownVars, run>>
      /\ \/ chain' = chain + 1 /\ chain < MaxBlock /\ UNCHANGED <<indexed, cached>>
         \/ indexed' = indexed + 1 /\ indexed < chain /\ UNCHANGED <<chain, cached>>
         \/ /\ cached' = [cached EXCEPT !.age = IF @ = "new" THEN "good" ELSE "old"]
            /\ UNCHANGED <<chain, indexed>>
  BY DEF Grow, CatchUp, Age45, GrowOlder, cacheVars
<1>2. /\ chain \in Nat /\ chain <= MaxBlock /\ MaxBlock \in Nat
      /\ indexed \in Nat /\ indexed <= chain /\ cached \in [block : -1 .. indexed, age : Age]
  BY Numbers DEF IInv, TypeOK, Block
<1>3. cached.block \in -1 .. indexed
  BY <1>2
<1>4. /\ chain' \in Block /\ indexed' \in 0 .. chain' /\ chain' >= chain /\ indexed' >= indexed
      /\ chain' \in Nat /\ indexed' \in Nat
  BY <1>1, <1>2 DEF Block
<1>5. cached' \in [block : -1 .. indexed', age : Age] /\ cached'.block = cached.block
  <2>1. cached' = cached \/ cached' = [cached EXCEPT !.age = IF @ = "new" THEN "good" ELSE "old"]
    BY <1>1
  <2>2. cached' \in [block : -1 .. indexed, age : Age] /\ cached'.block = cached.block
    BY <2>1, <1>2 DEF Age
  <2>3. -1 .. indexed \subseteq -1 .. indexed'
    BY <1>2, <1>4
  <2> QED
    BY <2>2, <2>3
<1>6. /\ market' \in [Browser -> -1 .. indexed'] /\ floor' \in [Browser -> 0 .. chain']
      /\ market' = market /\ floor' = floor /\ indexing' = indexing /\ revision' = revision
  <2>1. -1 .. indexed \subseteq -1 .. indexed' /\ 0 .. chain \subseteq 0 .. chain'
    BY <1>2, <1>4
  <2> QED
    BY <2>1, <1>1 DEF IInv, TypeOK, shownVars
<1>7. TypeOK'
  BY <1>1, <1>4, <1>5, <1>6 DEF IInv, TypeOK
<1>8. ShowsOwnWrites' /\ Assigned' /\ NoneLater' /\ AsksEnough'
  BY <1>1, <1>6 DEF IInv, ShowsOwnWrites, Assigned, NoneLater, AsksEnough, Minimum
<1>9. AnswersIndexed'
  <2> SUFFICES ASSUME NEW b \in Browser, NEW r \in Revision PROVE run[b][r].answer <= indexed'
    BY <1>1 DEF AnswersIndexed
  <2>1. run[b][r].answer \in Block \cup {NoBlock} /\ run[b][r].answer <= indexed
    BY DEF IInv, TypeOK, AnswersIndexed, Run
  <2>2. run[b][r].answer \in Int
    BY <2>1 DEF Block, NoBlock
  <2> QED
    BY <2>1, <2>2, <1>2, <1>4
<1> QED
  BY <1>1, <1>3, <1>5, <1>7, <1>8, <1>9 DEF IInv

LEMMA NextIInv == ASSUME FreshnessAssumption, IInv, [Next]_vars PROVE IInv'
<1>1. CASE UNCHANGED vars
  BY <1>1 DEF vars, cacheVars, shownVars, IInv, TypeOK, ShowsOwnWrites, Assigned, NoneLater,
              AsksEnough, AnswersIndexed, Minimum
<1>2. ASSUME NEW b \in Browser, Receipt(b) \/ Reload(b) \/ \E fresh \in BOOLEAN : Refresh(b, fresh)
      PROVE  IInv'
  BY <1>2, ReceiptKeeps, ReloadKeeps, RefreshKeeps
<1>3. ASSUME NEW b \in Browser, NEW r \in Revision, Step(b, r) \/ Disconnect(b, r)
      PROVE  IInv'
  BY <1>3, WaitedKeeps, ReadKeeps, PublishKeeps, DisconnectKeeps DEF Step
<1>4. ASSUME NEW m \in Block, IndexEnds(m) PROVE IInv'
  BY <1>4, IndexEndsKeeps
<1>5. CASE Grow \/ CatchUp \/ Age45
  BY <1>5, TimeKeeps
<1> QED
  BY <1>1, <1>2, <1>3, <1>4, <1>5 DEF Next

LEMMA Invariance == ASSUME FreshnessAssumption PROVE Spec => []IInv
<1>1. Init => IInv
  BY InitIInv
<1>2. IInv /\ [Next]_vars => IInv'
  BY NextIInv
<1> QED
  BY <1>1, <1>2, PTL DEF Spec

-----------------------------------------------------------------------------
(* Which steps change what a page shows, and how. *)
LEMMA ShownChanges ==
    ASSUME Next
    PROVE  \/ UNCHANGED shownVars
           \/ \E b \in Browser : Receipt(b) \/ Reload(b) \/ \E r \in Revision : Publish(b, r)
<1>1. ASSUME NEW b \in Browser, NEW fresh \in BOOLEAN, Refresh(b, fresh) PROVE UNCHANGED shownVars
  BY <1>1 DEF Refresh
<1>2. ASSUME NEW b \in Browser, NEW r \in Revision, Waited(b, r) \/ Read(b, r) \/ Disconnect(b, r)
      PROVE  UNCHANGED shownVars
  BY <1>2 DEF Waited, Read, Disconnect
<1>3. ASSUME NEW m \in Block, IndexEnds(m) PROVE UNCHANGED shownVars
  BY <1>3 DEF IndexEnds, IndexAnswers, IndexFails
<1>4. CASE Grow \/ CatchUp \/ Age45
  BY <1>4 DEF Grow, CatchUp, Age45
<1> QED
  BY <1>1, <1>2, <1>3, <1>4 DEF Next, Step

(* Every step of the system is, for each page's store, a step of           *)
(* MarketStore or none.                                                    *)
LEMMA StoreSteps ==
    ASSUME FreshnessAssumption, IInv, Next, NEW c \in Browser
    PROVE  [Store(c)!StoreNext]_(Store(c)!storeVars)
<1>1. CASE UNCHANGED shownVars
  BY <1>1 DEF shownVars, Store!storeVars
<1>2. ASSUME NEW b \in Browser, Receipt(b) PROVE [Store(c)!StoreNext]_(Store(c)!storeVars)
  <2>1. /\ floor' = [floor EXCEPT ![b] = chain + 1] /\ indexing' = [indexing EXCEPT ![b] = TRUE]
        /\ UNCHANGED market /\ chain < MaxBlock
    BY <1>2 DEF Receipt
  <2>2. CASE c = b
    <3>1. chain + 1 \in 0 .. MaxBlock /\ chain + 1 > floor[b]
      BY <2>1, Numbers DEF IInv, TypeOK
    <3>2. floor'[c] = chain + 1 /\ indexing'[c] = TRUE /\ market'[c] = market[c]
      BY <2>1, <2>2 DEF IInv, TypeOK
    <3>3. Store(c)!RequireBlock(chain + 1)
      BY <3>1, <3>2, <2>2 DEF Store!RequireBlock
    <3> QED
      BY <3>1, <3>3 DEF Store!StoreNext, Store!Block
  <2>3. CASE c # b
    BY <2>1, <2>3 DEF IInv, TypeOK, Store!storeVars
  <2> QED
    BY <2>2, <2>3
<1>3. ASSUME NEW b \in Browser, Reload(b) PROVE [Store(c)!StoreNext]_(Store(c)!storeVars)
  <2>1. /\ market' = [market EXCEPT ![b] = NoBlock] /\ UNCHANGED floor
        /\ indexing' = [indexing EXCEPT ![b] = floor[b] > 0]
    BY <1>3 DEF Reload
  <2>2. CASE c = b
    <3>1. market'[c] = -1 /\ indexing'[c] = (floor[c] > 0) /\ floor'[c] = floor[c]
      BY <2>1, <2>2 DEF IInv, TypeOK, NoBlock
    <3> QED
      BY <3>1 DEF Store!StoreNext, Store!Restore, Store!NoBlock
  <2>3. CASE c # b
    BY <2>1, <2>3 DEF IInv, TypeOK, Store!storeVars
  <2> QED
    BY <2>2, <2>3
<1>4. ASSUME NEW b \in Browser, NEW r \in Revision, Publish(b, r)
      PROVE  [Store(c)!StoreNext]_(Store(c)!storeVars)
  <2>1. CASE UNCHANGED shownVars
    BY <1>1, <2>1
  <2>2. ASSUME NEW v \in Block, v >= Minimum(b), UNCHANGED floor,
               market' = [market EXCEPT ![b] = v], indexing' = [indexing EXCEPT ![b] = FALSE]
        PROVE  [Store(c)!StoreNext]_(Store(c)!storeVars)
    <3>1. CASE c = b
      <4>1. market'[c] = v /\ indexing'[c] = FALSE /\ floor'[c] = floor[c]
        BY <2>2, <3>1 DEF IInv, TypeOK
      <4>2. Store(c)!Publish(v)
        BY <2>2, <3>1, <4>1 DEF Store!Publish, Store!Minimum, Minimum
      <4> QED
        BY <4>2 DEF Store!StoreNext, Store!Block, Block
    <3>2. CASE c # b
      BY <2>2, <3>2 DEF IInv, TypeOK, Store!storeVars
    <3> QED
      BY <3>1, <3>2
  <2> QED
    BY <1>4, <2>1, <2>2, PublishShows
<1> QED
  BY <1>1, <1>2, <1>3, <1>4, ShownChanges

(* What a page shows is never replaced by something older, and what the    *)
(* server keeps neither.                                                   *)
LEMMA NothingGoesBack ==
    ASSUME FreshnessAssumption, IInv, Next
    PROVE  /\ \A b \in Browser : market'[b] = NoBlock \/ market'[b] >= market[b]
           /\ cached'.block >= cached.block
<1>1. ASSUME NEW c \in Browser PROVE market'[c] = NoBlock \/ market'[c] >= market[c]
  <2>1. market[c] \in Int /\ market[c] >= market[c]
    BY DEF IInv, TypeOK
  <2>2. CASE UNCHANGED shownVars
    BY <2>1, <2>2 DEF shownVars
  <2>3. ASSUME NEW b \in Browser, Receipt(b) PROVE market'[c] >= market[c]
    BY <2>1, <2>3 DEF Receipt
  <2>4. ASSUME NEW b \in Browser, Reload(b) PROVE market'[c] = NoBlock \/ market'[c] >= market[c]
    BY <2>1, <2>4 DEF Reload, IInv, TypeOK
  <2>5. ASSUME NEW b \in Browser, NEW r \in Revision, Publish(b, r) PROVE market'[c] >= market[c]
    <3>1. CASE UNCHANGED shownVars
      BY <2>1, <3>1 DEF shownVars
    <3>2. ASSUME NEW v \in Block, v >= Minimum(b), market' = [market EXCEPT ![b] = v]
          PROVE  market'[c] >= market[c]
      <4>1. CASE c = b
        <5>1. market'[c] = v /\ Minimum(c) >= market[c] /\ Minimum(c) \in Nat /\ v \in Int
          BY <3>2, <4>1, MinimumBounds DEF IInv, TypeOK, Block
        <5> QED
          BY <5>1, <3>2, <4>1, <2>1
      <4>2. CASE c # b
        BY <3>2, <4>2, <2>1 DEF IInv, TypeOK
      <4> QED
        BY <4>1, <4>2
    <3> QED
      BY <2>5, <3>1, <3>2, PublishShows
  <2> QED
    BY <2>2, <2>3, <2>4, <2>5, ShownChanges
<1>2. cached'.block >= cached.block
  <2>1. cached.block \in -1 .. indexed /\ indexed \in Nat
    BY Numbers DEF IInv, TypeOK
  <2>2. cached.block >= cached.block
    BY <2>1
  <2>3. ASSUME NEW b \in Browser,
               \/ Receipt(b) \/ Reload(b) \/ \E fresh \in BOOLEAN : Refresh(b, fresh)
               \/ \E r \in Revision : Step(b, r) \/ Disconnect(b, r)
        PROVE  cached' = cached
    BY <2>3 DEF Receipt, Reload, Refresh, Step, Waited, Read, Publish, Disconnect, Leave, Join, cacheVars
  <2>4. ASSUME NEW m \in Block, IndexEnds(m) PROVE cached'.block >= cached.block
    BY <2>4, IndexEndsKeeps
  <2>5. CASE Grow \/ CatchUp \/ Age45
    BY <2>5, TimeKeeps
  <2> QED
    BY <2>2, <2>3, <2>4, <2>5 DEF Next
<1> QED
  BY <1>1, <1>2

(* For any number of pages, blocks, receipts and failures, and whatever    *)
(* order answers come in: a page shows its own writes and never goes back, *)
(* nobody waits for a request that is gone, the server's snapshot only     *)
(* gets newer, and each page's store is a MarketStore                      *)
(* (market-freshness.ts:26-66, graph-market-cache.ts:40-83).               *)
THEOREM PagesStayFresh == ASSUME FreshnessAssumption PROVE Spec => PagesFresh
<1> DEFINE Onward == \A b \in Browser : market'[b] = NoBlock \/ market'[b] >= market[b]
           CacheOnward == cached'.block >= cached.block
           Stores == \A b \in Browser : [Store(b)!StoreNext]_(Store(b)!storeVars)
           Begins == \A b \in Browser : Store(b)!StoreInit
<1>1. IInv => ShowsOwnWrites /\ ReadersAreServed
  <2> SUFFICES ASSUME IInv, NEW b \in Browser, NEW r \in Revision, run[b][r].stage = "reading"
               PROVE  <<b, r>> \in pending[run[b][r].min]
    BY DEF IInv, ReadersAreServed
  <2>1. run[b][r].min \in Block
    BY StateFacts
  <2> QED
    BY <2>1 DEF IInv, Assigned
<1>2. IInv /\ [Next]_vars => [Onward]_vars /\ [CacheOnward]_vars /\ [Stores]_vars
  BY NothingGoesBack, StoreSteps
<1>3. Init => Begins
  BY DEF Init, Store!StoreInit, Store!NoBlock, NoBlock
<1>4. NeverBack <=> [][Onward]_vars
  BY DEF NeverBack
<1>5. CacheNeverBack <=> [][CacheOnward]_vars
  BY DEF CacheNeverBack
<1>6. ImplementsStore <=> Begins /\ [][Stores]_vars
  BY DEF ImplementsStore
<1> HIDE DEF Onward, CacheOnward, Stores, Begins
<1> QED
  BY <1>1, <1>2, <1>3, <1>4, <1>5, <1>6, Invariance, PTL DEF Spec, PagesFresh

=============================================================================
