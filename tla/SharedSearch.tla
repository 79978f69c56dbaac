---------------------------- MODULE SharedSearch ----------------------------
(***************************************************************************)
(* The solve service: searches of the whole pool, shared by the requests   *)
(* that ask for the same one at the same time, and searches over named     *)
(* intents (src/server/solve.ts, solve-graph.ts, solve-pool.ts and the     *)
(* routes under src/app/api/solve).  Discovery reads one snapshot, the     *)
(* search re-reads the chain at a block of its own, the simulation runs at *)
(* a third.                                                                *)
(***************************************************************************)
EXTENDS Naturals, Sequences, FiniteSets, SequencesExt

CONSTANTS
    Intent, NoIntent,
    Big,            \* intents beyond four tickets, which are not searched
    MaxPool,        \* a larger pool is refused (256)
    Request,
    Graph,          \* whether the subgraph discovers; otherwise the RPC market
    MaxBlock        \* bound: blocks mined

SharedSearchAssumption ==
    /\ Big \subseteq Intent /\ NoIntent \notin Intent /\ MaxPool \in Nat
    /\ Graph \in BOOLEAN /\ MaxBlock \in Nat

VARIABLES
    chain,      \* the state of every intent after each block
    indexed,    \* the subgraph's block
    request,    \* request -> what it asks, and whose search answers it
    search,     \* request -> the search it began
    pending,    \* key -> the request whose search is under way
    cached      \* the last finished search of the RPC path, for half a minute

vars == <<chain, indexed, request, search, pending, cached>>

Height == Len(chain) - 1
Live(b) == {i \in Intent : chain[b + 1][i] = "live"}
Committed(b) == {i \in Intent : chain[b + 1][i] # "none"}

Idle == [stage |-> "idle", floor |-> 0, must |-> NoIntent, named |-> {}, of |-> {}]
NoSearch == [stage |-> "none", key |-> <<>>, snapshot |-> 0, searched |-> {}, block |-> 0, tip |-> 0,
             chosen |-> {}, offered |-> FALSE]

Init ==
    /\ \E state \in [Intent -> {"none", "live"}] : chain = <<state>>
    /\ indexed = 0
    /\ request = [r \in Request |-> Idle]
    /\ search = [r \in Request |-> NoSearch]
    /\ pending = [k \in {} |-> Idle]
    /\ cached = {}

\* A block changes one intent: committed, or revoked or settled.
Mine ==
    /\ Height < MaxBlock
    /\ \E i \in Intent, s \in {"live", "gone"} :
        /\ \/ Last(chain)[i] = "none" /\ s = "live"
           \/ Last(chain)[i] = "live" /\ s = "gone"
        /\ chain' = Append(chain, [Last(chain) EXCEPT ![i] = s])
    /\ UNCHANGED <<indexed, request, search, pending, cached>>

Index == indexed < Height /\ indexed' = indexed + 1 /\ UNCHANGED <<chain, request, search, pending, cached>>

\* What a snapshot offers the search.
Pool(b) == Live(b) \ Big

\* Mutated form of Key: the required intent is left out.
KeyAnyIntent(block, must) == <<block>>
Key(block, must) == <<block, must>>

\* A search begins.
Begun(r, key, snapshot, searched, stage) ==
    search' = [search EXCEPT ![r] = [NoSearch EXCEPT !.stage = stage, !.key = key, !.snapshot = snapshot, !.searched = searched]]

\* solveLivePoolFromGraph: one search for everyone with this floor and required intent.
AskPool(r, floor, must) ==
    LET key == Key(floor, must)
        owner == IF key \in DOMAIN pending THEN pending[key] ELSE r IN
    /\ request' = [request EXCEPT ![r] = [Idle EXCEPT !.stage = "waiting", !.floor = floor, !.must = must, !.of = {owner}]]
    /\ IF owner = r
       THEN /\ Begun(r, key, 0, {}, "discover")
            /\ pending' = [k \in DOMAIN pending \cup {key} |-> IF k = key THEN r ELSE pending[k]]
       ELSE UNCHANGED <<search, pending>>
    /\ UNCHANGED <<chain, indexed, cached>>

\* solveLivePool without the subgraph: the market's snapshot is awaited first.
AskMarket(r, floor, must) ==
    /\ request' = [request EXCEPT ![r] = [Idle EXCEPT !.stage = "market", !.floor = floor, !.must = must]]
    /\ UNCHANGED <<chain, indexed, search, pending, cached>>

\* Named intents: a search of the request's own; without the subgraph it has no floor.
AskNamed(r, floor, must, named) ==
    /\ request' = [request EXCEPT ![r] = [Idle EXCEPT !.stage = "waiting", !.floor = floor, !.must = must,
                                                      !.named = named, !.of = {r}]]
    /\ Begun(r, <<>>, 0, {}, IF Graph THEN "discover" ELSE "read")
    /\ UNCHANGED <<chain, indexed, pending, cached>>

Ask(r) ==
    /\ request[r].stage = "idle"
    /\ \E floor \in 0 .. Height, must \in Intent \cup {NoIntent} :
        \/ Graph /\ AskPool(r, floor, must)
        \/ ~Graph /\ AskMarket(r, floor, must)
        \/ \E named \in {n \in SUBSET Intent : Cardinality(n) \in 2 .. 4} :
            must \in named \cup {NoIntent} /\ AskNamed(r, floor, must, named)

SameKey(key) == {c \in cached : c.key = key}

\* The snapshot has arrived, at or above the floor: a finished search of that very
\* snapshot, one under way, or a new one.
MarketRead(r) ==
    /\ request[r].stage = "market"
    /\ \E b \in request[r].floor .. Height :
        LET key == Key(b, request[r].must) IN
        IF SameKey(key) # {}
        THEN /\ request' = [request EXCEPT ![r].stage = "answered", ![r].of = {c.of : c \in SameKey(key)}]
             /\ UNCHANGED <<search, pending>>
        ELSE IF key \in DOMAIN pending
        THEN /\ request' = [request EXCEPT ![r].stage = "waiting", ![r].of = {pending[key]}]
             /\ UNCHANGED <<search, pending>>
        ELSE /\ Cardinality(Live(b)) <= MaxPool
             /\ request' = [request EXCEPT ![r].stage = "waiting", ![r].of = {r}]
             /\ Begun(r, key, b, Pool(b), "read")
             /\ pending' = [k \in {key} |-> r]
    /\ UNCHANGED <<chain, indexed, cached>>

\* The market cannot be read, or the pool is too large.
MarketFails(r) ==
    /\ request[r].stage = "market"
    /\ request' = [request EXCEPT ![r].stage = "failed"]
    /\ UNCHANGED <<chain, indexed, search, pending, cached>>

Waiting(s) == {r \in Request : request[r].stage = "waiting" /\ request[r].of = {s}}

\* A search that ends is not found any more; by key where one slot holds it.
Released(s) == [k \in {j \in DOMAIN pending : IF Graph THEN pending[j] # s ELSE j # search[s].key} |-> pending[k]]

Ends(s, stage, answer) ==
    /\ search' = [search EXCEPT ![s] = [answer EXCEPT !.stage = stage]]
    /\ request' = [r \in Request |-> IF r \in Waiting(s)
                                     THEN [request[r] EXCEPT !.stage = IF stage = "done" THEN "answered" ELSE "failed"]
                                     ELSE request[r]]
    /\ pending' = Released(s)

\* graphPool, graphIntents: one indexed snapshot at or above the floor; the whole
\* pool, or every named intent, or nothing.
Discover(s) ==
    /\ search[s].stage = "discover"
    /\ \E b \in request[s].floor .. indexed :
        LET whole == request[s].named = {}
            ok == IF whole THEN Cardinality(Pool(b)) <= MaxPool ELSE request[s].named \subseteq Pool(b) IN
        IF ok
        THEN /\ search' = [search EXCEPT ![s].stage = "read", ![s].snapshot = b,
                                         ![s].searched = IF whole THEN Pool(b) ELSE request[s].named]
             /\ UNCHANGED <<request, pending>>
        ELSE Ends(s, "failed", search[s])
    /\ UNCHANGED <<chain, indexed, cached>>

\* The block a provider names as the latest: it may lag behind the chain.
Heads == 0 .. Height

\* What the solver may choose: a set of live intents with the required one in it.
Findable(searched, must, b) ==
    {{}} \cup {c \in SUBSET (searched \cap Live(b)) : Cardinality(c) >= 2 /\ must \in c \cup {NoIntent}}

\* solveOnChain: every state is read at one block, then searched; named intents
\* that discovery did not supply must have been committed by then.
ReadAndSolve(s) ==
    /\ search[s].stage = "read"
    /\ \E b \in Heads :
        LET own == search[s].key = <<>> /\ ~Graph
            searched == IF own THEN request[s].named ELSE search[s].searched IN
        IF searched \subseteq (IF own THEN Committed(b) \ Big ELSE Intent)
        THEN /\ \E c \in Findable(searched, request[s].must, b) :
                search' = [search EXCEPT ![s].stage = "simulate", ![s].searched = searched, ![s].block = b,
                                               ![s].tip = Height, ![s].chosen = c]
             /\ UNCHANGED <<request, pending>>
        ELSE Ends(s, "failed", search[s])
    /\ UNCHANGED <<chain, indexed, cached>>

\* The settlement is simulated at the latest block, and the evidence saved.
Simulate(s) ==
    /\ search[s].stage = "simulate"
    /\ \E b \in Heads, offered \in BOOLEAN :
        /\ offered => search[s].chosen # {} /\ search[s].chosen \subseteq Live(b)
        /\ Ends(s, "done", [search[s] EXCEPT !.offered = offered])
    /\ cached' = IF Graph \/ search[s].key = <<>> THEN cached ELSE {[key |-> search[s].key, of |-> s]}
    /\ UNCHANGED <<chain, indexed>>

\* A read, the indexer's lag or the evidence store fails the search for all who share it.
Fails(s) ==
    /\ search[s].stage \in {"discover", "read", "simulate"}
    /\ Ends(s, "failed", search[s])
    /\ UNCHANGED <<chain, indexed, cached>>

Expire == cached # {} /\ cached' = {} /\ UNCHANGED <<chain, indexed, request, search, pending>>

Step(r) ==
    \/ Ask(r) \/ MarketRead(r) \/ MarketFails(r)
    \/ Discover(r) \/ ReadAndSolve(r) \/ Simulate(r) \/ Fails(r)

Next == Mine \/ Index \/ Expire \/ \E r \in Request : Step(r)

Spec == Init /\ [][Next]_vars

-----------------------------------------------------------------------------
Answer(r) == search[CHOOSE s \in request[r].of : TRUE]
Answered(r) == request[r].stage = "answered"

(* The pool an answer was searched in is never older than the request's    *)
(* own floor, whoever's search it shares: "the pool it searches cannot     *)
(* predate the caller's own action" (solve.ts:29-31, solve-pool.ts:36-38). *)
FloorKept == \A r \in Request : Answered(r) => Answer(r).snapshot >= request[r].floor \/ (~Graph /\ request[r].named # {})

(* Nor are the states of its intents, which the search reads again at the  *)
(* block that the provider calls the latest, unless that provider lagged   *)
(* behind the chain when it was asked: the code does not compare this      *)
(* block with the floor (solve.ts:29-31, solve-graph.ts:134-147).          *)
ReadAfterFloor == \A r \in Request : Answered(r) =>
    Answer(r).block >= request[r].floor \/ Answer(r).block < Answer(r).tip

(* A request with a required intent is never answered with a settlement    *)
(* that leaves it out, also when the search was begun for someone else     *)
(* (solve-graph.ts:136, solve-pool.ts:42).                                 *)
RequiredKept ==
    \A r \in Request : Answered(r) /\ Answer(r).chosen # {} => request[r].must \in Answer(r).chosen \cup {NoIntent}

(* A pool search covers every searchable intent of its snapshot, or fails: *)
(* never a part of the pool; a search over named intents covers just them  *)
(* (solve-graph.ts:81-84, "Never silently search a prefix").               *)
WholePool ==
    \A r \in Request : Answered(r) =>
        Answer(r).searched = IF request[r].named = {} THEN Live(Answer(r).snapshot) \ Big ELSE request[r].named

(* Without a cache only a search that is still under way is shared         *)
(* (solve-graph.ts:143-144, "completed results are never reused").         *)
OnlyShared ==
    [][\A r \in Request :
        request[r].stage = "idle" /\ request'[r].of # {} => \A s \in request'[r].of : search'[s].stage \notin {"done", "failed"}]_vars

(* The chain an answer was searched in includes the transaction whose block*)
(* the request named.  This does not hold with a provider that lags.       *)
SeesReceipt == \A r \in Request : Answered(r) => Answer(r).block >= request[r].floor

=============================================================================
