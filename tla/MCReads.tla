------------------------------ MODULE MCReads -------------------------------
(*****************************************************************************)
(* The reads of the chain and of the index side by side, for TLC.           *)
(*****************************************************************************)
EXTENDS ReadWorkers, Integers, Sequences, FiniteSets

CONSTANTS ann, bob, p1, p2, call, logs

VARIABLES part, chain, indexed, cached, pending, market, floor, indexing,
          revision, run, failures, reorgs, saved, progress, load, reader,
          started, read, asked, cooling, faults, now, height, cooldown,
          verified, unsupported

readsVars == <<part, chain, indexed, cached, pending, market, floor, indexing,
               revision, run, failures, reorgs, saved, progress, load, reader,
               started, read, asked, cooling, faults, now, height, cooldown,
               verified, unsupported, next, failed, worker, outcome, result>>

\* What the index may hold: nothing, two pages, and more than may be
\* read.
Lists(a, b) == [l \in {"intents", "tickets"} |-> IF l = "intents" THEN a ELSE b]
Contents == {Lists({}, {1}), Lists({2, 3, 4}, {1, 2, 3}), Lists(1 .. 4, {2}), Lists({}, 1 .. 6)}

-----------------------------------------------------------------------------
\* A page that writes twice.
One == INSTANCE MarketFreshness WITH Browser <- {ann}, MaxBlock <- 2,
    MaxRevision <- 2, MaxFailures <- 1

\* The market from events: one caller over reorganisations, two callers.
Market == INSTANCE RpcMarket WITH Reader <- {ann}, MaxBlock <- 2,
    MaxReorgs <- 1, MaxFailures <- 2

Callers == INSTANCE RpcMarket WITH Reader <- {ann, bob}, MaxBlock <- 2,
    MaxReorgs <- 0, MaxFailures <- 1

\* Complete reads of the index, and what is looked up after them.
Pages == INSTANCE GraphPages WITH Root <- {"intents", "tickets"},
    Content <- Contents, PageSize <- 2, MaxPages <- 3, MaxBlock <- 2,
    MaxReorgs <- 1, MaxFaults <- 1

\* A primary and a public provider of another chain; and a provider that asks
\* for pauses.
Failover == INSTANCE RpcFailover WITH Reader <- {ann, bob}, Methods <- {logs},
    Logs <- logs, Providers <- <<p1, p2>>, Wrong <- {p2}, Waits <- {1},
    MaxDelay <- 1, Retries <- 1, Keep <- 1, MaxHeight <- 0, MaxNow <- 1

Pauses == INSTANCE RpcFailover WITH Reader <- {ann, bob}, Methods <- {call},
    Logs <- logs, Providers <- <<p1, p2>>, Wrong <- {}, Waits <- {1, 2},
    MaxDelay <- 1, Retries <- 1, Keep <- 1, MaxHeight <- 0, MaxNow <- 1

-----------------------------------------------------------------------------
(* The parts take no notice of each other: a behaviour is one of one part, *)
(* and the variables of the others rest.                                   *)

Idle == "idle"

NotMarketFreshness == <<reorgs, saved, progress, load, reader, started, read,
    asked, cooling, faults, now, height, cooldown, verified, unsupported,
    next, failed, worker, outcome, result>>
MarketFreshnessAlone == /\ reorgs = Idle /\ saved = Idle /\ progress = Idle
    /\ load = Idle /\ reader = Idle /\ started = Idle /\ read = Idle
    /\ asked = Idle /\ cooling = Idle /\ faults = Idle /\ now = Idle
    /\ height = Idle /\ cooldown = Idle /\ verified = Idle
    /\ unsupported = Idle /\ Init

NotRpcMarket == <<indexed, pending, market, floor, indexing, revision, run,
                  read, asked, cooling, faults, now, height, cooldown,
                  verified, unsupported, next, failed, worker, outcome,
                  result>>
RpcMarketAlone == /\ indexed = Idle /\ pending = Idle /\ market = Idle
                  /\ floor = Idle /\ indexing = Idle /\ revision = Idle
                  /\ run = Idle /\ read = Idle /\ asked = Idle
                  /\ cooling = Idle /\ faults = Idle /\ now = Idle
                  /\ height = Idle /\ cooldown = Idle /\ verified = Idle
                  /\ unsupported = Idle /\ Init

NotGraphPages == <<indexed, cached, pending, market, floor, indexing,
                   revision, run, failures, saved, progress, load, reader,
                   started, now, height, cooldown, verified, unsupported,
                   next, failed, worker, outcome, result>>
GraphPagesAlone == /\ indexed = Idle /\ cached = Idle /\ pending = Idle
                   /\ market = Idle /\ floor = Idle /\ indexing = Idle
                   /\ revision = Idle /\ run = Idle /\ failures = Idle
                   /\ saved = Idle /\ progress = Idle /\ load = Idle
                   /\ reader = Idle /\ started = Idle /\ now = Idle
                   /\ height = Idle /\ cooldown = Idle /\ verified = Idle
                   /\ unsupported = Idle /\ Init

NotRpcFailover == <<chain, indexed, cached, market, floor, indexing, revision,
                    run, failures, reorgs, saved, progress, load, started,
                    read, asked, cooling, faults, next, failed, worker,
                    outcome, result>>
RpcFailoverAlone == /\ chain = Idle /\ indexed = Idle /\ cached = Idle
                    /\ market = Idle /\ floor = Idle /\ indexing = Idle
                    /\ revision = Idle /\ run = Idle /\ failures = Idle
                    /\ reorgs = Idle /\ saved = Idle /\ progress = Idle
                    /\ load = Idle /\ started = Idle /\ read = Idle
                    /\ asked = Idle /\ cooling = Idle /\ faults = Idle /\ Init

NotReadWorkers == <<chain, indexed, cached, pending, market, floor, indexing,
                    revision, run, failures, reorgs, saved, progress, load,
                    reader, started, read, asked, cooling, faults, now,
                    height, cooldown, verified, unsupported>>
ReadWorkersAlone == /\ chain = Idle /\ indexed = Idle /\ cached = Idle
                    /\ pending = Idle /\ market = Idle /\ floor = Idle
                    /\ indexing = Idle /\ revision = Idle /\ run = Idle
                    /\ failures = Idle /\ reorgs = Idle /\ saved = Idle
                    /\ progress = Idle /\ load = Idle /\ reader = Idle
                    /\ started = Idle /\ read = Idle /\ asked = Idle
                    /\ cooling = Idle /\ faults = Idle /\ now = Idle
                    /\ height = Idle /\ cooldown = Idle /\ verified = Idle
                    /\ unsupported = Idle

ReadsInit ==
    \/ part = "workers" /\ Init /\ ReadWorkersAlone
    \/ part = "page" /\ One!Init /\ MarketFreshnessAlone
    \/ part = "market" /\ Market!Init /\ RpcMarketAlone
    \/ part = "shared" /\ Callers!Init /\ RpcMarketAlone
    \/ part = "pages" /\ Pages!Init /\ GraphPagesAlone
    \/ part = "failover" /\ Failover!Init /\ RpcFailoverAlone
    \/ part = "pauses" /\ Pauses!Init /\ RpcFailoverAlone

ReadsNext ==
    /\ UNCHANGED part
    /\ \/ part = "workers" /\ Next /\ UNCHANGED NotReadWorkers
       \/ part = "page" /\ One!Next /\ UNCHANGED NotMarketFreshness
       \/ part = "market" /\ Market!Next /\ UNCHANGED NotRpcMarket
       \/ part = "shared" /\ Callers!Next /\ UNCHANGED NotRpcMarket
       \/ part = "pages" /\ Pages!Next /\ UNCHANGED NotGraphPages
       \/ part = "failover" /\ Failover!Next /\ UNCHANGED NotRpcFailover
       \/ part = "pauses" /\ Pauses!Next /\ UNCHANGED NotRpcFailover

ReadsSpec ==
    /\ ReadsInit /\ [][ReadsNext]_readsVars
    \* page
    /\ WF_(One!vars)(part = "page" /\ One!Step(ann, 0))
    /\ WF_(One!vars)(part = "page" /\ One!Step(ann, 1))
    /\ WF_(One!vars)(part = "page" /\ One!Step(ann, 2))
    /\ WF_(One!vars)(part = "page" /\ One!Retry(ann))
    /\ WF_(One!vars)(part = "page" /\ One!IndexEnds(0))
    /\ WF_(One!vars)(part = "page" /\ One!IndexEnds(1))
    /\ WF_(One!vars)(part = "page" /\ One!IndexEnds(2))
    /\ SF_(One!vars)(part = "page" /\ One!IndexAnswers(0))
    /\ SF_(One!vars)(part = "page" /\ One!IndexAnswers(1))
    /\ SF_(One!vars)(part = "page" /\ One!IndexAnswers(2))
    /\ WF_(One!vars)(part = "page" /\ One!CatchUp)
    \* shared
    /\ WF_(Callers!vars)(part = "shared" /\ Callers!LoadStep)
    /\ WF_(Callers!vars)(part = "shared" /\ Callers!ReadAgain(ann))
    /\ WF_(Callers!vars)(part = "shared" /\ Callers!ReadAgain(bob))
    \* pages
    /\ WF_(Pages!vars)(part = "pages" /\ Pages!ReadStep)
    \* pauses
    /\ WF_(Pauses!vars)(part = "pauses" /\ Pauses!Tick)
    /\ WF_(Pauses!vars)(part = "pauses" /\ Pauses!Wake(ann))
    /\ WF_(Pauses!vars)(part = "pauses" /\ Pauses!Process(ann))
    /\ WF_(Pauses!vars)(part = "pauses" /\ Pauses!Wake(bob))
    /\ WF_(Pauses!vars)(part = "pauses" /\ Pauses!Process(bob))
    /\ WF_(Pauses!vars)(part = "pauses" /\ Pauses!Serve(<<p1, call>>))
    /\ WF_(Pauses!vars)(part = "pauses" /\ Pauses!Land(<<p1, call>>))
    /\ WF_(Pauses!vars)(part = "pauses" /\ Pauses!Serve(<<p2, call>>))
    /\ WF_(Pauses!vars)(part = "pauses" /\ Pauses!Land(<<p2, call>>))
    /\ WF_(Pauses!vars)(part = "pauses" /\ Pauses!Serve(<<p2, "eth_chainId">>))
    /\ WF_(Pauses!vars)(part = "pauses" /\ Pauses!Land(<<p2, "eth_chainId">>))

-----------------------------------------------------------------------------
ASSUME ReadsFit ==
    /\ One!FreshnessAssumption
    /\ Market!MarketAssumption /\ Callers!MarketAssumption /\ Pages!PagesAssumption
    /\ Failover!RpcFailoverAssumption /\ Pauses!RpcFailoverAssumption

ReadsTypeOK ==
    /\ TypeOK
    /\ part = "page" => One!TypeOK
    /\ part = "market" => Market!TypeOK
    /\ part = "shared" => Callers!TypeOK
    /\ part = "pages" => Pages!TypeOK
    /\ part = "failover" => Failover!TypeOK
    /\ part = "pauses" => Pauses!TypeOK

-----------------------------------------------------------------------------
\* A snapshot has exactly the events of the chain that ends in its block
\* (market-rpc.ts:74-105).
HistoryExact ==
    /\ part = "market" => Market!HistoryExact
    /\ part = "shared" => Callers!HistoryExact

\* Tickets and states of a snapshot are of its block's fork (market-rpc.ts:109-110).
OneFork == part = "market" => Market!OneFork

\* What is answered after a restart was read after it (market.ts:53-54).
NeverPersisted == part = "market" => Market!NeverPersisted

\* Nobody gets an answer older than the receipt asked after, also from a load
\* that began before it (market-rpc.ts:125-137).
FloorKept ==
    /\ part = "market" => Market!FloorKept
    /\ part = "shared" => Callers!FloorKept

\* A complete read is the whole content of one block (pages.ts:49-54, 84-106).
CompleteAtOneBlock == part = "pages" => Pages!CompleteAtOneBlock

\* What is looked up later agrees with the snapshot, unless its block was replaced
\* by another of the same number (snapshot.ts:265).
LookupAgrees == part = "pages" => Pages!LookupAgrees

\* A reader goes back to a provider only after the pause it asked for
\* (arc-read-rpc.ts:50, solve-rpc.ts:16).
PermittedAgain == [][part = "pauses" => \A r \in {ann, bob} :
    reader'[r].stage = "asking" /\ reader[r].stage # "asking" => reader'[r].told[<<p1, p2>>[reader'[r].at]] <= now]_readsVars

\* What waits comes to its end: a page shows the receipt it waits for
\* (market-freshness.ts:26-28), a caller of the market is answered or refused
\* (market-rpc.ts:126), a read in pages ends (pages.ts:75), and so does a read
\* over providers (arc-read-rpc.ts:19-33).
ReadsEnd == []<>(
    /\ part = "page" => ~indexing[ann]
    /\ part = "shared" => reader[ann].stage \notin {"joined", "loading", "again"}
    /\ part = "pages" => read.stage # "reading"
    /\ part = "pauses" => reader[ann].stage \in {"idle", "done"} \/ (now = 1 /\ reader[ann].wake > now))

-----------------------------------------------------------------------------
(* What the run checks *)

\* What a reader gets, from events or from the index, is the whole of one block of
\* one chain, not older than its receipt, whatever reorganises, fails or restarts
\* meanwhile (market-rpc.ts:74-137, market.ts:53-54, pages.ts:49-106); what is looked
\* up by number afterwards agrees with it unless that block was replaced (snapshot.ts:265).
ReadsExact ==
    /\ ReadsTypeOK
    /\ HistoryExact /\ OneFork /\ NeverPersisted /\ FloorKept
    /\ CompleteAtOneBlock /\ LookupAgrees

\* Only providers of this chain answer, and no reader goes back to one before the
\* pause that this reader was told is over (arc-read-rpc.ts:47-60, solve-rpc.ts:16).
\* A reader that was on its way to it already may still ask.
ProvidersRight == [](part = "failover" => Failover!RightChain) /\ PermittedAgain

=============================================================================
