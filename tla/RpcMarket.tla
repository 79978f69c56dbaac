------------------------------ MODULE RpcMarket ------------------------------
(***************************************************************************)
(* The market read from the chain itself (src/server/market-rpc.ts).  One  *)
(* load at a time reads the tickets, the event history page by page and    *)
(* the intents' states, all by block number, while the chain grows or is   *)
(* reorganised; history already read is used again after a failure, a      *)
(* later read or a restart.  A block's hash stands for its ancestry, so it *)
(* is the sequence of forks of the blocks up to it, and what a block       *)
(* logged is known by its hash.                                            *)
(***************************************************************************)
EXTENDS Integers, Sequences

CONSTANTS
    Reader,         \* requests that may be under way in the server
    MaxBlock,       \* bound: blocks of the chain
    MaxReorgs,      \* bound: reorganisations
    MaxFailures     \* bound: failed RPC calls and server restarts
MarketAssumption ==
    MaxBlock \in Nat \ {0} /\ MaxReorgs \in Nat /\ MaxFailures \in Nat

Fork == 0 .. MaxReorgs
Hash == UNION {[1 .. n -> Fork] : n \in 0 .. MaxBlock}

VARIABLES
    chain,      \* the canonical chain, as the hash of its head
    reorgs,
    cached,     \* the last snapshot, and whether it may be served
    saved,      \* the checkpoint on disk
    progress,   \* the history read by the load under way or the last failed one
    load,       \* the one load under way
    reader,     \* reader -> its request
    started,    \* the failures there had been when the server last started
    failures

vars == <<chain, reorgs, cached, saved, progress, load, reader, started, failures>>

\* A snapshot: its block, its event history, the forks its other reads saw, and
\* how many failures there had been when it was read.
NoSnapshot == [hash |-> <<>>, records |-> <<>>, seen |-> {}, born |-> 0]
NoProgress == [hash |-> <<>>, next |-> 1, records |-> <<>>]
NoLoad == [stage |-> "none", min |-> 0, hash |-> <<>>, seen |-> {}, reuse |-> FALSE]
NoRequest == [stage |-> "none", min |-> 0, value |-> NoSnapshot]

Stage == {"none", "head", "tickets", "boundary", "progress", "pages", "states", "check"}

Init ==
    /\ chain = <<0>> /\ reorgs = 0
    /\ cached = [value |-> NoSnapshot, valid |-> FALSE]
    /\ saved = NoSnapshot
    /\ progress = NoProgress
    /\ load = NoLoad
    /\ reader = [r \in Reader |-> NoRequest]
    /\ started = 0 /\ failures = 0

\* The hash a provider answers for a block number; reads beyond the head fail.
HashAt(n) == SubSeq(chain, 1, n)

\* The logs of a range of blocks: a node answers with those it has.
Logs(from, to) ==
    LET last == IF to < Len(chain) THEN to ELSE Len(chain)
    IN [i \in 1 .. (IF last < from THEN 0 ELSE last - from + 1) |-> HashAt(from + i - 1)]

-----------------------------------------------------------------------------
(* read *)

StartLoad(m) == load' = [NoLoad EXCEPT !.stage = "head", !.min = m]
Answer(r, m, v) == reader' = [reader EXCEPT ![r] = [stage |-> "done", min |-> m, value |-> v]]
Wait(r, stage, m) == reader' = [reader EXCEPT ![r] = [NoRequest EXCEPT !.stage = stage, !.min = m]]

\* A request: from the cache, with the load under way, or with one of its own.
\* Its floor is the block of a receipt.
Read(r, fresh, m) ==
    /\ reader[r].stage \in {"none", "done"}
    /\ m <= Len(chain)
    /\ IF ~fresh /\ cached.valid /\ Len(cached.value.hash) >= m
       THEN Answer(r, m, cached.value) /\ UNCHANGED load
       ELSE IF load.stage # "none"
            THEN Wait(r, "joined", m) /\ UNCHANGED load
            ELSE Wait(r, "loading", m) /\ StartLoad(m)
    /\ UNCHANGED <<chain, reorgs, cached, saved, progress, started, failures>>

\* The load that was joined ended below the floor: another one, if there is none.
ReadAgain(r) ==
    /\ reader[r].stage = "again"
    /\ Wait(r, "loading", reader[r].min)
    /\ IF load.stage = "none" THEN StartLoad(reader[r].min) ELSE UNCHANGED load
    /\ UNCHANGED <<chain, reorgs, cached, saved, progress, started, failures>>

\* What the snapshot v means to a request that waited for it.
Outcome(q, v) ==
    IF Len(v.hash) >= q.min THEN [q EXCEPT !.stage = "done", !.value = v]
    ELSE IF q.stage = "joined" THEN [q EXCEPT !.stage = "again"]
    ELSE NoRequest

Waiting == {r \in Reader : reader[r].stage \in {"joined", "loading"}}
Deliver(v) == reader' = [r \in Reader |-> IF r \in Waiting THEN Outcome(reader[r], v) ELSE reader[r]]

-----------------------------------------------------------------------------
(* load *)

\* The load throws: whoever waits is refused, and progress is kept.
Fail ==
    /\ reader' = [r \in Reader |-> IF r \in Waiting THEN NoRequest ELSE reader[r]]
    /\ load' = NoLoad

\* The newest block; a provider may be behind the floor.
Newest ==
    /\ load.stage = "head"
    /\ IF Len(chain) < load.min
       THEN Fail
       ELSE load' = [load EXCEPT !.stage = "tickets", !.hash = chain] /\ UNCHANGED reader
    /\ UNCHANGED <<chain, reorgs, cached, saved, progress, started, failures>>

\* A read of contract state at the load's block number.
SeeState(stage, next) ==
    /\ load.stage = stage
    /\ IF Len(load.hash) > Len(chain)
       THEN Fail
       ELSE /\ load' = [load EXCEPT !.stage = next, !.seen = @ \cup {HashAt(Len(load.hash))}]
            /\ UNCHANGED reader
    /\ UNCHANGED <<chain, reorgs, cached, saved, progress, started, failures>>

Tickets == SeeState("tickets", "boundary")
States == SeeState("states", "check")

\* Mutated form of SameBlock: a block number is enough.
SameNumber(h) == h # <<>> /\ Len(h) <= Len(load.hash)

\* The block of h is still there, at or below the block of this load.
SameBlock(h) == h # <<>> /\ Len(h) <= Len(load.hash) /\ Len(h) <= Len(chain) /\ HashAt(Len(h)) = h

\* previous: the last snapshot's history may be used.
Boundary ==
    /\ load.stage = "boundary"
    /\ load' = [load EXCEPT !.stage = "progress", !.reuse = SameBlock(cached.value.hash)]
    /\ UNCHANGED <<chain, reorgs, cached, saved, progress, reader, started, failures>>

\* resumed: the history of a load that failed comes first.
Resume ==
    /\ load.stage = "progress"
    /\ load' = [load EXCEPT !.stage = "pages"]
    /\ progress' =
         IF SameBlock(progress.hash)
         THEN [progress EXCEPT !.hash = load.hash]
         ELSE IF load.reuse
         THEN [hash |-> load.hash, next |-> Len(cached.value.hash) + 1, records |-> cached.value.records]
         ELSE [NoProgress EXCEPT !.hash = load.hash]
    /\ UNCHANGED <<chain, reorgs, cached, saved, reader, started, failures>>

\* One page of the history, of any size.
Page ==
    /\ load.stage = "pages"
    /\ IF progress.next > Len(load.hash)
       THEN load' = [load EXCEPT !.stage = "states"] /\ UNCHANGED progress
       ELSE \E to \in progress.next .. Len(load.hash) :
              /\ progress' = [progress EXCEPT !.records = @ \o Logs(progress.next, to), !.next = to + 1]
              /\ UNCHANGED load
    /\ UNCHANGED <<chain, reorgs, cached, saved, reader, started, failures>>

\* The block is still the one the load began with.
Unmoved == Len(load.hash) <= Len(chain) /\ HashAt(Len(load.hash)) = load.hash

\* The last check; what was read becomes the snapshot, kept on disk if that works.
Finish ==
    /\ load.stage = "check"
    /\ IF Unmoved
       THEN LET v == [hash |-> load.hash, records |-> progress.records, seen |-> load.seen,
                 born |-> failures] IN
            /\ cached' = [value |-> v, valid |-> TRUE]
            /\ saved' \in {v, saved}
            /\ progress' = NoProgress
            /\ load' = NoLoad
            /\ Deliver(v)
       ELSE Fail /\ UNCHANGED <<cached, saved, progress>>
    /\ UNCHANGED <<chain, reorgs, started, failures>>

-----------------------------------------------------------------------------
(* What happens around it *)

\* A provider refuses or cannot be reached at any call of a load.
CallFails ==
    /\ load.stage # "none" /\ failures < MaxFailures
    /\ failures' = failures + 1
    /\ Fail
    /\ UNCHANGED <<chain, reorgs, cached, saved, progress, started>>

\* The server starts again with the checkpoint, which is never served itself.
Restart ==
    /\ failures < MaxFailures
    /\ failures' = failures + 1
    /\ cached' = [value |-> saved, valid |-> FALSE]
    /\ progress' = NoProgress /\ load' = NoLoad
    /\ reader' = [r \in Reader |-> NoRequest]
    /\ started' = failures + 1
    /\ UNCHANGED <<chain, reorgs, saved>>

\* Ten seconds after a snapshot.
Lapse ==
    /\ cached.valid
    /\ cached' = [cached EXCEPT !.valid = FALSE]
    /\ UNCHANGED <<chain, reorgs, saved, progress, load, reader, started, failures>>

Mine ==
    /\ Len(chain) < MaxBlock
    /\ chain' = Append(chain, reorgs)
    /\ UNCHANGED <<reorgs, cached, saved, progress, load, reader, started, failures>>

\* The last blocks are replaced by one of a new fork, which never existed before.
Reorganise ==
    /\ reorgs < MaxReorgs
    /\ reorgs' = reorgs + 1
    /\ \E keep \in 0 .. Len(chain) - 1 : chain' = Append(HashAt(keep), reorgs + 1)
    /\ UNCHANGED <<cached, saved, progress, load, reader, started, failures>>

LoadStep == Newest \/ Tickets \/ Boundary \/ Resume \/ Page \/ States \/ Finish

Next ==
    \/ \E r \in Reader :
          \/ \E fresh \in BOOLEAN, m \in 0 .. MaxBlock : Read(r, fresh, m)
          \/ ReadAgain(r)
    \/ LoadStep \/ CallFails \/ Restart \/ Lapse \/ Mine \/ Reorganise

Spec == Init /\ [][Next]_vars

\* Calls of providers end, and a request that was below its floor goes on.
FairSpec == Spec /\ WF_vars(LoadStep) /\ \A r \in Reader : WF_vars(ReadAgain(r))

-----------------------------------------------------------------------------
TypeOK ==
    /\ chain \in Hash /\ reorgs \in Fork
    /\ cached.value.hash \in Hash /\ cached.valid \in BOOLEAN
    /\ progress.hash \in Hash /\ progress.next \in 1 .. MaxBlock + 1
    /\ load.stage \in Stage
    /\ (load.stage = "none") = (Waiting = {})
    /\ \A r \in Reader : reader[r].stage \in {"none", "joined", "loading", "again", "done"}

Answers == {reader[r].value : r \in {q \in Reader : reader[q].stage = "done"}}

(* Every snapshot answered has exactly the events of the chain that ends   *)
(* in its block, each once and in order, although the history was put      *)
(* together from a checkpoint, an earlier snapshot, a load that failed and *)
(* pages read around a reorganisation (market-rpc.ts:74-105).              *)
HistoryExact == \A v \in Answers :
    v.records = [n \in 1 .. Len(v.hash) |-> SubSeq(v.hash, 1, n)]

(* Tickets and states of an answered snapshot belong to the same fork as   *)
(* its block (market-rpc.ts:109-110).                                      *)
OneFork == \A v \in Answers : v.seen \subseteq {v.hash}

(* A caller gets nothing older than the receipt it asks after, even from a *)
(* load that began before it (market-rpc.ts:125-137).                      *)
FloorKept == \A r \in Reader : reader[r].stage = "done" => Len(reader[r].value.hash) >= reader[r].min

(* A checkpoint is never served itself: what is answered after a restart   *)
(* was read after it (market.ts:53-54).                                    *)
NeverPersisted == \A v \in Answers : v.born >= started

(* Every request ends, answered or refused.                                *)
Served == \A r \in Reader : reader[r].stage \in {"joined", "loading", "again"} ~> reader[r].stage \in {"none", "done"}

=============================================================================
