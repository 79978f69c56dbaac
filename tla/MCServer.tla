------------------------------ MODULE MCServer ------------------------------
(*****************************************************************************)
(* The server's records, quotas and requests side by side, for TLC.         *)
(*****************************************************************************)
EXTENDS FileStore, Sequences, FiniteSets, TLC

CONSTANTS p1, p2, record, lease, Unread, w1, w2, w3, c1, c2, c3, e1, h1, h2,
          s1, va, vb, vd, k1, k2, r1, r2, drop, same, junk

VARIABLES part, store, todo,
          raw, tries, code, live, past, issued, granted, drawn, known, gaveUp,
          ended, faults, now, buckets, admitted, told, req, state, challenges,
          post, started, alive, blocks, selected, pinned, phase, turns, calls,
          log, text, capacity, baseline, diagnosed, answer

serverVars == <<part, file, expired, lock, pc, asked, dead, crashes, store, todo,
          raw, tries, code, live, past, issued, granted, drawn, known, gaveUp,
          ended, faults, now, buckets, admitted, told, req, state, challenges,
          post, started, alive, blocks, selected, pinned, phase, turns, calls,
          log, text, capacity, baseline, diagnosed, answer>>

\* What the two processes ask of the store.
Put(k, from, to) == [key |-> k, expected |-> from, next |-> to, guard |-> NoKey, held |-> va]
Guarded(from, to, by) == [key |-> record, expected |-> from, next |-> to, guard |-> lease, held |-> by]
Calls ==
    {Put(lease, None, va), Put(lease, None, vb), Put(lease, va, None),
     Guarded(None, va, va), Guarded(va, vb, va), Guarded(va, vb, vb), Guarded(None, vb, vb)}

\* A client's limit.
Limits == (k1 :> 1) @@ (k2 :> 2)

\* What may settle at a block, and with which change.
Worlds == {
    [live |-> {va, vb}, settles |-> {<<va, drop>>, <<vb, same>>}],
    [live |-> {vb}, settles |-> {<<vb, drop>>}]}

-----------------------------------------------------------------------------
\* The store on disk is the module this one extends: two processes, a record
\* guarded by a lease that may expire, and the lease itself, as the signing
\* journal uses them.

\* Claims, receipts and quotas.
Claims == INSTANCE Records WITH Unread <- Unread, MaxQuota <- 3,
    Attempts <- 2, MaxFaults <- 1, Worker <- {w1, w2}, None <- None,
    Challenge <- {c1}, Evidence <- {e1}, Hash <- {h1, h2}, Session <- {},
    Intent <- {}, Root <- {}, Changes <- {}, MaxHops <- 1

\* Judges and their changes of a demo intent.
Judges == INSTANCE Records WITH Unread <- Unread, MaxQuota <- 3,
    Attempts <- 2, MaxFaults <- 1, Worker <- {w1, w2}, None <- None,
    Challenge <- {}, Evidence <- {}, Hash <- {}, Session <- {s1},
    Intent <- {va, vb, vd}, Root <- {va}, Changes <- {<<va, vb>>, <<vb, vd>>},
    MaxHops <- 2

\* Requests admitted by one server's memory, where a request reads more than
\* once.  (MCPanels has those that Redis admits.)
Memory == INSTANCE AgentRequest WITH Key <- {k1, k2}, Limit <- Limits,
    Window <- 3, Second <- 2, MaxBuckets <- 1, MaxNow <- 4, Request <- {r1},
    Timeout <- 2, MaxReads <- 3, MaxSiblings <- 2, Shared <- FALSE

\* The windows alone, for longer: of Redis and of memory.
Windows == INSTANCE AgentRequest WITH Key <- {k1, k2}, Limit <- Limits,
    Window <- 4, Second <- 3, MaxBuckets <- 1, MaxNow <- 7,
    Request <- {r1, r2}, Timeout <- 2, MaxReads <- 1, MaxSiblings <- 1,
    Shared <- TRUE

Buckets == INSTANCE AgentRequest WITH Key <- {k1, k2}, Limit <- Limits,
    Window <- 4, Second <- 3, MaxBuckets <- 1, MaxNow <- 8,
    Request <- {r1, r2}, Timeout <- 2, MaxReads <- 1, MaxSiblings <- 1,
    Shared <- FALSE

\* Two POST requests and three challenges.
Demo == INSTANCE Reset WITH Post <- {w1, w2}, Message <- {c1, c2, c3},
    MaxChallenges <- 1

\* A question with two intents and one hypothetical change.
Ask == INSTANCE AskLoop WITH Intent <- {va, vb}, Change <- {drop},
    Committed <- same, Malformed <- junk, Start <- Worlds, MaxTurns <- 2,
    MaxToolCalls <- 2, MaxPerTurn <- 2, MaxBlock <- 2

-----------------------------------------------------------------------------
(* The parts take no notice of each other: a behaviour is one of one part, *)
(* and the variables of the others rest.                                   *)

Idle == "idle"

NotFileStore == <<store, todo, raw, tries, code, live, past, issued, granted,
                  drawn, known, gaveUp, ended, faults, now, buckets, admitted,
                  told, req, state, challenges, post, started, alive, blocks,
                  selected, pinned, phase, turns, calls, log, text, capacity,
                  baseline, diagnosed, answer>>
FileStoreAlone == /\ store = Idle /\ todo = Idle /\ raw = Idle /\ tries = Idle
                  /\ code = Idle /\ live = Idle /\ past = Idle
                  /\ issued = Idle /\ granted = Idle /\ drawn = Idle
                  /\ known = Idle /\ gaveUp = Idle /\ ended = Idle
                  /\ faults = Idle /\ now = Idle /\ buckets = Idle
                  /\ admitted = Idle /\ told = Idle /\ req = Idle
                  /\ state = Idle /\ challenges = Idle /\ post = Idle
                  /\ started = Idle /\ alive = Idle /\ blocks = Idle
                  /\ selected = Idle /\ pinned = Idle /\ phase = Idle
                  /\ turns = Idle /\ calls = Idle /\ log = Idle /\ text = Idle
                  /\ capacity = Idle /\ baseline = Idle /\ diagnosed = Idle
                  /\ answer = Idle

NotRecords == <<file, expired, lock, pc, asked, dead, crashes, now, buckets,
                admitted, told, req, state, challenges, post, started, alive,
                blocks, selected, pinned, phase, turns, calls, log, text,
                capacity, baseline, diagnosed, answer>>
RecordsAlone == /\ Init /\ now = Idle /\ buckets = Idle /\ admitted = Idle
                /\ told = Idle /\ req = Idle /\ state = Idle
                /\ challenges = Idle /\ post = Idle /\ started = Idle
                /\ alive = Idle /\ blocks = Idle /\ selected = Idle
                /\ pinned = Idle /\ phase = Idle /\ turns = Idle
                /\ calls = Idle /\ log = Idle /\ text = Idle
                /\ capacity = Idle /\ baseline = Idle /\ diagnosed = Idle
                /\ answer = Idle

NotAgentRequest == <<file, expired, lock, pc, asked, dead, crashes, store,
                     todo, raw, tries, code, live, past, issued, granted,
                     drawn, known, gaveUp, ended, faults, state, challenges,
                     post, started, alive, blocks, selected, pinned, phase,
                     turns, calls, log, text, capacity, baseline, diagnosed,
                     answer>>
AgentRequestAlone == /\ Init /\ store = Idle /\ todo = Idle /\ raw = Idle
                     /\ tries = Idle /\ code = Idle /\ live = Idle
                     /\ past = Idle /\ issued = Idle /\ granted = Idle
                     /\ drawn = Idle /\ known = Idle /\ gaveUp = Idle
                     /\ ended = Idle /\ faults = Idle /\ state = Idle
                     /\ challenges = Idle /\ post = Idle /\ started = Idle
                     /\ alive = Idle /\ blocks = Idle /\ selected = Idle
                     /\ pinned = Idle /\ phase = Idle /\ turns = Idle
                     /\ calls = Idle /\ log = Idle /\ text = Idle
                     /\ capacity = Idle /\ baseline = Idle /\ diagnosed = Idle
                     /\ answer = Idle

NotReset == <<file, expired, lock, pc, asked, dead, crashes, store, todo, raw,
              tries, code, live, past, granted, drawn, known, gaveUp, ended,
              faults, now, buckets, admitted, told, req, blocks, selected,
              pinned, phase, turns, calls, log, text, capacity, baseline,
              diagnosed, answer>>
ResetAlone == /\ Init /\ store = Idle /\ todo = Idle /\ raw = Idle
              /\ tries = Idle /\ code = Idle /\ live = Idle /\ past = Idle
              /\ granted = Idle /\ drawn = Idle /\ known = Idle
              /\ gaveUp = Idle /\ ended = Idle /\ faults = Idle /\ now = Idle
              /\ buckets = Idle /\ admitted = Idle /\ told = Idle
              /\ req = Idle /\ blocks = Idle /\ selected = Idle
              /\ pinned = Idle /\ phase = Idle /\ turns = Idle /\ calls = Idle
              /\ log = Idle /\ text = Idle /\ capacity = Idle
              /\ baseline = Idle /\ diagnosed = Idle /\ answer = Idle

NotAskLoop == <<file, expired, lock, pc, asked, dead, crashes, store, todo,
                raw, tries, code, live, past, issued, granted, drawn, known,
                gaveUp, ended, faults, now, buckets, admitted, told, req,
                state, challenges, post, started, alive>>
AskLoopAlone == /\ Init /\ store = Idle /\ todo = Idle /\ raw = Idle
                /\ tries = Idle /\ code = Idle /\ live = Idle /\ past = Idle
                /\ issued = Idle /\ granted = Idle /\ drawn = Idle
                /\ known = Idle /\ gaveUp = Idle /\ ended = Idle
                /\ faults = Idle /\ now = Idle /\ buckets = Idle
                /\ admitted = Idle /\ told = Idle /\ req = Idle
                /\ state = Idle /\ challenges = Idle /\ post = Idle
                /\ started = Idle /\ alive = Idle

ServerInit ==
    \/ part = "disk" /\ Init /\ FileStoreAlone
    \/ part = "claims" /\ Claims!Init /\ RecordsAlone
    \/ part = "judges" /\ Judges!Init /\ RecordsAlone
    \/ part = "memory" /\ Memory!Init /\ AgentRequestAlone
    \/ part = "windows" /\ Windows!LimitInit /\ req = Idle /\ AgentRequestAlone
    \/ part = "buckets" /\ Buckets!LimitInit /\ req = Idle /\ AgentRequestAlone
    \/ part = "reset" /\ Demo!Init /\ ResetAlone
    \/ part = "ask" /\ Ask!Init /\ AskLoopAlone

ServerNext ==
    /\ UNCHANGED part
    /\ \/ part = "disk" /\ Next /\ UNCHANGED NotFileStore
       \/ part = "claims" /\ Claims!Next /\ UNCHANGED NotRecords
       \/ part = "judges" /\ Judges!Next /\ UNCHANGED NotRecords
       \/ part = "memory" /\ Memory!Next /\ UNCHANGED NotAgentRequest
       \/ part = "windows" /\ Windows!LimitNext /\ UNCHANGED req /\ UNCHANGED NotAgentRequest
       \/ part = "buckets" /\ Buckets!LimitNext /\ UNCHANGED req /\ UNCHANGED NotAgentRequest
       \/ part = "reset" /\ Demo!Next /\ UNCHANGED NotReset
       \/ part = "ask" /\ Ask!Next /\ UNCHANGED NotAskLoop

ServerSpec ==
    /\ ServerInit /\ [][ServerNext]_serverVars
    \* disk
    /\ WF_(vars)(part = "disk" /\ Run(p1))
    /\ WF_(vars)(part = "disk" /\ Run(p2))
    \* memory
    /\ WF_(Memory!vars)(part = "memory" /\ Memory!Clock)
    /\ WF_(Memory!vars)(part = "memory" /\ Memory!Timer(r1))
    \* ask
    /\ WF_(Ask!vars)(part = "ask" /\ Ask!AskStep)

-----------------------------------------------------------------------------
ASSUME ServerFits ==
    /\ FileStoreAssumption /\ Claims!RecordsAssumption /\ Judges!RecordsAssumption
    /\ Windows!AgentRequestAssumption /\ Buckets!AgentRequestAssumption
    /\ Memory!AgentRequestAssumption
    /\ Demo!ResetAssumption /\ Ask!AskAssumption

ServerTypeOK ==
    /\ part = "disk" => TypeOK
    /\ part = "claims" => Claims!TypeOK
    /\ part = "judges" => Judges!TypeOK
    /\ part = "memory" => Memory!TypeOK
    /\ part = "ask" => Ask!TypeOK

\* One challenge lets at most one request through to the issuer's key
\* (demo/tickets/route.ts:40-42).
ClaimedOnce == part = "claims" => Claims!ClaimedOnce

\* A window lets no more requests through than its quota, and a request that
\* gives up has lost every round to a unit somebody took (durable-store.ts:126).
QuotaKept ==
    /\ part = "claims" => Claims!QuotaKept
    /\ part = "judges" => Judges!QuotaKept

\* A confirmed receipt stays its evidence's receipt (evidence-store.ts:17-21).
ReceiptStays ==
    [][part = "claims" => \A e \in {e1} : LET r == store[<<"evidence", e>>] IN
          r # None /\ r.confirmed => store'[<<"evidence", e>>] = r]_serverVars

\* Once a sign-out is answered its session opens nothing (judge-access.ts:51-54).
SignedOutStays ==
    [][part = "judges" => \A w \in {w1, w2} :
          Judges!Doing(w, {"check"}) /\ todo'[w] = Tail(todo[w]) => Judges!Now(w).key[2] \notin ended]_serverVars

\* Whoever follows a demo intent's replacements comes to one the judge may
\* change again (judge-budget.ts:155-156).
ReplacementsPermitted == part = "judges" => Judges!ReplacementsPermitted

\* The chain of replacements is behind the blockchain, never beside it
\* (judging-demo.ts:26-40).
ReplacementsHappened == part = "judges" => Judges!ReplacementsHappened

\* Every request that read anything was paid for by an admission of its own
\* (request-control.ts:42).
ReadsPaid ==
    /\ part = "memory" => Memory!ReadsPaid

\* No window ever holds more admissions than its limit (rate-limit.ts:52-80).
WindowLimit ==
    /\ part = "memory" => Memory!WindowLimit
    /\ part = "windows" => Windows!WindowLimit
    /\ part = "buckets" => Buckets!WindowLimit

\* The seconds a refused client is told to wait are enough (rate-limit.ts:57-60).
RetrySuffices ==
    /\ part = "memory" => Memory!RetrySuffices
    /\ part = "windows" => Windows!RetrySuffices
    /\ part = "buckets" => Buckets!RetrySuffices

\* What an answered request left running starts no other read
\* (request-budget.ts:69-74).
NothingAfterAnswer ==
    [][part = "memory" =>
        \A r \in DOMAIN req : req[r].answer # "none" => req'[r].reads = req[r].reads]_serverVars

\* The answer tells the truth about deadline and caller (request-control.ts:62-72).
HonestAnswer ==
    [][part = "memory" =>
        \A r \in DOMAIN req : req[r].answer = "none" =>
            LET q == req'[r] IN
            /\ q.answer \in {"ok", "failed", "limited", "unavailable"} => now < q.deadline /\ ~q.left
            /\ q.answer = "timeout" => now >= q.deadline
            /\ q.answer = "cancelled" => q.left]_serverVars

\* A signature of the operator starts the script once (reset/route.ts:33-35).
StartsOnce == part = "reset" => Demo!StartsOnce

\* An answer is about the selected intent and true at the request's one block
\* (tools.ts:14-16, narrate.ts:13-14).
AnswerTrue == part = "ask" => Ask!AnswerTrue

\* The model is not credited with a tool it did not call (guard.ts:63).
OwnWork == part = "ask" => Ask!OwnWork

\* The selected intent is diagnosed once and the funds are read once
\* (tools.ts:95-98).
ReadOnce == part = "ask" => Ask!ReadOnce

\* The drawer takes every answer the server gives (agent-evidence.ts:69-121).
DrawerTakesIt == part = "ask" => Ask!DrawerTakesIt

\* What the server was asked it answers: a call of the store though a lock was
\* left behind (durable-store.ts:69-77), a request to the agent whatever store
\* and reads do (request-budget.ts:50-66), a question to the model
\* (narrate.ts:22-24).  A call that waits stays one that waits, so that being
\* answered again and again is being answered.
Answered == []<>(
    /\ part = "disk" => pc[p1] # "lock" \/ p1 \in dead
    /\ part = "memory" => req[r1].stage = "new" \/ req[r1].answer # "none"
    /\ part = "ask" => phase \in {"answered", "failed"})

-----------------------------------------------------------------------------
(* What the run checks *)

\* What is recorded is recorded for good, and what may be used once is used once,
\* by challenges, receipts, quotas, sessions, replacements and resets, whichever
\* request stops between two calls (demo/tickets/route.ts:40-42, durable-store.ts:126,
\* evidence-store.ts:17-21, judge-access.ts:51-54, judge-budget.ts:155-156,
\* reset/route.ts:33-35).
RecordsKept ==
    /\ [](/\ ServerTypeOK /\ ClaimedOnce /\ QuotaKept
           /\ ReplacementsPermitted /\ ReplacementsHappened /\ StartsOnce
           /\ ReadsPaid /\ WindowLimit /\ RetrySuffices)
    /\ ReceiptStays /\ SignedOutStays

\* What a request is answered is true: of its deadline and its caller, of the work
\* done for it, and of the intent at the one block it read (request-control.ts:62-72,
\* request-budget.ts:69-74, tools.ts:14-16, 95-98, guard.ts:63, agent-evidence.ts:69-121).
AnswersTrue ==
    /\ [](AnswerTrue /\ OwnWork /\ ReadOnce /\ DrawerTakesIt)
    /\ NothingAfterAnswer /\ HonestAnswer

=============================================================================
