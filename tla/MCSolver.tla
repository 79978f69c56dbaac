------------------------------ MODULE MCSolver ------------------------------
(*****************************************************************************)
(* The solver, the diagnoses and the shared searches side by side, for      *)
(* TLC.                                                                     *)
(*****************************************************************************)
EXTENDS Solver, TLC

CONSTANTS alice, bob, carol, i1, i2, i3, r1, r2

VARIABLES part, blocks, asked, phase, snapshot, capacity, evidence, tried,
          whatIf, chain, indexed, request, search, pending, cached

contracts == <<ownerOf, meta, redeemed, nextTokenId, depositor, signed, state, intentOwner, usedNonce,
               usdc, allowance, now>>
diagnosisVars == <<todo, blocks, asked, phase, snapshot, capacity, evidence,
                   tried, whatIf>>
sharedVars == <<chain, indexed, request, search, pending, cached>>
runVars == <<part, contracts, view, found, termination, proposal,
             diagnosisVars, sharedVars>>

Seat(section, seat) == [eventId |-> 1, session |-> 0, section |-> section, row |-> 0, seat |-> seat]

Wish(owner, sections, n, pay) ==
    [owner |-> owner, eventId |-> 1, sessionMask |-> {0}, sectionMask |-> sections, exactCount |-> n,
     mustShareSession |-> FALSE, mustShareSection |-> FALSE, mustBeAdjacent |-> FALSE, maxNetPay |-> pay]

\* Of the registry: signed, with a nonce, good until tick 0.
Signed(wish, offered, nonce) == wish @@ [offered |-> offered, deadline |-> 0, nonce |-> nonce]

\* Seats 1 and 2 of section 0, one of section 1: a pair for a pair, a swap for
\* cash, a two-ticket sale, two bids.
Trio == [Signed(Wish(alice, {0, 1}, 2, 2), <<0, 2>>, 1) EXCEPT !.mustBeAdjacent = TRUE]
PoolRequests == <<
    Signed(Wish(bob, {}, 0, -1), <<1>>, 1),
    Signed(Wish(bob, {1}, 1, -2), <<1>>, 2),
    Trio,
    Signed(Wish(carol, {0, 1}, 1, 1), <<>>, 1),
    Signed(Wish(alice, {0}, 1, 1), <<>>, 2)>>
Mine == {Trio}

\* A swap for cash, which a second sale and a second purchase may overtake.
MovingRequests == <<
    Signed(Wish(alice, {0}, 1, 1), <<0>>, 3),
    Signed(Wish(bob, {0}, 1, -1), <<1>>, 3),
    Signed(Wish(bob, {}, 0, -1), <<1>>, 4)>>
MovingIntents == Range(MovingRequests) \cup {Signed(Wish(alice, {0}, 1, 1), <<>>, 4)}

AllIntents == Range(PoolRequests) \cup MovingIntents
LegSums == -2 .. 2
PoolFunds == [u \in {alice, bob, carol} |-> 3]
MovingFunds == [u \in {alice, bob, carol} |-> IF u = alice THEN 1 ELSE 0]

-----------------------------------------------------------------------------
\* For the diagnoses: seats 0 and 1 side by side, a seat far off, one of another
\* section.
Seats == [t \in 0 .. 3 |-> IF t = 3 THEN Seat(1, 3) ELSE Seat(0, IF t = 2 THEN 9 ELSE t)]

\* A pair of which one seat is kept, a seat for a seat, sales, bids.
Offering(wish, offered) == wish @@ [offered |-> offered]
Pair == [Offering(Wish(alice, {0}, 2, 0), {0}) EXCEPT !.mustBeAdjacent = TRUE]
Two == [Offering(Wish(alice, {0}, 2, 0), {}) EXCEPT !.mustShareSection = TRUE]
Better == Offering(Wish(alice, {1}, 1, 0), {0})
SellsNext == Offering(Wish(bob, {0}, 0, -1), {1})
SellsFar == Offering(Wish(carol, {0}, 0, 0), {2})
Swaps == Offering(Wish(carol, {0}, 1, 0), {3})
Bids == Offering(Wish(carol, {0}, 1, 1), {})
Wishes == {Pair, Two, Better, SellsNext, SellsFar, Swaps, Bids}

Pools == {{Pair, SellsNext}, {Pair, SellsNext, SellsFar}, {Better, Swaps}, {Better, SellsNext},
          {Pair, SellsFar}, {Two, SellsNext, SellsFar}, {Two, SellsNext, Swaps}, {Better, Swaps, SellsNext, Bids}}
Starts == {[stage |-> [i \in Wishes |-> IF i \in P THEN "LIVE" ELSE "NONE"],
            funds |-> [u \in {alice, bob, carol} |-> IF u = poor THEN 0 ELSE 1]] :
                P \in Pools, poor \in {alice, bob}}
Sums == -1 .. 1
Questions == {{[field |-> "addAdjacent", id |-> 0]},
              {[field |-> "section", id |-> 1], [field |-> "maxNetPay", id |-> 0]}}

-----------------------------------------------------------------------------
\* The solver that a request of its own was made to, and the one on a market
\* that moves.
Own == INSTANCE Solver WITH Required <- Mine, MaxCandidates <- 3

Changing == INSTANCE Solver WITH Funds <- MovingFunds, MaxBundle <- 1,
    MaxTime <- 1, Requested <- MovingRequests

\* Diagnoses of intents of many pools.
Diagnoses == INSTANCE Diagnosis WITH Owner <- {alice, bob, carol},
    TokenId <- {0, 1, 2, 3}, Place <- Seats, Intent <- Wishes,
    Start <- Starts, Money <- {0, 1}, Payment <- Sums, Cap <- 1,
    GroupCap <- 1, MaxParticipants <- 3, Question <- Questions, MaxBlock <- 2

\* Searches of the pool by the subgraph: three intents on a chain that stands
\* still, two on one that moves; the same without the subgraph.
Whole == INSTANCE SharedSearch WITH Intent <- {i1, i2, i3}, NoIntent <- NoOne,
    Big <- {}, MaxPool <- 2, Request <- {r1, r2}, Graph <- TRUE,
    MaxBlock <- 0

Moving == INSTANCE SharedSearch WITH Intent <- {i1, i2}, NoIntent <- NoOne,
    Big <- {}, MaxPool <- 2, Request <- {r1, r2}, Graph <- TRUE,
    MaxBlock <- 1

Events == INSTANCE SharedSearch WITH Intent <- {i1, i2}, NoIntent <- NoOne,
    Big <- {}, MaxPool <- 2, Request <- {r1, r2}, Graph <- FALSE,
    MaxBlock <- 1

Large == INSTANCE SharedSearch WITH Intent <- {i1, i2, i3}, NoIntent <- NoOne,
    Big <- {i3}, MaxPool <- 2, Request <- {r1, r2}, Graph <- FALSE,
    MaxBlock <- 0

-----------------------------------------------------------------------------
\* What was signed and committed, before the search: some intents live, the
\* others settled.
Committed(live, funds) ==
    /\ signed = Intent
    /\ state = [i \in Intent |-> IF i \in live THEN "LIVE" ELSE "SETTLED"]
    /\ intentOwner = [i \in Intent |-> i.owner]
    /\ usedNonce = {<<i.owner, i.nonce>> : i \in Intent}
    /\ usdc = [a \in User \cup {SettlementAddr} |-> IF a = SettlementAddr THEN 0 ELSE funds[a]]
    /\ now = 0

\* Any intents live, any tickets withdrawn and some of these redeemed, any
\* allowances but bob's.
PoolInit ==
    /\ SearchInit
    /\ \E live \in SUBSET Range(PoolRequests) : Committed(live, PoolFunds)
    /\ meta = [t \in TokenId |-> IF t = 2 THEN Seat(1, 2) ELSE Seat(0, t)]
    /\ \E kept \in SUBSET TokenId :
        /\ depositor = [t \in TokenId |-> IF t \in kept THEN NoOne ELSE IF t = 1 THEN bob ELSE alice]
        /\ ownerOf = [t \in TokenId |-> IF t \in kept THEN carol ELSE EscrowAddr]
        /\ redeemed \in SUBSET kept
    /\ nextTokenId = 3
    /\ allowance \in [User -> {1, 3}] /\ allowance[bob] = 3

\* The third ticket is not minted yet.
MovingInit ==
    /\ SearchInit /\ Committed(MovingIntents, MovingFunds)
    /\ ownerOf = [t \in TokenId |-> IF t = 2 THEN NoOne ELSE EscrowAddr]
    /\ depositor = [t \in TokenId |-> IF t = 2 THEN NoOne ELSE IF t = 0 THEN alice ELSE bob]
    /\ meta = [t \in TokenId |-> IF t = 2 THEN NoMeta ELSE Seat(0, t)]
    /\ redeemed = {} /\ nextTokenId = 2
    /\ allowance = MovingFunds

\* While a proposal is looked for, intents and the clock may move; once there
\* is one, anything may, for as long as it passes.
MovingNext ==
    \/ proposal = {} /\ Changing!SearchStep /\ UNCHANGED contracts
    \/ (Changing!RegistryStep \/ Changing!TimeStep) /\ UNCHANGED searchVars
    \/ (\E c \in proposal : Changing!Passes(c)) /\ Changing!Next /\ UNCHANGED searchVars
    \/ Changing!Submit

-----------------------------------------------------------------------------
(* The parts take no notice of each other: a behaviour is one of one part, *)
(* and the variables of the others rest.                                   *)

Idle == "idle"

ContractsIdle ==
    /\ ownerOf = Idle /\ meta = Idle /\ redeemed = Idle /\ nextTokenId = Idle
    /\ depositor = Idle /\ signed = Idle /\ state = Idle /\ intentOwner = Idle
    /\ usedNonce = Idle /\ usdc = Idle /\ allowance = Idle /\ now = Idle
SolverIdle ==
    /\ ContractsIdle
    /\ view = Idle /\ found = {} /\ termination = Idle /\ proposal = {}
DiagnosisIdle ==
    /\ blocks = Idle /\ asked = Idle /\ phase = Idle /\ snapshot = Idle
    /\ capacity = Idle /\ evidence = Idle /\ tried = Idle /\ whatIf = Idle
SharedIdle ==
    /\ chain = Idle /\ indexed = Idle /\ request = Idle /\ search = Idle
    /\ pending = Idle /\ cached = Idle

RunInit ==
    \/ part \in {"pool", "mine"} /\ PoolInit /\ DiagnosisIdle /\ SharedIdle
    \/ part = "changing" /\ MovingInit /\ DiagnosisIdle /\ SharedIdle
    \/ part = "diagnosis" /\ Diagnoses!Init /\ SolverIdle /\ SharedIdle
    \/ /\ SolverIdle /\ todo = Idle /\ DiagnosisIdle
       /\ \/ part = "whole" /\ Whole!Init
          \/ part = "moving" /\ Moving!Init
          \/ part = "events" /\ Events!Init
          \/ part = "big" /\ Large!Init

\* Those who search share todo: the solver's subsets, a diagnosis' ways.
SearchNext ==
    /\ \/ part = "pool" /\ SearchStep /\ UNCHANGED contracts
       \/ part = "mine" /\ Own!SearchStep /\ UNCHANGED contracts
       \/ part = "changing" /\ MovingNext
    /\ UNCHANGED <<blocks, asked, phase, snapshot, capacity, evidence, tried,
                   whatIf, sharedVars>>

SharedNext ==
    /\ \/ part = "whole" /\ Whole!Next
       \/ part = "moving" /\ Moving!Next
       \/ part = "events" /\ Events!Next
       \/ part = "big" /\ Large!Next
    /\ UNCHANGED <<contracts, searchVars, diagnosisVars>>

RunNext ==
    /\ UNCHANGED part
    /\ \/ SearchNext
       \/ /\ part = "diagnosis" /\ Diagnoses!Next
          /\ UNCHANGED <<contracts, view, found, termination, proposal, sharedVars>>
       \/ SharedNext

RunSpec == RunInit /\ [][RunNext]_runVars

-----------------------------------------------------------------------------
ASSUME SolversFit ==
    /\ SolverAssumption /\ Own!SolverAssumption /\ Changing!SolverAssumption
    /\ Whole!SharedSearchAssumption /\ Moving!SharedSearchAssumption /\ Events!SharedSearchAssumption
    /\ Large!SharedSearchAssumption

\* A complete search of solvent owners finds what moves least cash, for
\* everybody and for a request of one's own (search.ts:59-126, 174-207).
CashIsLeast ==
    /\ part = "pool" => SolverTypeOK /\ LeastCash
    /\ part = "mine" => Own!LeastCash

-----------------------------------------------------------------------------
DiagnosisTypeOK == part = "diagnosis" => Diagnoses!TypeOK

\* Everything a diagnosis says holds at the one block it names (diagnose.ts:286-304).
OneBlock == part = "diagnosis" => Diagnoses!OneBlock

\* A reported shortfall is one, whatever would be paid (diagnose.ts:86-92).
ShortfallOfOthers == part = "diagnosis" => Diagnoses!ShortfallOfOthers

\* A ticket reported as unwanted goes to nobody else (diagnose.ts:205-228).
NobodyTakesIt == part = "diagnosis" => Diagnoses!NobodyTakesIt

\* Nobody is told to pay more for what the signed limit allows (diagnose.ts:340-346).
NotTheBudget == part = "diagnosis" => Diagnoses!NotTheBudget

\* What a what-if finds could be signed (what-if.ts:105-110).
CouldBeSigned == part = "diagnosis" => Diagnoses!CouldBeSigned

-----------------------------------------------------------------------------
\* The pool searched is no older than the receipt asked after, in somebody else's
\* search either (solve.ts:29-31, solve-graph.ts:134, solve-pool.ts:36-38).
FloorKept ==
    /\ part = "whole" => Whole!FloorKept
    /\ part = "moving" => Moving!FloorKept
    /\ part = "events" => Events!FloorKept
    /\ part = "big" => Large!FloorKept

\* Nor is the chain that was searched, unless its provider lagged behind when it was
\* asked, which the code does not find out (solve.ts:29-31).
ReadAfterFloor ==
    /\ part = "moving" => Moving!ReadAfterFloor
    /\ part = "events" => Events!ReadAfterFloor

\* An answer's settlement holds the required intent, whoever began the search
\* (solve-graph.ts:136, solve-pool.ts:42).
RequiredKept ==
    /\ part = "whole" => Whole!RequiredKept
    /\ part = "moving" => Moving!RequiredKept
    /\ part = "events" => Events!RequiredKept
    /\ part = "big" => Large!RequiredKept

\* A pool search covers every searchable intent of its snapshot, or fails
\* (solve-graph.ts:81-84).
WholePool ==
    /\ part = "whole" => Whole!WholePool
    /\ part = "moving" => Moving!WholePool
    /\ part = "big" => Large!WholePool

\* Without a cache only a search under way is shared (solve-graph.ts:143-144).
OnlyShared == [][(part \in {"whole", "moving"}) => \A r \in {r1, r2} :
    request[r].stage = "idle" /\ request'[r].of # {} =>
        \A s \in request'[r].of : search'[s].stage \notin {"done", "failed"}]_runVars

-----------------------------------------------------------------------------
(* What the run checks *)

\* Each statement of a diagnosis holds at its one block (diagnose.ts:86-92, 205-228,
\* 286-346, what-if.ts:105-110).
DiagnosisTrue ==
    DiagnosisTypeOK /\ OneBlock /\ ShortfallOfOthers /\ NobodyTakesIt /\ NotTheBudget /\ CouldBeSigned

\* A shared search serves each requester as its own would: over a pool no older than
\* its receipt, on a chain that is not older either unless the provider lagged, with
\* its intent, over the whole pool, and not from a search that ended before
\* (solve.ts:29-31, solve-graph.ts:81-84, 134-144, solve-pool.ts:36-42).
SearchesShared == [](FloorKept /\ ReadAfterFloor /\ RequiredKept /\ WholePool) /\ OnlyShared

=============================================================================
