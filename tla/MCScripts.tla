----------------------------- MODULE MCScripts ------------------------------
(*****************************************************************************)
(* The operator's scripts side by side, for TLC.                            *)
(*****************************************************************************)
EXTENDS Integers, Sequences

CONSTANTS p1, p2, b1, issuer, wallet, nobody

VARIABLES part, nonces, pool, chain, journal, held, phase, req, faults,
          crashes, tickets, approved, funded, used, live, lock, at, published,
          claims, trades, blocks, inclusion, record, outside, state, allowed,
          now, manifest, plan, queue, fails, sent, pc, step, head, reorgs,
          lost, killed, files, ready, local, target, todo, seen, deaths,
          hosted, cleared, reverted

vars == <<part, nonces, pool, chain, journal, held, phase, req, faults,
          crashes, tickets, approved, funded, used, live, lock, at, published,
          claims, trades, blocks, inclusion, record, outside, state, allowed,
          now, manifest, plan, queue, fails, sent, pc, step, head, reorgs,
          lost, killed, files, ready, local, target, todo, seen, deaths,
          hosted, cleared, reverted>>

OneFile(p) == b1
IssuerOnly(c) == issuer
ByCell(c) == IF c = 1 THEN issuer ELSE wallet

-----------------------------------------------------------------------------
\* seed-inventory run by two processes: one cell, two offers.
Inventory == INSTANCE Seeding WITH Proc <- {p1, p2}, File <- {b1},
    FileOf <- OneFile, Account <- {issuer}, Issuer <- issuer,
    Nobody <- nobody, Cell <- <<1>>, OwnerOf <- IssuerOnly, Size <- 1,
    Bundles <- 2, Fee <- {1}, MaxFees <- 6, Stalls <- FALSE, MaxFaults <- 0,
    MaxCrashes <- 1, MaxClaims <- 0, MaxTrades <- 1, MaxNow <- 1

\* Two cells, the second a participant's, whose transactions the issuer funds.
Circle == INSTANCE Seeding WITH Proc <- {p1}, File <- {b1}, FileOf <- OneFile,
    Account <- {issuer, wallet}, Issuer <- issuer, Nobody <- nobody,
    Cell <- <<1, 2>>, OwnerOf <- ByCell, Size <- 1, Bundles <- 1,
    Fee <- {1, 2}, MaxFees <- 10, Stalls <- FALSE, MaxFaults <- 0,
    MaxCrashes <- 1, MaxClaims <- 0, MaxTrades <- 0, MaxNow <- 0

\* The same with one fee, run until it is complete.
Batch == INSTANCE Seeding WITH Proc <- {p1}, File <- {b1}, FileOf <- OneFile,
    Account <- {issuer, wallet}, Issuer <- issuer, Nobody <- nobody,
    Cell <- <<1, 2>>, OwnerOf <- ByCell, Size <- 1, Bundles <- 1, Fee <- {1},
    MaxFees <- 9, Stalls <- FALSE, MaxFaults <- 1, MaxCrashes <- 1,
    MaxClaims <- 0, MaxTrades <- 1, MaxNow <- 1

\* The three scenes in their real size.
Cycle == INSTANCE Scenes WITH Proc <- {p1}, File <- {b1}, FileOf <- OneFile,
    Account <- 1 .. 4, Act <- 1, MaxFaults <- 0, MaxCrashes <- 1,
    Strangers <- {3}, MaxOutside <- 1, Times <- {0}

Chain == INSTANCE Scenes WITH Proc <- {p1}, File <- {b1}, FileOf <- OneFile,
    Account <- 1 .. 4, Act <- 2, MaxFaults <- 0, MaxCrashes <- 1,
    Strangers <- {}, MaxOutside <- 1, Times <- {0, 1}

Rejected == INSTANCE Scenes WITH Proc <- {p1}, File <- {b1},
    FileOf <- OneFile, Account <- 1 .. 4, Act <- 3, MaxFaults <- 1,
    MaxCrashes <- 0, Strangers <- {3}, MaxOutside <- 1,
    Times <- {0, 2}

\* The demo seed of three wallets, over an earlier one and from nothing.
Demo == INSTANCE DemoSeed WITH Parties <- 3, Life <- 4, Spare <- 2,
    Margin <- 1, MaxNow <- 4, MaxFails <- 2, Seeded <- TRUE, MaxTrades <- 2

FirstDemo == INSTANCE DemoSeed WITH Parties <- 3, Life <- 4, Spare <- 2,
    Margin <- 1, MaxNow <- 4, MaxFails <- 2, Seeded <- FALSE, MaxTrades <- 1

\* The mainnet deployment: what may go wrong, and that it ends.
Deploy == INSTANCE Rollout WITH Steps <- 2, Confirmations <- 3, Depth <- 2,
    MaxReorgs <- 1, MaxLost <- 1, MaxKilled <- 2, MaxOutside <- 1,
    MaxReverted <- 1

DeployLive == INSTANCE Rollout WITH Steps <- 3, Confirmations <- 2,
    Depth <- 1, MaxReorgs <- 1, MaxLost <- 1, MaxKilled <- 1, MaxOutside <- 1,
    MaxReverted <- 1

\* Two rounds besides the one for visitors, over an earlier market and from
\* nothing.
Settling == INSTANCE Rounds WITH Proc <- {p1}, File <- {b1},
    FileOf <- OneFile, Account <- 1 .. 2, Parties <- 2, Planned <- 2,
    Seeded <- TRUE, MaxTrades <- 1, MaxFaults <- 1, MaxCrashes <- 1

FirstRounds == INSTANCE Rounds WITH Proc <- {p1}, File <- {b1},
    FileOf <- OneFile, Account <- 1 .. 2, Parties <- 2, Planned <- 2,
    Seeded <- FALSE, MaxTrades <- 1, MaxFaults <- 1, MaxCrashes <- 1

\* Two claimants, one of whose pending claims may meet the other's.
Move == INSTANCE Migration WITH Claimant <- {"a", "b"}, MaxDeaths <- 1,
    MaxHosted <- 1

-----------------------------------------------------------------------------
(* The parts take no notice of each other: a behaviour is one of one part, *)
(* and the variables of the others rest.                                   *)

Idle == "idle"

NotSeeding == <<blocks, inclusion, record, outside, state, allowed,
                manifest, plan, queue, fails, sent, pc, step, head, reorgs,
                lost, killed, files, ready, local, target, todo, seen, deaths,
                hosted, cleared, reverted>>
SeedingAlone == /\ blocks = Idle /\ inclusion = Idle /\ record = Idle
                /\ outside = Idle /\ state = Idle /\ allowed = Idle
                /\ manifest = Idle /\ plan = Idle
                /\ queue = Idle /\ fails = Idle /\ sent = Idle /\ pc = Idle
                /\ step = Idle /\ head = Idle /\ reorgs = Idle /\ lost = Idle
                /\ killed = Idle /\ files = Idle /\ ready = Idle
                /\ local = Idle /\ target = Idle /\ todo = Idle /\ seen = Idle
                /\ deaths = Idle /\ hosted = Idle /\ cleared = Idle
                /\ reverted = Idle

NotScenes == <<tickets, approved, funded, used, live, lock, published, claims,
               trades, state, allowed, now, manifest, plan, queue, fails,
               sent, pc, step, head, reorgs, lost, killed, files, ready,
               local, target, todo, seen, deaths, hosted, cleared, reverted>>
ScenesAlone == /\ tickets = Idle /\ approved = Idle /\ funded = Idle
               /\ used = Idle /\ live = Idle /\ lock = Idle
               /\ published = Idle /\ claims = Idle /\ trades = Idle
               /\ state = Idle /\ allowed = Idle /\ now = Idle
               /\ manifest = Idle /\ plan = Idle /\ queue = Idle
               /\ fails = Idle /\ sent = Idle /\ pc = Idle /\ step = Idle
               /\ head = Idle /\ reorgs = Idle /\ lost = Idle /\ killed = Idle
               /\ files = Idle /\ ready = Idle /\ local = Idle
               /\ target = Idle /\ todo = Idle /\ seen = Idle /\ deaths = Idle
               /\ hosted = Idle /\ cleared = Idle /\ reverted = Idle

NotDemoSeed == <<nonces, pool, chain, journal, held, req, faults, crashes,
                 funded, used, live, lock, at, published, claims, blocks,
                 inclusion, record, outside, sent, pc, step, head, reorgs,
                 lost, killed, files, ready, local, target, todo, seen,
                 deaths, hosted, reverted>>
DemoSeedAlone == /\ nonces = Idle /\ pool = Idle /\ chain = Idle
                 /\ journal = Idle /\ held = Idle /\ req = Idle
                 /\ faults = Idle /\ crashes = Idle /\ funded = Idle
                 /\ used = Idle /\ live = Idle /\ lock = Idle /\ at = Idle
                 /\ published = Idle /\ claims = Idle /\ blocks = Idle
                 /\ inclusion = Idle /\ record = Idle /\ outside = Idle
                 /\ sent = Idle /\ pc = Idle /\ step = Idle /\ head = Idle
                 /\ reorgs = Idle /\ lost = Idle /\ killed = Idle
                 /\ files = Idle /\ ready = Idle /\ local = Idle
                 /\ target = Idle /\ todo = Idle /\ seen = Idle
                 /\ deaths = Idle /\ hosted = Idle /\ reverted = Idle

NotRollout == <<nonces, held, phase, req, faults, crashes, tickets, approved,
                funded, used, live, at, published, claims, trades, blocks,
                inclusion, record, state, allowed, now, plan, queue, fails,
                files, ready, local, target, todo, seen, deaths, hosted,
                cleared>>
RolloutAlone == /\ nonces = Idle /\ held = Idle /\ phase = Idle /\ req = Idle
                /\ faults = Idle /\ crashes = Idle /\ tickets = Idle
                /\ approved = Idle /\ funded = Idle /\ used = Idle
                /\ live = Idle /\ at = Idle /\ published = Idle
                /\ claims = Idle /\ trades = Idle /\ blocks = Idle
                /\ inclusion = Idle /\ record = Idle /\ state = Idle
                /\ allowed = Idle /\ now = Idle /\ plan = Idle /\ queue = Idle
                /\ fails = Idle /\ files = Idle /\ ready = Idle
                /\ local = Idle /\ target = Idle /\ todo = Idle /\ seen = Idle
                /\ deaths = Idle /\ hosted = Idle /\ cleared = Idle

NotRounds == <<approved, funded, used, live, lock, published, claims, blocks,
               inclusion, record, outside, now, manifest, plan, queue, fails,
               sent, pc, step, head, reorgs, lost, killed, local, target,
               todo, seen, deaths, hosted, cleared, reverted>>
RoundsAlone == /\ approved = Idle /\ funded = Idle /\ used = Idle
               /\ live = Idle /\ lock = Idle /\ published = Idle
               /\ claims = Idle /\ blocks = Idle /\ inclusion = Idle
               /\ record = Idle /\ outside = Idle /\ now = Idle
               /\ manifest = Idle /\ plan = Idle /\ queue = Idle
               /\ fails = Idle /\ sent = Idle /\ pc = Idle /\ step = Idle
               /\ head = Idle /\ reorgs = Idle /\ lost = Idle /\ killed = Idle
               /\ local = Idle /\ target = Idle /\ todo = Idle /\ seen = Idle
               /\ deaths = Idle /\ hosted = Idle /\ cleared = Idle
               /\ reverted = Idle

NotMigration == <<nonces, pool, chain, journal, held, req, faults, crashes,
                  tickets, approved, funded, used, live, lock, at, published,
                  claims, trades, blocks, inclusion, record, outside, state,
                  allowed, now, manifest, plan, queue, fails, sent, pc, step,
                  head, reorgs, lost, killed, files, ready, cleared, reverted>>
MigrationAlone == /\ nonces = Idle /\ pool = Idle /\ chain = Idle
                  /\ journal = Idle /\ held = Idle /\ req = Idle
                  /\ faults = Idle /\ crashes = Idle /\ tickets = Idle
                  /\ approved = Idle /\ funded = Idle /\ used = Idle
                  /\ live = Idle /\ lock = Idle /\ at = Idle
                  /\ published = Idle /\ claims = Idle /\ trades = Idle
                  /\ blocks = Idle /\ inclusion = Idle /\ record = Idle
                  /\ outside = Idle /\ state = Idle /\ allowed = Idle
                  /\ now = Idle /\ manifest = Idle /\ plan = Idle
                  /\ queue = Idle /\ fails = Idle /\ sent = Idle /\ pc = Idle
                  /\ step = Idle /\ head = Idle /\ reorgs = Idle
                  /\ lost = Idle /\ killed = Idle /\ files = Idle
                  /\ ready = Idle /\ cleared = Idle /\ reverted = Idle

Init ==
    \/ part = "inventory" /\ Inventory!Init /\ SeedingAlone
    \/ part = "circle" /\ Circle!Init /\ SeedingAlone
    \/ part = "batch" /\ Batch!Init /\ SeedingAlone
    \/ part = "cycle" /\ Cycle!Init /\ ScenesAlone
    \/ part = "chain" /\ Chain!Init /\ ScenesAlone
    \/ part = "rejected" /\ Rejected!Init /\ ScenesAlone
    \/ part = "demo" /\ Demo!Init /\ DemoSeedAlone
    \/ part = "firstDemo" /\ FirstDemo!Init /\ DemoSeedAlone
    \/ part = "rollout" /\ Deploy!Init /\ RolloutAlone
    \/ part = "rolloutEnds" /\ DeployLive!Init /\ RolloutAlone
    \/ part = "rounds" /\ Settling!Init /\ RoundsAlone
    \/ part = "firstRounds" /\ FirstRounds!Init /\ RoundsAlone
    \/ part = "migration" /\ Move!Init /\ MigrationAlone

Next ==
    /\ UNCHANGED part
    /\ \/ part = "inventory" /\ Inventory!Next /\ UNCHANGED NotSeeding
       \/ part = "circle" /\ Circle!Next /\ UNCHANGED NotSeeding
       \/ part = "batch" /\ Batch!Next /\ UNCHANGED NotSeeding
       \/ part = "cycle" /\ Cycle!Next /\ UNCHANGED NotScenes
       \/ part = "chain" /\ Chain!Next /\ UNCHANGED NotScenes
       \/ part = "rejected" /\ Rejected!Next /\ UNCHANGED NotScenes
       \/ part = "demo" /\ Demo!Next /\ UNCHANGED NotDemoSeed
       \/ part = "firstDemo" /\ FirstDemo!Next /\ UNCHANGED NotDemoSeed
       \/ part = "rollout" /\ Deploy!Next /\ UNCHANGED NotRollout
       \/ part = "rolloutEnds" /\ DeployLive!Next /\ UNCHANGED NotRollout
       \/ part = "rounds" /\ Settling!Next /\ UNCHANGED NotRounds
       \/ part = "firstRounds" /\ FirstRounds!Next /\ UNCHANGED NotRounds
       \/ part = "migration" /\ Move!Next /\ UNCHANGED NotMigration

Spec ==
    /\ Init /\ [][Next]_vars
    \* batch
    /\ SF_(Batch!vars)(part = "batch" /\ Batch!OperatorUnlocks)
    /\ WF_(Batch!vars)(part = "batch" /\ Batch!NetworkMines)
    /\ WF_(Batch!vars)(part = "batch" /\ Batch!Runs(p1))
    \* chain
    /\ WF_(Chain!vars)(part = "chain" /\ Chain!NetworkMines)
    /\ WF_(Chain!vars)(part = "chain" /\ Chain!Runs(p1))
    /\ SF_(Chain!vars)(part = "chain" /\ Chain!Solve(p1, FALSE))
    \* firstDemo
    /\ WF_(FirstDemo!vars)(part = "firstDemo" /\ FirstDemo!Run)
    /\ SF_(FirstDemo!vars)(part = "firstDemo" /\ FirstDemo!OperatorClears)
    \* rolloutEnds
    /\ WF_(DeployLive!vars)(part = "rolloutEnds" /\ DeployLive!Run)
    /\ WF_(DeployLive!vars)(part = "rolloutEnds" /\ DeployLive!Mine)
    /\ WF_(DeployLive!vars)(part = "rolloutEnds" /\ DeployLive!OperatorUnlocks)
    \* firstRounds
    /\ WF_(FirstRounds!vars)(part = "firstRounds" /\ FirstRounds!Run(p1))
    /\ WF_(FirstRounds!vars)(part = "firstRounds" /\ FirstRounds!NetworkMines)
    \* migration
    /\ WF_(Move!vars)(part = "migration" /\ Move!Run)

-----------------------------------------------------------------------------
ASSUME ScriptsFit ==
    /\ Inventory!SeedingAssumption /\ Circle!SeedingAssumption /\ Batch!SeedingAssumption
    /\ Cycle!ScenesAssumption /\ Chain!ScenesAssumption /\ Rejected!ScenesAssumption
    /\ Demo!DemoSeedAssumption /\ FirstDemo!DemoSeedAssumption
    /\ Deploy!RolloutAssumption /\ DeployLive!RolloutAssumption
    /\ Settling!RoundsAssumption /\ FirstRounds!RoundsAssumption
    /\ Move!MigrationAssumption

TypeOK ==
    /\ part = "inventory" => Inventory!TypeOK
    /\ part = "circle" => Circle!TypeOK
    /\ part = "batch" => Batch!TypeOK
    /\ part = "cycle" => Cycle!TypeOK
    /\ part = "chain" => Chain!TypeOK
    /\ part = "rejected" => Rejected!TypeOK
    /\ part = "demo" => Demo!TypeOK
    /\ part = "firstDemo" => FirstDemo!TypeOK
    /\ part = "rollout" => Deploy!TypeOK
    /\ part = "rolloutEnds" => DeployLive!TypeOK
    /\ part = "rounds" => Settling!TypeOK
    /\ part = "firstRounds" => FirstRounds!TypeOK
    /\ part = "migration" => Move!TypeOK

-----------------------------------------------------------------------------
\* A step of a recorded run is mined once, however often the script was started
\* again (seed-inventory.mjs:110, act-one.mjs:75, settle-arc-ten.mjs:35).
OncePerLabel ==
    /\ part = "inventory" => Inventory!OncePerLabel
    /\ part = "cycle" => Cycle!OncePerLabel
    /\ part = "rounds" => Settling!OncePerLabel

\* No transaction that a batch saved has lost its nonce to another one, while the
\* claim service sends none and no process stalls (seed-inventory.mjs:88, 110).
StepsCanBeSent == part = "inventory" => Inventory!StepsCanBeSent

\* A live intent's tickets are in escrow (seed-inventory.mjs:146, act-one.mjs:119).
OffersBacked ==
    /\ part = "inventory" => Inventory!OffersBacked
    /\ part = "cycle" => Cycle!OffersBacked

\* No two kept intents of an owner share a nonce (seed-inventory.mjs:151).
NoncesApart == part = "inventory" => Inventory!NoncesApart

\* A manifest names a batch that was made in full, once (seed-inventory.mjs:199).
WholeBatch == part = "inventory" => Inventory!WholeBatch

\* A batch costs no more than its ceiling over all runs (seed-inventory.mjs:106).
WithinCeiling == part = "circle" => Circle!WithinCeiling

\* A recorded rejection was for the seats, or mined in the first block after the
\* deadline (act-three-proof.mjs:84).
RejectedForSeats == part = "rejected" => Rejected!RejectedForSeats

\* No ticket is offered by two live intents, but for those of a plan that the operator
\* cleared when it was called expired (SeedDemo.s.sol:135, prepare-demo.mjs:73).
OfferedOnce == part = "demo" => Demo!OfferedOnce

\* A later run knows every other live intent of the wallets (prepare-demo.mjs:118).
NoneForgotten == part = "demo" => Demo!NoneForgotten

\* What the deployment manifest names stays on the chain
\* (mainnet-deployment.mjs:168).
ManifestLasts == part = "rollout" => Deploy!ManifestLasts

\* No deployment step has a second transaction (mainnet-deployment.mjs:161).
NoReplacement == part = "rollout" => Deploy!NoReplacement

\* A claim with a mint that may still be sent keeps the issuer
\* (migrate-storage.mts:43).
IssuerKept == part = "migration" => Move!IssuerKept

\* The migration replaces nothing the store has (migrate-storage.mts:60).
NothingOverwritten == [][(part = "migration") =>
    \A key \in DOMAIN target : key \in DOMAIN target' /\ target'[key] = target[key]]_vars

\* The demonstration is ready again and again (prepare-demo.mjs:121), unless others
\* settled an exchange with the tickets of a saved plan (SeedDemo.s.sol:92).
DemoReady == []<>(part = "firstDemo" => FirstDemo!DemoSet \/ FirstDemo!Overtaken)

\* Started again and again, each of the scripts comes to its end, unless something
\* happened that it refuses to go on with: the batch is complete (seed-inventory.mjs:88),
\* unless the cutoff came near (:92, 98); the scene is recorded (act-two.mjs:183), unless
\* its deadline came (:124) or others minted or settled; the deployment is confirmed
\* (mainnet-deployment.mjs:161), unless a step was reverted (:169) or the key used
\* elsewhere; all rounds are settled and filed (settle-arc-ten.mjs:111), unless others
\* settled one; the records are moved (migrate-storage.mts:57), unless a server wrote.
ScriptsEnd == <>[](
    /\ part = "batch" => Batch!Completed
    /\ part = "chain" => Chain!Recorded \/ outside > 0
    /\ part = "rolloutEnds" => DeployLive!Deployed \/ DeployLive!Halted
    /\ part = "firstRounds" => FirstRounds!AllSettled \/ trades > 0
    /\ part = "migration" => Move!Ended \/ hosted > 0)

-----------------------------------------------------------------------------
(* What the run checks *)

\* However often a script is started again, each of its steps takes effect once,
\* within its ceiling, and what it reports was made in full: for two processes on one
\* batch, each of which goes from reading the journal to the lock without a stall, and
\* no claim of a ticket meanwhile (seed-inventory.mjs:106-110, 151, 199, act-one.mjs:75,
\* settle-arc-ten.mjs:35, mainnet-deployment.mjs:161).
StepsOnce ==
    /\ TypeOK
    /\ OncePerLabel /\ StepsCanBeSent /\ NoReplacement
    /\ NoncesApart /\ WholeBatch /\ WithinCeiling

\* What the scripts leave live is backed by custody; but for plans that were cleared it
\* is offered once and known to the next run; what they report as rejected was rejected
\* for its seats, or in the very block of its deadline (seed-inventory.mjs:146,
\* SeedDemo.s.sol:135, prepare-demo.mjs:118, act-three-proof.mjs:84).
OffersKept == OffersBacked /\ OfferedOnce /\ NoneForgotten /\ RejectedForSeats

\* What a manifest names or a store has stays (mainnet-deployment.mjs:168,
\* migrate-storage.mts:43, 60).
FiledStays == [](ManifestLasts /\ IssuerKept) /\ NothingOverwritten


=============================================================================
