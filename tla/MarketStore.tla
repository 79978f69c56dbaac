----------------------------- MODULE MarketStore -----------------------------
(***************************************************************************)
(* What a page may rely on of its market store (src/lib/market-freshness.ts):*)
(* a required block is never forgotten, and nothing older than it, or than *)
(* what was shown before, is ever published.  MarketFreshness implements   *)
(* it; Workspace is built on it.                                           *)
(***************************************************************************)
EXTENDS Integers

CONSTANT MaxBlock
StoreAssumption == MaxBlock \in Nat \ {0}

Block == 0 .. MaxBlock
NoBlock == -1

VARIABLES
    market,     \* block of the published snapshot, or NoBlock
    floor,      \* the newest block required
    indexing    \* whether that block is still waited for

storeVars == <<market, floor, indexing>>

StoreInit == market = NoBlock /\ floor = 0 /\ indexing = FALSE

Minimum == IF market > floor THEN market ELSE floor

\* requireBlock
RequireBlock(b) ==
    /\ floor' = IF b > floor THEN b ELSE floor
    /\ indexing' = TRUE
    /\ UNCHANGED market

\* A refresh succeeds.
Publish(b) ==
    /\ b >= Minimum
    /\ market' = b
    /\ indexing' = FALSE
    /\ UNCHANGED floor

\* The page is loaded again with the floor the session's storage kept.
Restore == market' = NoBlock /\ indexing' = (floor > 0) /\ UNCHANGED floor

StoreNext == (\E b \in Block : RequireBlock(b) \/ Publish(b)) \/ Restore

StoreSpec == StoreInit /\ [][StoreNext]_storeVars

=============================================================================
