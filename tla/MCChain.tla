------------------------------ MODULE MCChain -------------------------------
(*****************************************************************************)
(* The contracts from later states and the index that follows them side by  *)
(* side, for TLC.                                                           *)
(*****************************************************************************)
EXTENDS PoolSnapshot, TLC

CONSTANTS alice, bob, carol

VARIABLE part

chainVars == <<part, subgraphVars>>

Seat(event, section, seat) == [eventId |-> event, session |-> 0, section |-> section, row |-> 0, seat |-> seat]

\* An intent for n tickets of event 1 in the given sections, at most pay.
Wish(owner, offered, sections, n, pay, deadline, nonce) ==
    [owner |-> owner, offered |-> offered, eventId |-> 1,
     sessionMask |-> {0}, sectionMask |-> sections, exactCount |-> n,
     mustShareSession |-> FALSE, mustShareSection |-> FALSE, mustBeAdjacent |-> FALSE,
     maxNetPay |-> pay, deadline |-> deadline, nonce |-> nonce]

\* Alice sells both her tickets as one lot, bob bids for them twice.
SaleFunds == [u \in {alice, bob} |-> IF u = bob THEN 2 ELSE 0]
SalePayments == -2 .. 2
SaleIntents == {Wish(alice, <<0, 1>>, {}, 0, -1, 1, 1),
                Wish(bob, <<>>, {0}, 1, 1, 1, 1),
                Wish(bob, <<>>, {0}, 1, 1, 0, 2)}

\* Three people, four tickets, all already in escrow.
GroupFunds == [u \in {alice, bob, carol} |-> 0]
GroupIntents ==
    {[Wish(alice, <<0, 3>>, {0, 1}, 2, 0, 1, 1) EXCEPT !.mustBeAdjacent = TRUE],
     [Wish(alice, <<0, 3>>, {0, 1}, 2, 0, 1, 2) EXCEPT !.mustShareSection = TRUE],
     Wish(bob, <<1>>, {0}, 1, 0, 1, 1),
     [Wish(bob, <<2>>, {0, 1}, 1, 0, 1, 2) EXCEPT !.eventId = 2],
     Wish(carol, <<2>>, {1}, 1, 0, 1, 1)}
GroupSeats == (0 :> Seat(1, 0, 1)) @@ (1 :> Seat(1, 0, 2)) @@ (2 :> Seat(1, 0, 3)) @@ (3 :> Seat(1, 1, 2))
GroupHolders == (0 :> alice) @@ (1 :> bob) @@ (2 :> carol) @@ (3 :> alice)

\* For the index and the pool: two events, a swap of which one side expires.
OneSeat == Seat(1, 0, 1)
Events == {OneSeat, Seat(2, 0, 1)}
SwapIntents == {Wish(alice, <<0>>, {0}, 1, 0, 1, 1), Wish(bob, <<1>>, {0}, 1, 0, 0, 1)}
NoFunds == [u \in {alice, bob} |-> 0]

-----------------------------------------------------------------------------
\* The contracts from later states: sales, and bundles with every kind of
\* predicate.
Sale == INSTANCE Settlement WITH MintInput <- {}, Intent <- SaleIntents,
    Funds <- SaleFunds, Amount <- {1}, NetPayment <- SalePayments,
    MaxBundle <- 2

Group == INSTANCE Settlement WITH User <- {alice, bob, carol},
    MaxTickets <- 4, MintInput <- {}, Intent <- GroupIntents,
    Funds <- GroupFunds, MaxBundle <- 2, MaxTime <- 0

-----------------------------------------------------------------------------
\* Every intent is signed and none committed.
Signed(intents, funds) ==
    /\ redeemed = {} /\ signed = intents
    /\ state = [i \in intents |-> "NONE"]
    /\ intentOwner = [i \in intents |-> NoOne]
    /\ usedNonce = {}
    /\ usdc = [a \in DOMAIN funds \cup {SettlementAddr} |-> IF a = SettlementAddr THEN 0 ELSE funds[a]]
    /\ allowance = funds
    /\ now = 0

SaleInit ==
    /\ Signed(SaleIntents, SaleFunds)
    /\ ownerOf = [t \in 0 .. 1 |-> alice] /\ depositor = [t \in 0 .. 1 |-> NoOne]
    /\ meta = [t \in 0 .. 1 |-> Seat(1, 0, t)] /\ nextTokenId = 2

GroupInit ==
    /\ Signed(GroupIntents, GroupFunds)
    /\ ownerOf = [t \in 0 .. 3 |-> EscrowAddr] /\ depositor = GroupHolders
    /\ meta = GroupSeats /\ nextTokenId = 4

\* Nobody moves a ticket here but settle and withdraw.
GroupNext == Group!EscrowStep \/ Group!RegistryStep \/ Group!Settle

-----------------------------------------------------------------------------
(* The parts take no notice of each other: a behaviour is one of one part. *)

\* In the parts about the contracts alone the indexer is away, with one
\* transaction outstanding.
NoIndexer ==
    /\ backlog = <<<<>>>>
    /\ index = [tickets |-> [t \in TokenId |-> NoTicket],
                intents |-> [i \in Intent |-> "NONE"],
                settlements |-> {}]

ChainInit ==
    \/ part = "sale" /\ SaleInit /\ NoIndexer
    \/ part = "group" /\ GroupInit /\ NoIndexer
    \/ part \in {"index", "pool"} /\ SubgraphInit

\* The index part is further behind, over one seat and at one time.
ChainNext ==
    /\ UNCHANGED part
    /\ \/ part = "sale" /\ Sale!Next /\ UNCHANGED <<backlog, index>>
       \/ part = "group" /\ GroupNext /\ UNCHANGED <<backlog, index>>
       \/ part = "index" /\ SubgraphNext /\ Range(meta') \subseteq {NoMeta, OneSeat}
       \/ part = "pool" /\ PoolNext /\ Len(backlog') <= 1

ChainSpec == ChainInit /\ [][ChainNext]_chainVars

-----------------------------------------------------------------------------
\* A settlement that passes the checks is carried out, moves money between owners
\* only, and is a step of the abstract exchange, like every other step of the
\* contracts (Settlement.sol:63-183, Escrow.sol:37-64).
SalesSettleSoundly ==
    /\ [](part = "sale" => Sale!ChecksSuffice)
    /\ [][part = "sale" /\ (\E i \in SaleIntents : state[i] = "LIVE" /\ state'[i] = "SETTLED") =>
            /\ usdc'[SettlementAddr] = usdc[SettlementAddr]
            /\ usdc'[alice] + usdc'[bob] = usdc[alice] + usdc[bob]]_chainVars
    /\ [][part = "sale" => [Sale!Exchange!Next]_(Sale!Exchange!vars)]_chainVars
    /\ [][part = "group" => [Group!Exchange!Next]_(Group!Exchange!vars)]_chainVars

=============================================================================
