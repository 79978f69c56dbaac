----------------------------- MODULE Settlement -----------------------------
(***************************************************************************)
(* The atomic swap of src/src/Settlement.sol, composed with the token, the *)
(* escrow, the registry and the USDC balances it moves.  Anyone proposes a *)
(* set of intents with a leg for each; the contract checks V0 to V8 on the *)
(* chain's current state and then executes all legs, or reverts.           *)
(*                                                                         *)
(* A step of this module is a transaction, or a wallet signature, or a     *)
(* block that advances the time.  settle is nonReentrant and every account *)
(* it pays or hands a ticket to has signed with a key, so no foreign code  *)
(* runs inside a step.                                                     *)
(***************************************************************************)
EXTENDS Escrow, IntentRegistry, FiniteSets, Functions

CONSTANTS
    Funds,        \* user -> the USDC it starts with
    Amount,       \* bound: the sums users approve and transfer
    NetPayment,   \* bound: the signed payments a proposer may put in a leg
    MaxBundle,    \* bound: the longest receives list a proposer may write
    MaxInt,       \* the largest int256
    MaxTime       \* bound: the last block time

Int256 == -MaxInt - 1 .. MaxInt

ASSUME SettlementAssumption ==
    /\ Funds \in [User -> Nat]
    /\ Amount \subseteq Nat
    /\ NetPayment \subseteq Int256
    /\ MaxInt \in Nat
    /\ MaxTime \in Nat
    /\ MaxBundle \in Nat

\* Addresses and intent hashes have a width, so there are finitely many.
ASSUME FiniteAssumption == IsFiniteSet(User) /\ IsFiniteSet(Intent)

Bundle == UNION {[1 .. n -> TokenId] : n \in 0 .. MaxBundle}

VARIABLES
    usdc,        \* USDC balances of the users and of the settlement contract
    allowance,   \* what each user lets the settlement contract pull
    now          \* block.timestamp

cashVars == <<usdc, allowance>>
vars == <<ticketVars, escrowVars, registryVars, cashVars, now>>

TypeOK ==
    /\ TicketTypeOK
    /\ EscrowTypeOK
    /\ RegistryTypeOK
    /\ usdc \in [User \cup {SettlementAddr} -> Nat]
    /\ allowance \in [User -> Nat]
    /\ now \in 0 .. MaxTime

Init ==
    /\ TicketInit
    /\ EscrowInit
    /\ RegistryInit
    /\ usdc = [a \in User \cup {SettlementAddr} |-> IF a \in User THEN Funds[a] ELSE 0]
    /\ allowance = [u \in User |-> 0]
    /\ now = 0

-----------------------------------------------------------------------------
(* The checks of settle, in the order of the code.  P is the set of        *)
(* intents; receives and net give each intent its leg.                     *)

\* Mutated form of IntentsLive: known to the registry, in whatever state.
IntentsKnown(P) == \A i \in P : state[i] # "NONE" /\ now <= i.deadline

\* V1: registered, not revoked, not settled, not past its deadline.
IntentsLive(P) == \A i \in P : state[i] = "LIVE" /\ now <= i.deadline

\* Mutated form of OffersEscrowed: in escrow, for anybody.
OffersInEscrow(P) ==
    \A i \in P : \A t \in Range(i.offered) :
        /\ t \in TokenId
        /\ depositor[t] # NoOne
        /\ meta[t].eventId = i.eventId

\* V2: what an intent offers is in escrow for its owner, for the same event.
OffersEscrowed(P) ==
    \A i \in P : \A t \in Range(i.offered) :
        /\ t \in TokenId
        /\ depositor[t] = i.owner
        /\ meta[t].eventId = i.eventId

\* V3: no offered ticket has been used.
OffersUnused(P) == \A i \in P : Range(i.offered) \cap redeemed = {}

\* V4: the offered and the received tickets are the same, each exactly once.
NoTicketTwice(P, bundle) ==
    \A i, k \in P : \A j \in DOMAIN bundle[i], l \in DOMAIN bundle[k] :
        bundle[i][j] = bundle[k][l] => i = k /\ j = l

TicketsIn(P, bundle) == UNION {Range(bundle[i]) : i \in P}

Offered(P) == [i \in P |-> i.offered]

Conserves(P, receives) ==
    /\ NoTicketTwice(P, Offered(P))
    /\ NoTicketTwice(P, receives)
    /\ TicketsIn(P, Offered(P)) = TicketsIn(P, receives)

\* V5, adjacency: one row of one section of one session, consecutive seats.
Adjacent(bundle) ==
    LET place(t) == <<meta[t].session, meta[t].section, meta[t].row>>
        seats == {meta[t].seat : t \in Range(bundle)}
    IN  /\ \A t \in Range(bundle) : place(t) = place(bundle[1])
        /\ \E first \in seats : seats = first .. first + Len(bundle) - 1

\* V5: the count, and unless the intent wants no ticket at all, its predicate.
Satisfies(i, bundle) ==
    /\ Len(bundle) = i.exactCount
    /\ i.exactCount # 0 =>
        /\ \A t \in Range(bundle) :
            /\ meta[t].eventId = i.eventId
            /\ meta[t].session \in i.sessionMask
            /\ meta[t].section \in i.sectionMask
            /\ i.mustShareSession => meta[t].session = meta[bundle[1]].session
            /\ i.mustShareSection => meta[t].section = meta[bundle[1]].section
        /\ i.mustBeAdjacent => Adjacent(bundle)

\* Mutated form of WithinBudget: the limit forgotten for who receives money.
PayersWithinBudget(P, net) == \A i \in P : net[i] > 0 => net[i] <= i.maxNetPay

\* V6 and V7: nobody above its limit, and the payments cancel out.
WithinBudget(P, net) == \A i \in P : net[i] <= i.maxNetPay

Balanced(P, net) == SumFunctionOnSet(net, P) = 0

\* What an owner pays over all its intents of the settlement, in checked
\* int256 arithmetic: a sum out of range reverts.
OwnerNet(P, net, u) == SumFunctionOnSet(net, {i \in P : i.owner = u})

\* V8: an owner that pays on balance has the balance and the allowance.
CanPay(P, net) ==
    \A u \in User :
        /\ OwnerNet(P, net, u) \in Int256
        /\ OwnerNet(P, net, u) > 0 =>
            usdc[u] >= OwnerNet(P, net, u) /\ allowance[u] >= OwnerNet(P, net, u)

-----------------------------------------------------------------------------
\* What the pulls bring into the contract and the pushes do not take out again.
Gathered(P, net) == SumFunctionOnSet([u \in User |-> OwnerNet(P, net, u)], User)

\* What the ERC-20 itself insists on in those transfers: balances and allowances
\* for the pulls, and what the pulls brought in for the pushes.
Payable(P, net) ==
    /\ \A u \in User : OwnerNet(P, net, u) > 0 =>
        usdc[u] >= OwnerNet(P, net, u) /\ allowance[u] >= OwnerNet(P, net, u)
    /\ usdc[SettlementAddr] + Gathered(P, net) \in Nat

\* Pull the debits into the contract, then push the credits out of it.
MovePayments(P, net) ==
    /\ Payable(P, net)
    /\ usdc' = [a \in User \cup {SettlementAddr} |->
                   IF a \in User THEN usdc[a] - OwnerNet(P, net, a)
                                 ELSE usdc[a] + Gathered(P, net)]
    /\ allowance' = [u \in User |->
                        IF OwnerNet(P, net, u) > 0 THEN allowance[u] - OwnerNet(P, net, u)
                                                   ELSE allowance[u]]

\* Every received ticket, with the owner of the intent whose leg receives it.
Recipients(P, receives) ==
    [t \in TicketsIn(P, receives) |->
        (CHOOSE i \in P : t \in Range(receives[i])).owner]

Execute(P, receives, net) ==
    /\ MarkSettled(P)
    /\ MovePayments(P, net)
    /\ ReleaseBatch(Recipients(P, receives))
    /\ UNCHANGED now

\* settle: any proposer, any proposal, every check against the chain's state at
\* execution, then all legs.  V0 is in the shape of the inputs: a non-empty set
\* has no duplicate hash, and receives and net have one leg for each intent.
Settle ==
    \E P \in (SUBSET Intent) \ {{}} :
        /\ IntentsLive(P)
        /\ OffersEscrowed(P)
        /\ OffersUnused(P)
        /\ \E receives \in [P -> Bundle] :
            /\ Conserves(P, receives)
            /\ \A i \in P : Satisfies(i, receives[i])
            /\ \E net \in [P -> NetPayment] :
                /\ WithinBudget(P, net)
                /\ Balanced(P, net)
                /\ CanPay(P, net)
                /\ Execute(P, receives, net)

-----------------------------------------------------------------------------
\* USDC, an external ERC-20: a user changes what settle may pull, or pays
\* somebody, the settlement contract included.
Approve(u, x) ==
    /\ allowance' = [allowance EXCEPT ![u] = x]
    /\ UNCHANGED usdc

PayUsdc(u, a, x) ==
    /\ u # a
    /\ usdc[u] >= x
    /\ usdc' = [usdc EXCEPT ![u] = @ - x, ![a] = @ + x]
    /\ UNCHANGED allowance

Tick ==
    /\ now < MaxTime
    /\ now' = now + 1

TicketStep ==
    /\ \/ \E to \in Account, m \in MintInput : Mint(to, m)
       \/ \E u \in User, t \in TokenId : Redeem(u, t)
       \/ \E u \in User, to \in Account, t \in TokenId : TransferFrom(u, to, t)
    /\ UNCHANGED <<escrowVars, registryVars, cashVars, now>>

EscrowStep ==
    /\ \E u \in User, ids \in (SUBSET TokenId) \ {{}} : Deposit(u, ids) \/ Withdraw(u, ids)
    /\ UNCHANGED <<registryVars, cashVars, now>>

RegistryStep ==
    /\ \/ \E i \in Intent : Sign(i) \/ Commit(i)
       \/ \E u \in User, i \in Intent : Revoke(u, i)
    /\ UNCHANGED <<ticketVars, escrowVars, cashVars, now>>

CashStep ==
    /\ \/ \E u \in User, x \in Amount : Approve(u, x)
       \/ \E u \in User, a \in User \cup {SettlementAddr}, x \in Amount : PayUsdc(u, a, x)
    /\ UNCHANGED <<ticketVars, escrowVars, registryVars, now>>

TimeStep == Tick /\ UNCHANGED <<ticketVars, escrowVars, registryVars, cashVars>>

Next == TicketStep \/ EscrowStep \/ RegistryStep \/ CashStep \/ TimeStep \/ Settle

(* The checks are enough: a proposal that passes V0 to V8 never reverts    *)
(* while it executes.  Every ticket it hands over is really held by the    *)
(* escrow and every pull and push is covered, so what the solver simulates *)
(* by running the checks alone is what the chain does                      *)
(* (Settlement.sol:66-153 against 155-179).                                *)
ChecksSuffice ==
    \A P \in (SUBSET Intent) \ {{}} :
        IntentsLive(P) /\ OffersEscrowed(P) /\ OffersUnused(P) =>
            \A receives \in [P -> Bundle] :
                Conserves(P, receives) /\ (\A i \in P : Satisfies(i, receives[i])) =>
                    /\ \A t \in TicketsIn(P, receives) : ownerOf[t] = EscrowAddr
                    /\ \A net \in [P -> NetPayment] :
                        WithinBudget(P, net) /\ Balanced(P, net) /\ CanPay(P, net) =>
                            Payable(P, net)

Spec == Init /\ [][Next]_vars

-----------------------------------------------------------------------------
(* The refinement mapping to the abstract exchange: a deposited ticket is  *)
(* still its depositor's.                                                  *)

\* Whose a ticket is: its depositor's while it is in escrow.
Holder == [t \in TokenId |-> IF depositor[t] # NoOne THEN depositor[t] ELSE ownerOf[t]]

Purse == [u \in User |-> usdc[u]]

Exchange == INSTANCE TicketExchange WITH
    Ticket <- TokenId, Place <- TicketMeta,
    holder <- Holder, place <- meta, used <- redeemed,
    cash <- Purse, offer <- state, clock <- now

(* The four contracts together are the marketplace: every transaction is a *)
(* step of the abstract exchange or changes nothing in it.  In particular  *)
(* a ticket leaves its holder only by the holder's own hand or as part of  *)
(* a live, unexpired offer of the holder that is fulfilled in that very    *)
(* step, with tickets the offer asks for and at no more than its limit     *)
(* (Settlement.sol:63-183, Escrow.sol:37-64).                              *)
ImplementsExchange == Exchange!Spec

(* The same for runs that start from a later state of the contracts: every *)
(* step is a step of the abstract exchange or changes nothing in it.       *)
ExchangeSteps == [][Exchange!Next]_(Exchange!vars)

(* The settlement contract is a conduit: in a step that settles intents it *)
(* neither keeps nor loses USDC, and the users together keep what they had *)
(* (the pulls and pushes of Settlement.sol:155-172 over per-owner sums).   *)
SettlementKeepsNothing ==
    [][(\E i \in Intent : state[i] = "LIVE" /\ state'[i] = "SETTLED") =>
        /\ usdc'[SettlementAddr] = usdc[SettlementAddr]
        /\ SumFunctionOnSet(usdc', User) = SumFunctionOnSet(usdc, User)]_vars

(* The swap as its users need it: what passes the checks is carried out,   *)
(* the money only moves between owners, and every transaction of the four  *)
(* contracts is an exchange of the marketplace or invisible in it          *)
(* (Settlement.sol:63-183, Escrow.sol:37-64).                              *)
SettlesSoundly == []ChecksSuffice /\ SettlementKeepsNothing /\ ExchangeSteps

=============================================================================
