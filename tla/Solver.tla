------------------------------- MODULE Solver -------------------------------
(***************************************************************************)
(* The solver service: src/server/solve.ts reads the contracts' state at   *)
(* one block, src/solver searches it for settlements, the best one is      *)
(* simulated at a later block and offered to whoever wants to submit it.   *)
(* Composed with the contracts, which go on changing meanwhile.            *)
(*                                                                         *)
(* Order that only the clock or the hashing decides is left open: which    *)
(* subsets of one size come first, which assignments a full list keeps,    *)
(* and when the time is up.                                                *)
(***************************************************************************)
EXTENDS Settlement, SequencesExt

CONSTANTS
    Requested,        \* the discovered intents, in the order of their hashes
    Required,         \* the intent a personal search must include, as a set
    MaxParticipants,  \* configuration: the largest settlement looked for
    MaxCandidates,    \* configuration: the search stops at this many
    MaxAssignments    \* assignments kept for one subset of intents

\* Less USDC exists than an int256 can hold.
SolverAssumption ==
    /\ SumFunctionOnSet(Funds, User) <= MaxInt
    /\ Requested \in Seq(Intent)
    /\ \A m, n \in DOMAIN Requested : m # n => Requested[m] # Requested[n]
    /\ Required \subseteq Range(Requested) /\ Cardinality(Required) <= 1
    /\ {MaxParticipants, MaxCandidates, MaxAssignments} \subseteq Nat \ {0}

\* Longer offers and wishes are excluded by name before the search.
MaxTicketsPerIntent == 4

VARIABLES
    view,         \* what this search has read, all at one block
    todo,         \* subsets of intents not looked at yet
    found,        \* candidates: settlements that validate on the view
    termination,  \* "idle", "running", or why the search ended
    proposal      \* the chosen candidates that simulated: at most one

searchVars == <<view, todo, found, termination, proposal>>
solverVars == <<vars, searchVars>>

ChainState == [depositor |-> depositor, meta |-> meta, redeemed |-> redeemed,
               state |-> state, usdc |-> usdc, allowance |-> allowance, now |-> now]

\* Before the read and after the answer.
NoView == [depositor |-> <<>>, meta |-> <<>>, redeemed |-> {},
           state |-> <<>>, usdc |-> <<>>, allowance |-> <<>>, now |-> 0]

SearchInit ==
    /\ view = NoView
    /\ todo = {}
    /\ found = {}
    /\ termination = "idle"
    /\ proposal = {}

-----------------------------------------------------------------------------
(* Which intents can take part at all, on the view v. *)

Live(v) ==
    {i \in Range(Requested) :
        /\ Len(i.offered) <= MaxTicketsPerIntent /\ i.exactCount <= MaxTicketsPerIntent
        /\ v.state[i] = "LIVE"
        /\ v.now <= i.deadline}

Supply(P) == (UNION {Range(i.offered) : i \in P}) \cap TokenId

Eligible(v, i, t) ==
    /\ v.meta[t].eventId = i.eventId
    /\ v.meta[t].session \in i.sessionMask
    /\ v.meta[t].section \in i.sectionMask

OfferStands(v, i) ==
    \A t \in Range(i.offered) :
        /\ t \in TokenId
        /\ v.depositor[t] = i.owner
        /\ v.meta[t].eventId = i.eventId
        /\ t \notin v.redeemed

\* Mutated form of CanBeServed: its own tickets are not counted.
CanBeServedByOthers(v, i, P) ==
    Cardinality({t \in Supply(P \ {i}) : Eligible(v, i, t)}) >= i.exactCount

\* Enough of what P offers is acceptable to i.
CanBeServed(v, i, P) == Cardinality({t \in Supply(P) : Eligible(v, i, t)}) >= i.exactCount

\* Impossible requests are removed, and with them their supply, until none is.
Searchable(v) ==
    LET rounds[n \in 0 .. Len(Requested)] ==
            IF n = 0 THEN Live(v)
            ELSE {i \in rounds[n - 1] : OfferStands(v, i) /\ CanBeServed(v, i, rounds[n - 1])}
    IN  rounds[Len(Requested)]

Subsets(v) ==
    {P \in SUBSET Searchable(v) :
        Required \subseteq P /\ Cardinality(P) \in 2 .. MaxParticipants}

-----------------------------------------------------------------------------
(* Payments: what payees insist on, collected from the others in order. *)

\* The required intent is held in front of the rest.
Before(k, i) ==
    IF Required \cap {k, i} = {}
    THEN \E m, n \in DOMAIN Requested : m < n /\ Requested[m] = k /\ Requested[n] = i
    ELSE k \in Required /\ i \notin Required

Limit(P) == [i \in P |-> i.maxNetPay]
Payees(P) == {i \in P : i.maxNetPay < 0}
Demand(P) == -SumFunctionOnSet(Limit(P), Payees(P))

PaymentsExist(P) == SumFunctionOnSet(Limit(P), P \ Payees(P)) >= Demand(P)

Payments(P) ==
    LET open(i) == Demand(P) -
            SumFunctionOnSet(Limit(P), {k \in P \ Payees(P) : Before(k, i)})
    IN  [i \in P |-> IF i \in Payees(P) THEN i.maxNetPay
                     ELSE Max({0, Min({open(i), i.maxNetPay})})]

Gross(net) == SumFunctionOnSet(net, {i \in DOMAIN net : net[i] > 0})

-----------------------------------------------------------------------------
(* Assignments: everything the subset offers, to those who accept it. *)

Adjoining(v, S) ==
    LET place(t) == <<v.meta[t].session, v.meta[t].section, v.meta[t].row>>
        seats == {v.meta[t].seat : t \in S}
    IN  /\ Cardinality({place(t) : t \in S}) <= 1
        /\ Cardinality(seats) = Cardinality(S)
        /\ \A a, b \in seats : a - b < Cardinality(S)

Accepts(v, i, S) ==
    /\ Cardinality(S) = i.exactCount
    /\ \A t \in S : Eligible(v, i, t)
    /\ i.mustShareSession => Cardinality({v.meta[t].session : t \in S}) <= 1
    /\ i.mustShareSection => Cardinality({v.meta[t].section : t \in S}) <= 1
    /\ i.mustBeAdjacent => Adjoining(v, S)

OffererOf(P, t) == (CHOOSE i \in P : t \in Range(i.offered)).owner

\* Some ticket changes hands; the required owner's, when there is one.
ChangesOwnership(P, to) ==
    \E i \in P : \E t \in to[i] :
        /\ OffererOf(P, t) # i.owner
        /\ \A r \in Required : r.owner \in {OffererOf(P, t), i.owner}

\* Every ticket somebody offers goes to exactly one of them.
Assignments(v, P) ==
    {to \in [P -> SUBSET Supply(P)] :
        /\ \A i \in P : Accepts(v, i, to[i])
        /\ \A i, k \in P : i # k => to[i] \cap to[k] = {}
        /\ UNION Range(to) = Supply(P)
        /\ ChangesOwnership(P, to)}

\* The subsets discarded before anything is assigned.
WorthAssigning(P) ==
    /\ Cardinality({i.owner : i \in P}) >= 2
    /\ SumFunctionOnSet([i \in P |-> Len(i.offered)], P)
            = SumFunctionOnSet([i \in P |-> i.exactCount], P)
    /\ SumFunctionOnSet([i \in P |-> Len(i.offered)], P) = Cardinality(Supply(P))
    /\ PaymentsExist(P)

-----------------------------------------------------------------------------
(* validateSettlement: the contract's checks once more, on the view. *)

HasFunds(v, P, net, u) ==
    LET owed == SumFunctionOnSet(net, {i \in P : i.owner = u})
    IN  owed > 0 => v.usdc[u] >= owed /\ v.allowance[u] >= owed

\* Mutated form of Validates: without V8.
ValidatesUnpaid(v, P, to, net) ==
    /\ \A i \in P : v.state[i] = "LIVE" /\ v.now <= i.deadline
    /\ \A i \in P : OfferStands(v, i) /\ Accepts(v, i, to[i]) /\ net[i] <= i.maxNetPay
    /\ SumFunctionOnSet(net, P) = 0

\* V4 is in the shape of an assignment; the legs name the intents' own hashes.
Validates(v, P, to, net) ==
    /\ \A i \in P : v.state[i] = "LIVE" /\ v.now <= i.deadline
    /\ \A i \in P : OfferStands(v, i) /\ Accepts(v, i, to[i]) /\ net[i] <= i.maxNetPay
    /\ SumFunctionOnSet(net, P) = 0
    /\ \A u \in {i.owner : i \in P} : HasFunds(v, P, net, u)

Candidate(P, to) ==
    [intents |-> P, receives |-> [i \in P |-> SetToSeq(to[i])], net |-> Payments(P)]

\* The candidates of one subset, from the assignments that were listed.
CandidatesOf(v, P, listed) ==
    {Candidate(P, to) : to \in {a \in listed : Validates(v, P, a, Payments(P))}}

-----------------------------------------------------------------------------
\* Everything is read at one block, then the search begins.
ReadState ==
    /\ termination = "idle"
    /\ view' = ChainState
    /\ todo' = Subsets(view')
    /\ termination' = "running"
    /\ UNCHANGED <<found, proposal>>

\* The order of the combinations, and of two lists of hashes.
Precedes(P, Q) ==
    LET first(S) == CHOOSE i \in S : \A k \in S \ {i} : Before(i, k)
    IN  \/ Cardinality(P) < Cardinality(Q)
        \/ Cardinality(P) = Cardinality(Q) /\ P # Q
           /\ first((P \ Q) \cup (Q \ P)) \in P

Room == MaxCandidates - Cardinality(found)

\* The next subset, while there is room for candidates.
Examine(P) ==
    /\ termination = "running"
    /\ Room > 0
    /\ \A Q \in todo \ {P} : Precedes(P, Q)
    /\ todo' = todo \ {P}
    /\ LET all == IF WorthAssigning(P) THEN Assignments(view, P) ELSE {}
       IN  \E listed \in kSubset(Min({Cardinality(all), MaxAssignments}), all) :
            LET new == CandidatesOf(view, P, listed)
            IN  \E kept \in kSubset(Min({Cardinality(new), Room}), new) :
                    found' = found \cup kept
    /\ UNCHANGED <<view, termination, proposal>>

\* The time is up: between two subsets, or with a part of one's assignments.
TimeOut ==
    /\ termination = "running"
    /\ termination' = "timeout"
    /\ todo' = {}
    /\ \/ found' = found
       \/ \E P \in todo :
            /\ \A Q \in todo \ {P} : Precedes(P, Q)
            /\ WorthAssigning(P)
            /\ \E kept \in SUBSET CandidatesOf(view, P, Assignments(view, P)) :
                /\ Cardinality(kept) <= Min({MaxAssignments, Room})
                /\ found' = found \cup kept
    /\ UNCHANGED <<view, proposal>>

Finish ==
    /\ termination = "running"
    /\ todo = {} \/ Room = 0
    /\ termination' = IF Room = 0 THEN "candidate-limit" ELSE "complete"
    /\ todo' = {}
    /\ UNCHANGED <<view, found, proposal>>

\* Less cash moved, then fewer participants, then the smaller list of hashes.
Outranks(c, d) ==
    \/ Gross(c.net) < Gross(d.net)
    \/ Gross(c.net) = Gross(d.net) /\ Precedes(c.intents, d.intents)

Chosen == {c \in found : ~ \E d \in found : Outranks(d, c)}

\* settle is simulated on the chain as it is by then; a failure offers nothing.
Passes(c) ==
    /\ IntentsLive(c.intents)
    /\ OffersEscrowed(c.intents)
    /\ OffersUnused(c.intents)
    /\ Conserves(c.intents, c.receives)
    /\ \A i \in c.intents : Satisfies(i, c.receives[i])
    /\ WithinBudget(c.intents, c.net)
    /\ Balanced(c.intents, c.net)
    /\ CanPay(c.intents, c.net)

Simulate ==
    /\ termination \in {"complete", "timeout", "candidate-limit"}
    /\ \/ found = {} /\ proposal' = {}
       \/ \E c \in Chosen : proposal' = IF Passes(c) THEN {c} ELSE {}
    /\ termination' = "idle"
    /\ view' = NoView
    /\ found' = {}
    /\ UNCHANGED todo

\* Anybody sends the offered transaction, at any later time.
Submit ==
    /\ \E c \in proposal : Passes(c) /\ Execute(c.intents, c.receives, c.net)
    /\ UNCHANGED searchVars

SearchStep == ReadState \/ (\E P \in todo : Examine(P)) \/ TimeOut \/ Finish \/ Simulate

SolverNext ==
    \/ SearchStep /\ UNCHANGED vars
    \/ Submit
    \/ Next /\ UNCHANGED searchVars

SolverInit == Init /\ SearchInit
SolverSpec == SolverInit /\ [][SolverNext]_solverVars

-----------------------------------------------------------------------------
SolverTypeOK ==
    /\ todo \subseteq SUBSET Range(Requested)
    /\ termination \in {"idle", "running", "complete", "timeout", "candidate-limit"}
    /\ Cardinality(found) <= MaxCandidates
    /\ Cardinality(proposal) <= 1

\* The contract as it would judge at the block that was read.
AtView == INSTANCE Settlement WITH
    depositor <- view.depositor, meta <- view.meta, redeemed <- view.redeemed,
    state <- view.state, usdc <- view.usdc, allowance <- view.allowance, now <- view.now

ExchangesAtView(P, receives) ==
    /\ AtView!IntentsLive(P)
    /\ AtView!OffersEscrowed(P)
    /\ AtView!OffersUnused(P)
    /\ AtView!Conserves(P, receives)
    /\ \A i \in P : AtView!Satisfies(i, receives[i])

PaysAtView(P, net) ==
    AtView!WithinBudget(P, net) /\ AtView!Balanced(P, net) /\ AtView!CanPay(P, net)

(* What the solver proposes, the contract accepts: two implementations of  *)
(* one list of checks, in TypeScript over what was read (validate.ts:12)   *)
(* and in Solidity over the state itself (Settlement.sol:86), agree on     *)
(* every candidate at the block of the read.                               *)
CandidatesExecutable ==
    \A c \in found :
        ExchangesAtView(c.intents, c.receives) /\ PaysAtView(c.intents, c.net)

\* Every owner could pay all the limits it signed in P.
Solvent(P) ==
    \A i \in P : \A x \in {view.usdc[i.owner], view.allowance[i.owner]} :
        x >= SumFunctionOnSet(Limit(P), {k \in P \ Payees(P) : k.owner = i.owner})

\* Payments of the settlements that the contract would take and that hand a
\* ticket on, by definition: any bundles, any payments, none of the search's
\* own rules.
Reachable ==
    LET exchanges(P) == {to \in [P -> SUBSET Supply(P)] :
            /\ \A i \in P : Cardinality(to[i]) = i.exactCount
            /\ ExchangesAtView(P, [i \in P |-> SetToSeq(to[i])])
            /\ ChangesOwnership(P, to)}
        deals == {P \in SUBSET Range(Requested) :
            /\ Required \subseteq P
            /\ Cardinality(P) \in 2 .. MaxParticipants
            /\ Solvent(P)
            /\ AtView!IntentsLive(P) /\ AtView!OffersEscrowed(P)
            /\ exchanges(P) # {}}
    IN  UNION {{n \in [P -> NetPayment] : PaysAtView(P, n)} : P \in deals}

(* "complete" means it: when a search ends so, no settlement that solvent  *)
(* owners could make at the block of the read moves less cash than the     *)
(* chosen one, and if none was found there is none.                        *)
(* Neither the pruning of the pool (search.ts:59-79), nor the subsets      *)
(* discarded before assignment (101-126), nor the greedy payments          *)
(* (174-207) lose one.  Owners short of cash are left out: greedy payments *)
(* may ask more of one payer than it has and less of another.              *)
LeastCash ==
    termination = "complete" =>
        \A net \in Reachable : \E c \in Chosen : Gross(c.net) <= Gross(net)

\* A participant of c withdraws, revokes, lowers an allowance, pays elsewhere or
\* has an intent of its own settled; or the clock moves.
OwnDoing(c) ==
    \/ now' # now
    \/ \E k \in c.intents :
        \/ \E ids \in (SUBSET TokenId) \ {{}} : Withdraw(k.owner, ids)
        \/ \E i \in Intent :
            /\ i.owner = k.owner
            /\ state'[i] # state[i]
            /\ state'[i] = "SETTLED" \/ Revoke(k.owner, i)
        \/ allowance'[k.owner] < allowance[k.owner]
        \/ \E a \in User \cup {SettlementAddr}, x \in Amount \ {0} : PayUsdc(k.owner, a, x)

(* A proposal is only ever stale through its own participants: once it     *)
(* passes, only what they do or the clock can make the contract refuse it  *)
(* (solve.ts:123-134; a deposited ticket cannot be sold on or redeemed).   *)
NobodyElseBreaksIt ==
    [][\A c \in proposal :
        c \in proposal' /\ Passes(c) /\ ~ Passes(c)' => OwnDoing(c)]_solverVars

=============================================================================
