---------------------------- MODULE PoolSnapshot ----------------------------
(***************************************************************************)
(* The pool that is searched and the market that is shown, both read from  *)
(* the index (src/shared/graph/snapshot.ts, src/server/market-graph.ts),   *)
(* over the indexer and the contracts.                                     *)
(***************************************************************************)
EXTENDS Subgraph

-----------------------------------------------------------------------------
(* Why a live intent is kept out of the pool: the contract's checks V1 to  *)
(* V3 over what the index knows of the tickets, in the order in which a    *)
(* reason is named.  The re-hashing of an intent is left out: in the model *)
(* an intent is its own hash.                                              *)

Reason == {"EXPIRED", "TICKET_UNKNOWN", "TICKET_REDEEMED", "TICKET_NOT_IN_ESCROW", "WRONG_EVENT"}

\* Mutated form of NotHeld: in escrow, for anybody.
NotHeldByAnybody(tickets, i, t) == ~tickets[t].escrowed

\* Custody is by the intent's owner, not by anybody.
NotHeld(tickets, i, t) == ~tickets[t].escrowed \/ tickets[t].depositor # i.owner

\* The first reason that applies, or "NONE": tickets are the index's entities.
Exclusion(tickets, timestamp, i) ==
    LET offered == Range(i.offered) IN
    IF timestamp > i.deadline THEN "EXPIRED"
    ELSE IF \E t \in offered : t \notin DOMAIN tickets \/ ~tickets[t].known THEN "TICKET_UNKNOWN"
    ELSE IF \E t \in offered : tickets[t].redeemed THEN "TICKET_REDEEMED"
    ELSE IF \E t \in offered : NotHeld(tickets, i, t) THEN "TICKET_NOT_IN_ESCROW"
    ELSE IF \E t \in offered : tickets[t].place.eventId # i.eventId THEN "WRONG_EVENT"
    ELSE "NONE"

-----------------------------------------------------------------------------
LiveInIndex == {i \in Intent : index.intents[i] = "LIVE"}

\* The timestamp of a snapshot is the time of its block.
ReasonOf(i) == Exclusion(index.tickets, now, i)

Pool == {i \in LiveInIndex : ReasonOf(i) = "NONE"}
Excluded == LiveInIndex \ Pool

\* The market shows every intent, with its state, and every ticket.
ShownState(i) == index.intents[i]
ShownDepositor(t) == index.tickets[t].depositor

\* sectionSupply: a ticket the escrow holds for somebody, unused.
InEscrow(t) ==
    /\ ~index.tickets[t].redeemed
    /\ index.tickets[t].owner = EscrowAddr /\ ShownDepositor(t) # NoOne

\* The open requests whose offerings are all in their owner's custody.
Executable(event) == {i \in Intent :
    /\ i.eventId = event /\ ShownState(i) = "LIVE" /\ i.deadline >= now
    /\ \A t \in Range(i.offered) :
          /\ t \in TokenId /\ index.tickets[t].known
          /\ index.tickets[t].place.eventId = event
          /\ InEscrow(t) /\ ShownDepositor(t) = i.owner}

\* The tickets of a section and night that the page counts as in the pool.
SectionSupply(event, session, section) ==
    {t \in UNION {Range(i.offered) : i \in Executable(event)} :
        index.tickets[t].place.session = session /\ index.tickets[t].place.section = section}

\* Time passes for the chain and, with its next block, for the index.
PoolNext ==
    \/ SubgraphNext
    \/ Tick /\ UNCHANGED <<ticketVars, escrowVars, registryVars, cashVars, backlog, index>>

PoolSpec == SubgraphInit /\ [][PoolNext]_subgraphVars

-----------------------------------------------------------------------------
\* Moved to the escrow's address by a plain transfer: nobody may withdraw it.
Stranded(t) == t \in TokenId /\ ownerOf[t] = EscrowAddr /\ depositor[t] = NoOne

(* A live intent is kept out of the pool only if settle would refuse it,   *)
(* and the reason named is a check that it fails: nothing that could be    *)
(* settled is hidden, and nobody is told of a cause that is none           *)
(* (snapshot.ts:30-43, 129-202).                                           *)
ExclusionsTrue == CaughtUp => \A i \in Excluded :
    /\ ReasonOf(i) = "EXPIRED" => now > i.deadline
    /\ ReasonOf(i) = "TICKET_UNKNOWN" => \E t \in Range(i.offered) : t \notin 0 .. nextTokenId - 1
    /\ ReasonOf(i) = "TICKET_REDEEMED" => ~OffersUnused({i})
    /\ ReasonOf(i) \in {"TICKET_NOT_IN_ESCROW", "WRONG_EVENT"} =>
          ~OffersEscrowed({i}) /\ OffersUnused({i})

(* What the pool offers to the search passes V1 to V3 on chain, unless a   *)
(* ticket was stranded in the escrow (snapshot.ts:14-16).                  *)
PoolPassesChecks == CaughtUp => \A i \in Pool :
    (\A t \in Range(i.offered) : ~Stranded(t)) =>
        IntentsLive({i}) /\ OffersEscrowed({i}) /\ OffersUnused({i})

(* The number of tickets "in pool" next to a section is what the search is  *)
(* given: no ticket is counted that the pool keeps out, and none left out, *)
(* although the page and the pool judge by different fields of the index,  *)
(* and however far the index is behind (section-supply.ts:16-26,           *)
(* snapshot.ts:129-202).                                                   *)
SupplyAgrees == \A t \in TokenId :
    LET p == index.tickets[t].place IN
    t \in SectionSupply(p.eventId, p.session, p.section) <=> \E i \in Pool : t \in Range(i.offered)

(* The market never shows an intent as open again, or as settled and       *)
(* revoked, however far it is behind (market-graph.ts:144-162).            *)
ShownLifecycle == [][\A i \in Intent : ShownState(i) # ShownState(i)' =>
    <<ShownState(i), ShownState(i)'>> \in
        {<<"NONE", "LIVE">>, <<"LIVE", "REVOKED">>, <<"LIVE", "SETTLED">>}]_subgraphVars

(* The four together: the market shows each intent where the contracts      *)
(* would have it, in the pool if they would take it, excluded for the      *)
(* reason they would name, and never open again (snapshot.ts:14-43,        *)
(* 129-202, section-supply.ts:16-26, market-graph.ts:144-162).             *)
MarketFaithful == [](ExclusionsTrue /\ PoolPassesChecks /\ SupplyAgrees) /\ ShownLifecycle

=============================================================================
