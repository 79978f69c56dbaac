------------------------------ MODULE Subgraph ------------------------------
(***************************************************************************)
(* The indexer of src/subgraph: event handlers that rebuild the contracts' *)
(* state from their logs.  Composed with the contracts: a transaction that *)
(* changes them appends what it emits to the backlog, and the indexer      *)
(* works through the backlog one transaction at a time, any time later.    *)
(* Reads of the subgraph see whole transactions.                           *)
(***************************************************************************)
EXTENDS Settlement, SequencesExt

CONSTANT MaxBacklog   \* bound: transactions the indexer is behind

VARIABLES
    backlog,   \* the events of each transaction not indexed yet
    index      \* the entities: tickets, intents, settlements

subgraphVars == <<vars, backlog, index>>

\* Ticket.load(...) of a token the index does not have.
NoTicket == [owner |-> NoOne, place |-> NoMeta, escrowed |-> FALSE,
             depositor |-> NoOne, redeemed |-> FALSE, known |-> FALSE]

SubgraphInit ==
    /\ Init
    /\ backlog = <<>>
    /\ index = [tickets |-> [t \in TokenId |-> NoTicket],
                intents |-> [i \in Intent |-> "NONE"],
                settlements |-> {}]

-----------------------------------------------------------------------------
(* The handlers, each from the entities and one event to the entities. *)

HandleTicketMinted(x, e) ==
    [x EXCEPT !.tickets[e.token] = [NoTicket EXCEPT
        !.owner = e.to, !.place = e.place, !.known = TRUE]]

\* A transfer into the escrow is taken for a deposit, one out of it ends custody.
\* The ticket is loaded, or a placeholder made: NoTicket has its zeroes.
HandleTransfer(x, e) ==
    LET ticket == x.tickets[e.token]
    IN  IF e.from = NoOne THEN x
        ELSE [x EXCEPT !.tickets[e.token] = [ticket EXCEPT
                !.owner = e.to,
                !.known = TRUE,
                !.escrowed = e.to = EscrowAddr \/ (ticket.escrowed /\ e.from # EscrowAddr),
                !.depositor = IF e.to = EscrowAddr THEN e.from
                              ELSE IF e.from = EscrowAddr THEN NoOne
                              ELSE ticket.depositor]]

HandleTicketRedeemed(x, e) ==
    [x EXCEPT !.tickets[e.token] = [@ EXCEPT !.redeemed = TRUE, !.known = TRUE]]

HandleIntentCommitted(x, e) == [x EXCEPT !.intents[e.intent] = "LIVE"]

\* A revocation of an intent the index does not know is skipped.
HandleIntentRevoked(x, e) ==
    [x EXCEPT !.intents[e.intent] = IF @ = "NONE" THEN @ ELSE "REVOKED"]

\* Mutated form of HandleSettled: the first intent of the array only.
HandleSettledFirst(x, e) ==
    [x EXCEPT
        !.intents = [i \in Intent |->
            IF i = (CHOOSE k \in e.intents : TRUE) /\ x.intents[i] # "NONE"
            THEN "SETTLED" ELSE x.intents[i]],
        !.settlements = @ \cup {e.intents}]

\* Every known intent of the settlement closes, and one settlement is recorded.
HandleSettled(x, e) ==
    [x EXCEPT
        !.intents = [i \in Intent |->
            IF i \in e.intents /\ x.intents[i] # "NONE" THEN "SETTLED" ELSE x.intents[i]],
        !.settlements = @ \cup {e.intents}]

Handle(x, e) ==
    CASE e.type = "TicketMinted" -> HandleTicketMinted(x, e)
      [] e.type = "Transfer" -> HandleTransfer(x, e)
      [] e.type = "TicketRedeemedEvt" -> HandleTicketRedeemed(x, e)
      [] e.type = "IntentCommitted" -> HandleIntentCommitted(x, e)
      [] e.type = "IntentRevoked" -> HandleIntentRevoked(x, e)
      [] e.type = "Settled" -> HandleSettled(x, e)

\* The handlers run in log order over the next transaction.
Index ==
    /\ backlog # <<>>
    /\ index' = FoldLeft(Handle, index, Head(backlog))
    /\ backlog' = Tail(backlog)
    /\ UNCHANGED vars

-----------------------------------------------------------------------------
(* What the contracts' transactions emit, in log order. *)

Transfer(from, to, t) == [type |-> "Transfer", from |-> from, to |-> to, token |-> t]

\* One Transfer for each token of a batch.
Transfers(ids) == [n \in 1 .. Cardinality(ids) |->
    LET t == SetToSeq(ids)[n] IN Transfer(ownerOf[t], ownerOf'[t], t)]

Emit(events) ==
    /\ Len(backlog) < MaxBacklog
    /\ backlog' = Append(backlog, events)
    /\ UNCHANGED index

MintTx(to, m) ==
    /\ Mint(to, m)
    /\ Emit(<<Transfer(NoOne, to, nextTokenId),
              [type |-> "TicketMinted", token |-> nextTokenId, to |-> to, place |-> m]>>)

RedeemTx(u, t) ==
    /\ Redeem(u, t)
    /\ Emit(<<[type |-> "TicketRedeemedEvt", token |-> t]>>)

TransferTx(u, to, t) == TransferFrom(u, to, t) /\ Emit(<<Transfer(u, to, t)>>)

BatchTx(u, ids) == (Deposit(u, ids) \/ Withdraw(u, ids)) /\ Emit(Transfers(ids))

CommitTx(i) == Commit(i) /\ Emit(<<[type |-> "IntentCommitted", intent |-> i]>>)

RevokeTx(u, i) == Revoke(u, i) /\ Emit(<<[type |-> "IntentRevoked", intent |-> i]>>)

\* Releases first, then Settled; marking the intents emits nothing.
SettleTx ==
    /\ Settle
    /\ LET moved == {t \in TokenId : ownerOf'[t] # ownerOf[t]}
           done == {i \in Intent : state'[i] # state[i]}
       IN  Emit(Append(Transfers(moved), [type |-> "Settled", intents |-> done]))

SubgraphNext ==
    \/ /\ \/ \E to \in Account, m \in MintInput : MintTx(to, m)
          \/ \E u \in User, t \in TokenId : RedeemTx(u, t)
          \/ \E u \in User, to \in Account, t \in TokenId : TransferTx(u, to, t)
       /\ UNCHANGED <<escrowVars, registryVars, cashVars, now>>
    \/ /\ \E u \in User, ids \in (SUBSET TokenId) \ {{}} : BatchTx(u, ids)
       /\ UNCHANGED <<registryVars, cashVars, now>>
    \/ /\ \/ \E i \in Intent : CommitTx(i)
          \/ \E u \in User, i \in Intent : RevokeTx(u, i)
       /\ UNCHANGED <<ticketVars, escrowVars, cashVars, now>>
    \/ /\ \E i \in Intent : Sign(i)
       /\ UNCHANGED <<ticketVars, escrowVars, cashVars, now, backlog, index>>
    \/ SettleTx
    \/ Index

SubgraphSpec == SubgraphInit /\ [][SubgraphNext]_subgraphVars

-----------------------------------------------------------------------------
CaughtUp == backlog = <<>>

SubgraphTypeOK ==
    /\ index.tickets \in [TokenId -> [owner : Account \cup {NoOne}, place : TicketMeta,
          escrowed : BOOLEAN, depositor : User \cup {NoOne}, redeemed : BOOLEAN,
          known : BOOLEAN]]
    /\ index.intents \in [Intent -> RegistryState]
    /\ index.settlements \subseteq SUBSET Intent

(* A subgraph that has caught up tells of every ticket where it is, what   *)
(* it is and whether it was used, and of every intent the state of the     *)
(* registry, though markSettled and mint's own Transfer tell it nothing    *)
(* (ticket.ts:42-87, registry.ts:8-56, settlement.ts:17-35).               *)
IndexAgrees ==
    CaughtUp =>
        /\ \A t \in TokenId :
            /\ index.tickets[t].owner = ownerOf[t]
            /\ index.tickets[t].place = meta[t]
            /\ index.tickets[t].redeemed <=> t \in redeemed
        /\ index.intents = state

(* What the escrow owes, the index shows: a ticket in escrow for somebody  *)
(* is shown in escrow for exactly that depositor, so that no offer is lost *)
(* to the solver (ticket.ts:68-76).                                        *)
CustodyNeverMissed ==
    CaughtUp => \A t \in TokenId : depositor[t] # NoOne =>
        index.tickets[t].escrowed /\ index.tickets[t].depositor = depositor[t]

(* The converse, as subgraph.yaml:38-41 and schema.graphql:8-11 have it:   *)
(* the index shows custody only where the escrow has it.                   *)
CustodyDerived ==
    CaughtUp => \A t \in TokenId : index.tickets[t].escrowed =>
        index.tickets[t].depositor = depositor[t]

(* At any lag the recorded settlements partition the intents shown as      *)
(* settled: no intent is in two settlements or in none                     *)
(* (settlement.ts:8-39).                                                   *)
SettlementsPartition ==
    /\ UNION index.settlements = {i \in Intent : index.intents[i] = "SETTLED"}
    /\ \A P, Q \in index.settlements : P = Q \/ P \cap Q = {}

(* The four together: what the index shows is sound at any lag, and right  *)
(* whenever it has caught up (ticket.ts:42-87, registry.ts:8-56,           *)
(* settlement.ts:8-39).                                                    *)
IndexFaithful == SubgraphTypeOK /\ IndexAgrees /\ CustodyNeverMissed /\ SettlementsPartition

=============================================================================
