-------------------------- MODULE SettlementProofs --------------------------
(***************************************************************************)
(* Theorems about the contracts and what reads them, for any users,        *)
(* intents, tickets and amounts.  The inductive invariant of the contracts *)
(* adds to the invariants TLC checks that an intent the registry knows has *)
(* consumed its nonce.  TypeOK carries the part of custody that a mint     *)
(* could disturb: nobody holds a token before its mint.  On the invariant  *)
(* rests the refinement of the abstract exchange, action by action, and    *)
(* with the lemmas about sums that it is never money that makes a proposal *)
(* fail after its checks.                                                  *)
(*                                                                         *)
(* Then the index, which handles the contracts' events one by one and is   *)
(* at every moment the contracts as they were some transactions ago; and   *)
(* the solver, whose candidates pass the contract's checks on the state it *)
(* read, and whose proposal goes stale through its participants only.      *)
(***************************************************************************)
EXTENDS PoolSnapshot, Solver, FiniteSetTheorems, TLAPS

NonceConsumed ==
    \A i \in Intent : state[i] # "NONE" => <<i.owner, i.nonce>> \in usedNonce

IInv == TypeOK /\ DepositIsBacked /\ NonceNamesOneIntent /\ NonceConsumed

-----------------------------------------------------------------------------
(* A settlement hands tickets to users only, and only tickets there are.   *)
LEMMA RecipientsType ==
    ASSUME NEW P \in SUBSET Intent, NEW receives, TicketsIn(P, receives) \subseteq TokenId
    PROVE  /\ DOMAIN Recipients(P, receives) \subseteq TokenId
           /\ \A t \in DOMAIN Recipients(P, receives) : Recipients(P, receives)[t] \in User
<1>1. ASSUME NEW t \in TicketsIn(P, receives)
      PROVE  (CHOOSE i \in P : t \in Range(receives[i])).owner \in User
  <2>1. \E i \in P : t \in Range(receives[i])
    BY <1>1 DEF TicketsIn
  <2>2. (CHOOSE i \in P : t \in Range(receives[i])) \in P
    BY <2>1
  <2> QED
    BY <2>2, IntentAssumption
<1> QED
  BY <1>1 DEF Recipients

LEMMA BundlesHoldTickets ==
    ASSUME NEW P, NEW receives \in [P -> Bundle]
    PROVE  TicketsIn(P, receives) \subseteq TokenId
BY DEF TicketsIn, Range, Bundle

LEMMA NoMetaType == NoMeta \in TicketMeta
BY DEF NoMeta, TicketMeta, UInt16

(* The parts of IInv a step that touches only some contracts may disturb.  *)
LEMMA TicketFrame ==
    ASSUME IInv, UNCHANGED <<escrowVars, registryVars, cashVars, now>>,
           TicketTypeOK', DepositIsBacked'
    PROVE  IInv'
BY DEF IInv, TypeOK, EscrowTypeOK, RegistryTypeOK, NonceNamesOneIntent, NonceConsumed,
       escrowVars, registryVars, cashVars, TokenId, RegistryState, Nonce

LEMMA EscrowFrame ==
    ASSUME IInv, UNCHANGED <<registryVars, cashVars, now>>,
           TicketTypeOK', EscrowTypeOK', DepositIsBacked'
    PROVE  IInv'
BY DEF IInv, TypeOK, RegistryTypeOK, NonceNamesOneIntent, NonceConsumed,
       registryVars, cashVars, RegistryState, Nonce

LEMMA InitEstablishes == Init => IInv
<1> SUFFICES ASSUME Init PROVE IInv
  OBVIOUS
<1> USE TicketAssumption, AccountAssumption, SettlementAssumption DEF Init
<1>1. TicketTypeOK
  <2>1. 0 \in 0 .. MaxTickets
    OBVIOUS
  <2>2. \A t \in TokenId : t >= 0
    BY DEF TokenId
  <2> QED
    BY NoMetaType, <2>1, <2>2 DEF TicketInit, TicketTypeOK
<1>2. EscrowTypeOK /\ DepositIsBacked
  BY DEF TicketInit, EscrowInit, EscrowTypeOK, DepositIsBacked
<1>3. RegistryTypeOK /\ NonceNamesOneIntent /\ NonceConsumed
  BY DEF RegistryInit, RegistryTypeOK, RegistryState, NonceNamesOneIntent, NonceConsumed
<1>4. usdc \in [User \cup {SettlementAddr} -> Nat] /\ allowance \in [User -> Nat]
  OBVIOUS
<1>5. now \in 0 .. MaxTime
  OBVIOUS
<1> QED
  BY <1>1, <1>2, <1>3, <1>4, <1>5 DEF IInv, TypeOK

LEMMA TicketStepPreserves == IInv /\ TicketStep => IInv'
<1> SUFFICES ASSUME IInv, TicketStep PROVE IInv'
  OBVIOUS
<1> USE TicketAssumption, AccountAssumption
<1>u. UNCHANGED <<escrowVars, registryVars, cashVars, now>> /\ depositor' = depositor
  BY DEF TicketStep, escrowVars
<1>t. TicketTypeOK /\ EscrowTypeOK /\ DepositIsBacked
  BY DEF IInv, TypeOK
<1>1. ASSUME NEW to \in Account, NEW m \in MintInput, Mint(to, m)
      PROVE  TicketTypeOK' /\ DepositIsBacked'
  <2>1. nextTokenId \in TokenId
    BY <1>1, <1>t DEF Mint, TicketTypeOK, TokenId
  <2>2. TicketTypeOK'
    <3>1. nextTokenId' \in 0 .. MaxTickets
      BY <1>1, <2>1 DEF Mint, TokenId
    <3>2. ownerOf' \in [TokenId -> Account \cup {NoOne}]
      BY <1>1, <1>t, <2>1 DEF Mint, TicketTypeOK
    <3>3. meta' \in [TokenId -> TicketMeta]
      <4>1. m \in TicketMeta
        OBVIOUS
      <4> QED
        BY <1>1, <1>t, <2>1, <4>1 DEF Mint, TicketTypeOK
    <3>4. redeemed' \subseteq TokenId
      BY <1>1, <1>t DEF Mint, TicketTypeOK
    <3>5. \A t \in TokenId : ownerOf'[t] = NoOne <=> t >= nextTokenId'
      <4>1. to # NoOne
        BY DEF Account
      <4>2. \A t \in TokenId : t \in Int /\ nextTokenId \in Int
        BY <2>1 DEF TokenId
      <4> QED
        BY <1>1, <1>t, <2>1, <4>1, <4>2 DEF Mint, TicketTypeOK
    <3> QED
      BY <3>1, <3>2, <3>3, <3>4, <3>5 DEF TicketTypeOK
  <2>3. DepositIsBacked'
    BY <1>1, <1>t, <1>u, <2>1 DEF Mint, TicketTypeOK, EscrowTypeOK, DepositIsBacked
  <2> QED
    BY <2>2, <2>3
<1>2. ASSUME NEW u \in User, NEW t \in TokenId, Redeem(u, t)
      PROVE  TicketTypeOK' /\ DepositIsBacked'
  BY <1>2, <1>t, <1>u DEF Redeem, TicketTypeOK, EscrowTypeOK, DepositIsBacked
<1>3. ASSUME NEW u \in User, NEW to \in Account, NEW t \in TokenId, TransferFrom(u, to, t)
      PROVE  TicketTypeOK' /\ DepositIsBacked'
  BY <1>3, <1>t, <1>u DEF TransferFrom, TicketTypeOK, EscrowTypeOK, DepositIsBacked, Account
<1> QED
  BY <1>1, <1>2, <1>3, <1>u, TicketFrame DEF TicketStep

LEMMA EscrowStepPreserves == IInv /\ EscrowStep => IInv'
<1> SUFFICES ASSUME IInv, EscrowStep PROVE IInv'
  OBVIOUS
<1> USE AccountAssumption
<1>u. UNCHANGED <<registryVars, cashVars, now>>
  BY DEF EscrowStep
<1>t. TicketTypeOK /\ EscrowTypeOK /\ DepositIsBacked
  BY DEF IInv, TypeOK
<1>1. ASSUME NEW u \in User, NEW ids \in SUBSET TokenId, Deposit(u, ids)
      PROVE  TicketTypeOK' /\ EscrowTypeOK' /\ DepositIsBacked'
  BY <1>1, <1>t DEF Deposit, TicketTypeOK, EscrowTypeOK, DepositIsBacked, Account
<1>2. ASSUME NEW u \in User, NEW ids \in SUBSET TokenId, Withdraw(u, ids)
      PROVE  TicketTypeOK' /\ EscrowTypeOK' /\ DepositIsBacked'
  BY <1>2, <1>t DEF Withdraw, TicketTypeOK, EscrowTypeOK, DepositIsBacked, Account
<1> QED
  BY <1>1, <1>2, <1>u, EscrowFrame DEF EscrowStep

(* The registry's own operations leave tickets and money alone; commit     *)
(* consumes a nonce nobody had consumed, so it cannot meet a second intent.*)
LEMMA RegistryStepPreserves == IInv /\ RegistryStep => IInv'
<1> SUFFICES ASSUME IInv, RegistryStep PROVE IInv'
  OBVIOUS
<1> USE AccountAssumption, IntentAssumption
<1> DEFINE Registry == RegistryTypeOK /\ NonceNamesOneIntent /\ NonceConsumed
<1>r. Registry
  BY DEF IInv, TypeOK
<1>1. ASSUME NEW i \in Intent, Sign(i)
      PROVE  Registry'
  BY <1>1, <1>r DEF Sign, RegistryTypeOK, NonceNamesOneIntent, NonceConsumed, RegistryState, Nonce
<1>2. ASSUME NEW i \in Intent, Commit(i)
      PROVE  Registry'
  <2>1. RegistryTypeOK'
    BY <1>2, <1>r DEF Commit, RegistryTypeOK, RegistryState, Nonce
  <2>2. NonceConsumed'
    BY <1>2, <1>r DEF Commit, RegistryTypeOK, NonceConsumed
  <2>3. NonceNamesOneIntent'
    BY <1>2, <1>r DEF Commit, RegistryTypeOK, NonceNamesOneIntent, NonceConsumed
  <2> QED
    BY <2>1, <2>2, <2>3
<1>3. ASSUME NEW u \in User, NEW i \in Intent, Revoke(u, i)
      PROVE  Registry'
  BY <1>3, <1>r DEF Revoke, RegistryTypeOK, NonceNamesOneIntent, NonceConsumed, RegistryState, Nonce
<1>4. Registry'
  BY <1>1, <1>2, <1>3 DEF RegistryStep
<1>5. UNCHANGED <<ticketVars, escrowVars, cashVars, now>>
  BY DEF RegistryStep
<1>6. (TicketTypeOK /\ EscrowTypeOK /\ DepositIsBacked)'
  BY <1>5 DEF IInv, TypeOK, TicketTypeOK, EscrowTypeOK, DepositIsBacked, ticketVars, escrowVars
<1> QED
  BY <1>4, <1>5, <1>6 DEF IInv, TypeOK, cashVars

LEMMA CashStepPreserves == IInv /\ CashStep => IInv'
<1> SUFFICES ASSUME IInv, CashStep PROVE IInv'
  OBVIOUS
<1> USE AccountAssumption, SettlementAssumption
<1>t. usdc \in [User \cup {SettlementAddr} -> Nat] /\ allowance \in [User -> Nat]
  BY DEF IInv, TypeOK
<1> DEFINE Cash == usdc \in [User \cup {SettlementAddr} -> Nat] /\ allowance \in [User -> Nat]
<1>1. ASSUME NEW u \in User, NEW x \in Amount, Approve(u, x)
      PROVE  Cash'
  BY <1>1, <1>t DEF Approve
<1>2. ASSUME NEW u \in User, NEW a \in User \cup {SettlementAddr}, NEW x \in Amount, PayUsdc(u, a, x)
      PROVE  Cash'
  <2>1. usdc[u] - x \in Nat /\ usdc[a] + x \in Nat
    BY <1>2, <1>t DEF PayUsdc
  <2> QED
    BY <1>2, <1>t, <2>1 DEF PayUsdc
<1>3. Cash'
  BY <1>1, <1>2 DEF CashStep
<1>4. UNCHANGED <<ticketVars, escrowVars, registryVars, now>>
  BY DEF CashStep
<1>5. (TicketTypeOK /\ EscrowTypeOK /\ DepositIsBacked)'
  BY <1>4 DEF IInv, TypeOK, TicketTypeOK, EscrowTypeOK, DepositIsBacked, ticketVars, escrowVars
<1>6. (RegistryTypeOK /\ NonceNamesOneIntent /\ NonceConsumed)'
  BY <1>4 DEF IInv, TypeOK, RegistryTypeOK, NonceNamesOneIntent, NonceConsumed, registryVars
<1> QED
  BY <1>3, <1>4, <1>5, <1>6 DEF IInv, TypeOK

LEMMA TimeStepPreserves == IInv /\ TimeStep => IInv'
<1> SUFFICES ASSUME IInv, TimeStep PROVE IInv'
  OBVIOUS
<1>1. now' \in 0 .. MaxTime
  BY SettlementAssumption DEF IInv, TypeOK, TimeStep, Tick
<1>2. UNCHANGED <<ticketVars, escrowVars, registryVars, cashVars>>
  BY DEF TimeStep
<1>3. (TicketTypeOK /\ EscrowTypeOK /\ DepositIsBacked)'
  BY <1>2 DEF IInv, TypeOK, TicketTypeOK, EscrowTypeOK, DepositIsBacked, ticketVars, escrowVars
<1>4. (RegistryTypeOK /\ NonceNamesOneIntent /\ NonceConsumed)'
  BY <1>2 DEF IInv, TypeOK, RegistryTypeOK, NonceNamesOneIntent, NonceConsumed, registryVars
<1> QED
  BY <1>1, <1>2, <1>3, <1>4 DEF IInv, TypeOK, cashVars

(* A settlement clears the depositor of every ticket it hands over, and    *)
(* the intents it marks were live, so their nonces are consumed already.   *)
(* Carrying out a proposal that is live, balanced and covered.             *)
LEMMA ExecutePreserves ==
    ASSUME IInv, NEW P \in SUBSET Intent, NEW receives, NEW net,
           TicketsIn(P, receives) \subseteq TokenId,
           IntentsLive(P), CanPay(P, net), Execute(P, receives, net)
    PROVE  IInv'
<1> USE AccountAssumption
<1>2. TicketTypeOK /\ EscrowTypeOK /\ DepositIsBacked
  BY DEF IInv, TypeOK
<1>3. TicketTypeOK' /\ EscrowTypeOK' /\ DepositIsBacked'
  <2>1. ReleaseBatch(Recipients(P, receives))
    BY DEF Execute
  <2> QED
    BY <1>2, <2>1, RecipientsType
    DEF ReleaseBatch, TicketTypeOK, EscrowTypeOK, DepositIsBacked, Account
<1>4. RegistryTypeOK' /\ NonceNamesOneIntent' /\ NonceConsumed'
  <2>1. MarkSettled(P) /\ IntentsLive(P)
    BY DEF Execute
  <2>2. RegistryTypeOK /\ NonceNamesOneIntent /\ NonceConsumed
    BY DEF IInv, TypeOK
  <2>3. \A i \in Intent : state'[i] # "NONE" => state[i] # "NONE"
    BY <2>1 DEF MarkSettled, IntentsLive
  <2>4. RegistryTypeOK'
    BY <2>1, <2>2 DEF MarkSettled, RegistryTypeOK, RegistryState
  <2> QED
    BY <2>1, <2>2, <2>3, <2>4 DEF MarkSettled, NonceNamesOneIntent, NonceConsumed
<1>5. usdc' \in [User \cup {SettlementAddr} -> Nat] /\ allowance' \in [User -> Nat]
  <2>1. usdc \in [User \cup {SettlementAddr} -> Nat] /\ allowance \in [User -> Nat]
    BY DEF IInv, TypeOK
  <2>2. Payable(P, net)
    BY DEF Execute, MovePayments
  <2>3. \A u \in User : OwnerNet(P, net, u) \in Int
    <3>1. \A u \in User : OwnerNet(P, net, u) \in Int256
      BY DEF CanPay
    <3>2. Int256 \subseteq Int
      BY SettlementAssumption DEF Int256
    <3> QED
      BY <3>1, <3>2
  <2>4. \A u \in User : OwnerNet(P, net, u) > 0 =>
          usdc[u] >= OwnerNet(P, net, u) /\ allowance[u] >= OwnerNet(P, net, u)
    BY <2>2 DEF Payable
  <2>5. MovePayments(P, net)
    BY DEF Execute
  <2>6. \A u \in User : usdc[u] - OwnerNet(P, net, u) \in Nat
    <3> TAKE u \in User
    <3> DEFINE x == OwnerNet(P, net, u)
    <3>1. x \in Int /\ usdc[u] \in Nat /\ (x > 0 => usdc[u] >= x)
      BY <2>1, <2>3, <2>4
    <3> HIDE DEF x
    <3>2. usdc[u] - x \in Nat
      BY <3>1
    <3> QED
      BY <3>2 DEF x
  <2>7. \A u \in User : OwnerNet(P, net, u) > 0 => allowance[u] - OwnerNet(P, net, u) \in Nat
    BY <2>1, <2>3, <2>4
  <2>8. usdc[SettlementAddr] + Gathered(P, net) \in Nat
    BY <2>2 DEF Payable
  <2> QED
    BY <2>1, <2>5, <2>6, <2>7, <2>8 DEF MovePayments
<1>6. now' \in 0 .. MaxTime
  BY DEF Execute, IInv, TypeOK
<1> QED
  BY <1>3, <1>4, <1>5, <1>6 DEF IInv, TypeOK

LEMMA SettlePreserves == IInv /\ Settle => IInv'
<1> SUFFICES ASSUME IInv, Settle PROVE IInv'
  OBVIOUS
<1>1. PICK P \in SUBSET Intent :
        /\ IntentsLive(P)
        /\ \E receives \in [P -> Bundle] : \E net \in [P -> NetPayment] :
              CanPay(P, net) /\ Execute(P, receives, net)
  BY DEF Settle
<1>2. PICK receives \in [P -> Bundle] : \E net \in [P -> NetPayment] :
        CanPay(P, net) /\ Execute(P, receives, net)
  BY <1>1
<1> QED
  BY <1>1, <1>2, BundlesHoldTickets, ExecutePreserves

LEMMA NextPreserves == IInv /\ [Next]_vars => IInv'
<1>1. IInv /\ UNCHANGED vars => IInv'
  BY DEF vars, ticketVars, escrowVars, registryVars, cashVars, IInv, TypeOK, TicketTypeOK,
     EscrowTypeOK, RegistryTypeOK, DepositIsBacked, NonceNamesOneIntent, NonceConsumed
<1> QED
  BY <1>1, TicketStepPreserves, EscrowStepPreserves, RegistryStepPreserves,
     CashStepPreserves, TimeStepPreserves, SettlePreserves DEF Next

(* Every reachable state of the contracts has its types and satisfies the  *)
(* invariant; the named theorems below are what a reader needs of it.      *)
LEMMA Invariance == Spec => []IInv
BY InitEstablishes, NextPreserves, PTL DEF Spec

(* Balances and allowances never go negative, holders are accounts, and    *)
(* the registry knows only its four states, whatever is proposed.          *)
THEOREM TypesHold == Spec => []TypeOK
<1>1. IInv => TypeOK
  BY DEF IInv
<1> QED
  BY Invariance, <1>1, PTL

(* Whoever the escrow names as depositor can withdraw, at any time: the    *)
(* escrow holds the ticket and it is unused.                               *)
THEOREM CustodyHolds == Spec => []DepositIsBacked
<1>1. IInv => DepositIsBacked
  BY DEF IInv
<1> QED
  BY Invariance, <1>1, PTL

(* One owner's nonce never stands for two committed intents, and no intent *)
(* is committed that its owner did not sign.                               *)
THEOREM NoncesHold == Spec => []NonceNamesOneIntent
<1>1. IInv => NonceNamesOneIntent
  BY DEF IInv
<1> QED
  BY Invariance, <1>1, PTL

\* What a step may do to the registry's states.
Forward ==
    \A i \in Intent :
        \/ state'[i] = state[i]
        \/ state[i] = "NONE" /\ state'[i] = "LIVE"
        \/ state[i] = "LIVE" /\ state'[i] \in {"REVOKED", "SETTLED"}

LEMMA StepsGoForward == IInv /\ [Next]_vars => Forward
<1> SUFFICES ASSUME IInv, [Next]_vars PROVE Forward
  OBVIOUS
<1>t. state \in [Intent -> RegistryState]
  BY DEF IInv, TypeOK, RegistryTypeOK
<1>1. CASE RegistryStep
  <2>1. ASSUME NEW i \in Intent, Sign(i) PROVE Forward
    BY <2>1 DEF Sign, Forward
  <2>2. ASSUME NEW i \in Intent, Commit(i) PROVE Forward
    BY <2>2, <1>t DEF Commit, Forward
  <2>3. ASSUME NEW u \in User, NEW i \in Intent, Revoke(u, i) PROVE Forward
    BY <2>3, <1>t DEF Revoke, Forward
  <2> QED
    BY <1>1, <2>1, <2>2, <2>3 DEF RegistryStep
<1>2. CASE Settle
  <2>1. PICK P \in SUBSET Intent : IntentsLive(P) /\ MarkSettled(P)
    BY <1>2 DEF Settle, Execute
  <2> QED
    BY <2>1 DEF IntentsLive, MarkSettled, Forward
<1>3. CASE TicketStep \/ EscrowStep \/ CashStep \/ TimeStep \/ UNCHANGED vars
  <2>1. state' = state
    BY <1>3 DEF TicketStep, EscrowStep, CashStep, TimeStep, vars, registryVars
  <2> QED
    BY <2>1 DEF Forward
<1> QED
  BY <1>1, <1>2, <1>3 DEF Next

(* Although markSettled overwrites any state, an intent only ever goes     *)
(* NONE, LIVE, then REVOKED or SETTLED: V1 stands before every call of it. *)
THEOREM LifecycleHolds == Spec => IntentLifecycle
<1>1. IInv /\ [Next]_vars => [Forward]_state
  BY StepsGoForward
<1>2. Spec => [][Forward]_state
  BY <1>1, Invariance, PTL DEF Spec
<1> QED
  BY <1>2 DEF IntentLifecycle, Forward

-----------------------------------------------------------------------------
(* The sums of the two specifications are the same operator.               *)
LEMMA SameSum ==
    ASSUME NEW f, NEW S
    PROVE  Exchange!SumFunctionOnSet(f, S) = SumFunctionOnSet(f, S)
BY DEF Exchange!SumFunctionOnSet, SumFunctionOnSet, Exchange!FoldFunctionOnSet,
       FoldFunctionOnSet, Exchange!MapThenFoldSet, MapThenFoldSet

LEMMA SameCardinality == ASSUME NEW S PROVE Exchange!Cardinality(S) = Cardinality(S)
BY DEF Exchange!Cardinality, Cardinality

LEMMA SameRange == ASSUME NEW f PROVE Exchange!Range(f) = Range(f)
BY DEF Exchange!Range, Range

(* A list of n different tickets holds n tickets.                          *)
LEMMA DistinctCount ==
    ASSUME NEW S, NEW n \in Nat, NEW b \in [1 .. n -> S],
           \A j, l \in 1 .. n : b[j] = b[l] => j = l
    PROVE  Cardinality(Range(b)) = n
<1>1. b \in [1 .. n -> Range(b)]
  BY DEF Range
<1>2. b \in Injection(1 .. n, Range(b))
  BY <1>1 DEF Injection, IsInjective
<1>3. b \in Surjection(1 .. n, Range(b))
  BY <1>1 DEF Surjection, Range
<1>4. ExistsBijection(1 .. n, Range(b))
  BY <1>2, <1>3 DEF ExistsBijection, Bijection
<1> QED
  BY <1>4, FS_CountingElements

(* Tickets of one row differ in the seat alone.                            *)
LEMMA SameRow ==
    ASSUME NEW r \in TicketMeta, NEW s \in TicketMeta,
           r.eventId = s.eventId, r.session = s.session, r.section = s.section, r.row = s.row
    PROVE  r.seat \in Int /\ r = [s EXCEPT !.seat = r.seat]
<1>1. r.seat \in Int
  <2>1. r.seat \in UInt16
    BY DEF TicketMeta
  <2>2. \A n \in UInt16 : n \in Int
    BY DEF UInt16
  <2> QED
    BY <2>1, <2>2
<1>2. [s EXCEPT !.seat = r.seat] \in TicketMeta
  BY DEF TicketMeta
<1> QED
  BY <1>1, <1>2 DEF TicketMeta

(* The contract's look at one leg is the offer's own wish for a set.       *)
LEMMA SatisfiesAsksFor ==
    ASSUME IInv, NEW P \in SUBSET Intent, NEW receives \in [P -> Bundle],
           NoTicketTwice(P, receives), NEW i \in P, Satisfies(i, receives[i])
    PROVE  Exchange!AsksFor(i, Range(receives[i]))
<1> DEFINE b == receives[i]
           T == Range(b)
<1>m. meta \in [TokenId -> TicketMeta]
  BY DEF IInv, TypeOK, TicketTypeOK
<1>1. PICK n \in Nat : b \in [1 .. n -> TokenId]
  BY SettlementAssumption DEF Bundle
<1>2. \A j, l \in DOMAIN b : b[j] = b[l] => j = l
  BY DEF NoTicketTwice
<1>3. /\ Len(b) = n /\ DOMAIN b = 1 .. n
      /\ T \subseteq TokenId
      /\ Cardinality(T) = n
  <2>1. Len(b) = n /\ DOMAIN b = 1 .. n
    BY <1>1
  <2>2. T \subseteq TokenId
    BY <1>1 DEF Range
  <2> HIDE DEF b
  <2>3. Cardinality(Range(b)) = n
    BY <1>1, <1>2, <2>1, DistinctCount
  <2> QED
    BY <2>1, <2>2, <2>3
<1>4. Exchange!Cardinality(T) = i.exactCount /\ i.exactCount = n
  BY <1>3, SameCardinality DEF Satisfies
<1> HIDE DEF T
<1>5. CASE T = {}
  BY <1>4, <1>5 DEF Exchange!AsksFor, T
<1>6. CASE T # {}
  <2>1. 1 \in DOMAIN b /\ b[1] \in T
    BY <1>3, <1>6 DEF T, Range
  <2>2. i.exactCount # 0
    BY <1>3, <1>4, <2>1
  <2>3. \A t \in T :
            /\ meta[t].eventId = i.eventId
            /\ meta[t].session \in i.sessionMask
            /\ meta[t].section \in i.sectionMask
            /\ i.mustShareSession => meta[t].session = meta[b[1]].session
            /\ i.mustShareSection => meta[t].section = meta[b[1]].section
    BY <2>2 DEF Satisfies, T
  <2>4. i.mustBeAdjacent =>
        \E first \in T :
            {meta[t] : t \in T} =
                {[meta[first] EXCEPT !.seat = @ + k] : k \in 0 .. n - 1}
    <3>1. SUFFICES ASSUME Adjacent(b)
          PROVE  \E first \in T :
                    {meta[t] : t \in T} =
                        {[meta[first] EXCEPT !.seat = @ + k] : k \in 0 .. n - 1}
      BY <2>2 DEF Satisfies
    <3>2. \A t \in T : /\ meta[t].session = meta[b[1]].session
                       /\ meta[t].section = meta[b[1]].section
                       /\ meta[t].row = meta[b[1]].row
      BY <3>1 DEF Adjacent, T
    <3>3. \E first \in T :
              {meta[t].seat : t \in T} = meta[first].seat .. meta[first].seat + n - 1
      BY <1>3, <3>1 DEF Adjacent, T
    <3>4. PICK first \in T :
              {meta[t].seat : t \in T} = meta[first].seat .. meta[first].seat + n - 1
      BY <3>3
    <3> DEFINE low == meta[first].seat
    <3>5. ASSUME NEW t \in T
          PROVE  /\ meta[t] \in TicketMeta
                 /\ meta[t].seat \in Int
                 /\ meta[t] = [meta[first] EXCEPT !.seat = meta[t].seat]
      <4>1. meta[t] \in TicketMeta /\ meta[first] \in TicketMeta
        BY <1>m, <1>3
      <4>2. /\ meta[t].eventId = meta[first].eventId
            /\ meta[t].session = meta[first].session
            /\ meta[t].section = meta[first].section
            /\ meta[t].row = meta[first].row
        BY <2>3, <3>2
      <4> QED
        BY <4>1, <4>2, SameRow
    <3>6. low \in Int
      BY <3>5
    <3>7. ASSUME NEW t \in T
          PROVE  \E k \in 0 .. n - 1 : meta[t] = [meta[first] EXCEPT !.seat = low + k]
      <4>1. meta[t].seat \in low .. low + n - 1
        BY <3>4
      <4>2. meta[t].seat \in Int
        BY <3>5
      <4> DEFINE seat == meta[t].seat
      <4>3. seat - low \in 0 .. n - 1 /\ seat = low + (seat - low)
        <5> HIDE DEF seat, low
        <5> QED
          BY <3>6, <4>1, <4>2 DEF seat
      <4>4. meta[t] = [meta[first] EXCEPT !.seat = low + (seat - low)]
        BY <3>5, <4>3
      <4> QED
        BY <4>3, <4>4
    <3>8. ASSUME NEW k \in 0 .. n - 1
          PROVE  \E t \in T : meta[t] = [meta[first] EXCEPT !.seat = low + k]
      <4>1. low + k \in low .. low + n - 1
        <5> HIDE DEF low
        <5> QED
          BY <3>6
      <4>2. PICK t \in T : meta[t].seat = low + k
        BY <3>4, <4>1
      <4> QED
        BY <3>5, <4>2
    <3>9. {meta[t] : t \in T} = {[meta[first] EXCEPT !.seat = low + k] : k \in 0 .. n - 1}
      <4> DEFINE at(k) == [meta[first] EXCEPT !.seat = low + k]
      <4>1. /\ \A t \in T : \E k \in 0 .. n - 1 : meta[t] = at(k)
            /\ \A k \in 0 .. n - 1 : \E t \in T : meta[t] = at(k)
        BY <3>7, <3>8
      <4> HIDE DEF at
      <4>2. {meta[t] : t \in T} = {at(k) : k \in 0 .. n - 1}
        BY <4>1
      <4> QED
        BY <4>2 DEF at
    <3> QED
      BY <3>9
  <2>5. /\ \A t \in T :
            /\ meta[t].eventId = i.eventId
            /\ meta[t].session \in i.sessionMask
            /\ meta[t].section \in i.sectionMask
        /\ i.mustShareSession => \A s, t \in T : meta[s].session = meta[t].session
        /\ i.mustShareSection => \A s, t \in T : meta[s].section = meta[t].section
    BY <2>3
  <2> QED
    BY <1>4, <2>4, <2>5 DEF Exchange!AsksFor, T
<1> QED
  BY <1>5, <1>6

LEMMA ExchangeInit == Init => Exchange!Init
<1> SUFFICES ASSUME Init PROVE Exchange!Init
  OBVIOUS
<1> USE SettlementAssumption, AccountAssumption
<1>1. Holder = [t \in TokenId |-> NoOne]
  BY DEF Init, TicketInit, EscrowInit, Holder
<1>2. meta \in [TokenId -> TicketMeta]
  BY NoMetaType DEF Init, TicketInit
<1>3. Purse \in [User -> Nat]
  BY DEF Init, Purse
<1> QED
  BY <1>1, <1>2, <1>3 DEF Init, TicketInit, RegistryInit, Exchange!Init

(* A ticket in somebody's own hands is in nobody's deposit.                *)
LEMMA HeldIsNotDeposited ==
    ASSUME IInv, NEW t \in TokenId, ownerOf[t] # EscrowAddr
    PROVE  depositor[t] = NoOne /\ Holder[t] = ownerOf[t]
BY DEF IInv, DepositIsBacked, Holder

LEMMA TicketStepMaps == IInv /\ TicketStep => Exchange!Next
<1> SUFFICES ASSUME IInv, TicketStep PROVE Exchange!Next
  OBVIOUS
<1> USE AccountAssumption, TicketAssumption
<1>u. UNCHANGED <<depositor, state, usdc, now>> /\ Purse' = Purse
  BY DEF TicketStep, escrowVars, registryVars, cashVars, Purse
<1>t. TicketTypeOK
  BY DEF IInv, TypeOK
<1>1. ASSUME NEW to \in Account, NEW m \in MintInput, Mint(to, m)
      PROVE  Exchange!Issue
  <2> DEFINE t == nextTokenId
  <2>1. t \in TokenId
    BY <1>1, <1>t DEF Mint, TicketTypeOK, TokenId
  <2>2. ownerOf[t] = NoOne
    <3>1. t >= nextTokenId
      BY <1>t DEF TicketTypeOK
    <3> QED
      BY <1>t, <2>1, <3>1 DEF TicketTypeOK
  <2>3. depositor[t] = NoOne /\ Holder[t] = NoOne
    BY <2>1, <2>2, HeldIsNotDeposited
  <2>4. ownerOf' = [ownerOf EXCEPT ![t] = to] /\ meta' = [meta EXCEPT ![t] = m]
    BY <1>1 DEF Mint
  <2>5. Holder' = [Holder EXCEPT ![t] = to]
    BY <1>u, <1>t, <2>1, <2>3, <2>4 DEF Holder, TicketTypeOK
  <2>6. meta'[t] \in TicketMeta /\ meta' = [meta EXCEPT ![t] = meta'[t]]
    BY <1>t, <2>1, <2>4 DEF TicketTypeOK
  <2> HIDE DEF t
  <2> QED
    BY <1>1, <1>u, <2>1, <2>3, <2>5, <2>6
    DEF Exchange!Issue, Exchange!ticketOnly, Mint, Account
<1>2. ASSUME NEW u \in User, NEW t \in TokenId, Redeem(u, t)
      PROVE  Exchange!Use
  <2>1. Holder[t] = u
    BY <1>2, HeldIsNotDeposited DEF Redeem
  <2>2. Holder' = Holder
    BY <1>2, <1>u DEF Redeem, Holder
  <2> QED
    BY <1>2, <1>u, <2>1, <2>2 DEF Redeem, Exchange!Use
<1>3. ASSUME NEW u \in User, NEW to \in Account, NEW t \in TokenId, TransferFrom(u, to, t)
      PROVE  Exchange!Give
  <2>1. depositor[t] = NoOne /\ Holder[t] = u
    BY <1>3, HeldIsNotDeposited DEF TransferFrom
  <2>2. ownerOf' = [ownerOf EXCEPT ![t] = to]
    BY <1>3 DEF TransferFrom
  <2>3. Holder' = [Holder EXCEPT ![t] = to]
    BY <1>u, <1>t, <2>1, <2>2 DEF Holder, TicketTypeOK
  <2> QED
    BY <1>3, <1>u, <2>1, <2>3
    DEF TransferFrom, Exchange!Give, Exchange!ticketOnly, Account
<1> QED
  BY <1>1, <1>2, <1>3 DEF TicketStep, Exchange!Next

(* Into escrow and out of it again: the ticket stays its depositor's.      *)
LEMMA EscrowStepMaps == IInv /\ EscrowStep => UNCHANGED Exchange!vars
<1> SUFFICES ASSUME IInv, EscrowStep PROVE UNCHANGED Exchange!vars
  OBVIOUS
<1> USE AccountAssumption
<1>u. UNCHANGED <<state, usdc, now>> /\ Purse' = Purse
  BY DEF EscrowStep, registryVars, cashVars, Purse
<1>1. ASSUME NEW u \in User, NEW ids \in SUBSET TokenId, Deposit(u, ids)
      PROVE  Holder' = Holder /\ UNCHANGED <<meta, redeemed>>
  <2>1. \A t \in ids : depositor[t] = NoOne /\ ownerOf[t] = u
    BY <1>1, HeldIsNotDeposited DEF Deposit
  <2> QED
    BY <1>1, <2>1 DEF Deposit, Holder
<1>2. ASSUME NEW u \in User, NEW ids \in SUBSET TokenId, Withdraw(u, ids)
      PROVE  Holder' = Holder /\ UNCHANGED <<meta, redeemed>>
  BY <1>2 DEF Withdraw, Holder
<1> QED
  BY <1>1, <1>2, <1>u DEF EscrowStep, Exchange!vars

LEMMA RegistryStepMaps == IInv /\ RegistryStep => [Exchange!Next]_(Exchange!vars)
<1> SUFFICES ASSUME IInv, RegistryStep PROVE [Exchange!Next]_(Exchange!vars)
  OBVIOUS
<1>u. UNCHANGED <<Holder, meta, redeemed, Purse, now>>
  BY DEF RegistryStep, ticketVars, escrowVars, cashVars, Holder, Purse
<1>1. ASSUME NEW i \in Intent, Sign(i) PROVE state' = state
  BY <1>1 DEF Sign
<1>2. ASSUME NEW i \in Intent, Commit(i) PROVE Exchange!OfferStep
  BY <1>2, <1>u DEF Commit, Exchange!OfferStep
<1>3. ASSUME NEW u \in User, NEW i \in Intent, Revoke(u, i) PROVE Exchange!OfferStep
  BY <1>3, <1>u DEF Revoke, Exchange!OfferStep
<1>4. state' = state \/ Exchange!OfferStep
  BY <1>1, <1>2, <1>3 DEF RegistryStep
<1> QED
  BY <1>4, <1>u DEF Exchange!Next, Exchange!vars

LEMMA CashStepMaps == IInv /\ CashStep => [Exchange!Next]_(Exchange!vars)
<1> SUFFICES ASSUME IInv, CashStep PROVE [Exchange!Next]_(Exchange!vars)
  OBVIOUS
<1> USE AccountAssumption, SettlementAssumption
<1>u. UNCHANGED <<Holder, meta, redeemed, state, now>>
  BY DEF CashStep, ticketVars, escrowVars, registryVars, Holder
<1>t. usdc \in [User \cup {SettlementAddr} -> Nat]
  BY DEF IInv, TypeOK
<1>1. ASSUME NEW u \in User, NEW x \in Amount, Approve(u, x)
      PROVE  Purse' = Purse
  BY <1>1 DEF Approve, Purse
<1>2. ASSUME NEW u \in User, NEW a \in User \cup {SettlementAddr}, NEW x \in Amount,
             PayUsdc(u, a, x)
      PROVE  Exchange!Pay
  <2>1. /\ u # a /\ x \in Nat /\ usdc[u] \in Nat /\ usdc[u] >= x
        /\ usdc' = [usdc EXCEPT ![u] = usdc[u] - x, ![a] = usdc[a] + x]
    BY <1>2, <1>t DEF PayUsdc
  <2>2. usdc[u] - x \in 0 .. usdc[u] /\ x = usdc[u] - (usdc[u] - x)
    BY <2>1
  <2>3. Purse[u] = usdc[u] /\ Purse'[u] = usdc[u] - x
    BY <1>t, <2>1 DEF Purse
  <2>4. CASE a = SettlementAddr
    <3>1. Purse' = [Purse EXCEPT ![u] = Purse'[u]]
      BY <1>t, <2>1, <2>3, <2>4 DEF Purse
    <3> QED
      BY <1>u, <2>2, <2>3, <3>1 DEF Exchange!Pay
  <2>5. CASE a \in User
    <3>1. Purse[a] + Purse[u] - Purse'[u] = usdc[a] + x
      <4>1. Purse[a] = usdc[a] /\ usdc[a] \in Nat
        BY <1>t, <2>5 DEF Purse
      <4> QED
        BY <2>1, <2>3, <4>1
    <3>2. Purse' = [Purse EXCEPT ![u] = Purse'[u], ![a] = Purse[a] + Purse[u] - Purse'[u]]
      BY <1>t, <2>1, <2>3, <2>5, <3>1 DEF Purse
    <3> QED
      BY <1>u, <2>1, <2>2, <2>3, <2>5, <3>2 DEF Exchange!Pay
  <2> QED
    BY <2>4, <2>5
<1> QED
  BY <1>1, <1>2, <1>u DEF CashStep, Exchange!Next, Exchange!vars

LEMMA TimeStepMaps == TimeStep => Exchange!Next
BY DEF TimeStep, Tick, ticketVars, escrowVars, registryVars, cashVars, Holder, Purse,
       Exchange!Next, Exchange!Pass

(* A settlement hands every ticket to the one owner whose leg lists it.    *)
LEMMA RecipientIsOwner ==
    ASSUME NEW P \in SUBSET Intent, NEW receives \in [P -> Bundle],
           NoTicketTwice(P, receives), NEW i \in P, NEW t \in Range(receives[i])
    PROVE  t \in TicketsIn(P, receives) /\ Recipients(P, receives)[t] = i.owner
<1>1. t \in TicketsIn(P, receives)
  BY DEF TicketsIn
<1>2. ASSUME NEW k \in P, t \in Range(receives[k]) PROVE k = i
  <2>1. PICK j \in DOMAIN receives[i] : receives[i][j] = t
    BY DEF Range
  <2>2. PICK l \in DOMAIN receives[k] : receives[k][l] = t
    BY <1>2 DEF Range
  <2> QED
    BY <2>1, <2>2 DEF NoTicketTwice
<1>3. (CHOOSE k \in P : t \in Range(receives[k])) = i
  BY <1>2
<1> QED
  BY <1>1, <1>3 DEF Recipients

LEMMA LegsDisjoint ==
    ASSUME NEW P \in SUBSET Intent, NEW bundle, NoTicketTwice(P, bundle),
           NEW i \in P, NEW k \in P, i # k
    PROVE  Range(bundle[i]) \cap Range(bundle[k]) = {}
BY DEF NoTicketTwice, Range

(* What passes the checks of the contract and is executed is an exchange.  *)
LEMMA SettleMaps == IInv /\ Settle => Exchange!Exchange
<1> SUFFICES ASSUME IInv, Settle PROVE Exchange!Exchange
  OBVIOUS
<1> USE AccountAssumption
<1>1. PICK P \in (SUBSET Intent) \ {{}} :
        /\ IntentsLive(P)
        /\ OffersEscrowed(P)
        /\ OffersUnused(P)
        /\ \E receives \in [P -> Bundle] :
            /\ Conserves(P, receives)
            /\ \A i \in P : Satisfies(i, receives[i])
            /\ \E net \in [P -> NetPayment] :
                /\ WithinBudget(P, net)
                /\ Balanced(P, net)
                /\ CanPay(P, net)
                /\ Execute(P, receives, net)
  BY DEF Settle
<1>2. PICK receives \in [P -> Bundle] :
            /\ Conserves(P, receives)
            /\ \A i \in P : Satisfies(i, receives[i])
            /\ \E net \in [P -> NetPayment] :
                /\ WithinBudget(P, net)
                /\ Balanced(P, net)
                /\ CanPay(P, net)
                /\ Execute(P, receives, net)
  BY <1>1
<1>3. PICK net \in [P -> NetPayment] :
                /\ WithinBudget(P, net)
                /\ Balanced(P, net)
                /\ CanPay(P, net)
                /\ Execute(P, receives, net)
  BY <1>2
<1>t. /\ TicketTypeOK /\ EscrowTypeOK /\ RegistryTypeOK /\ DepositIsBacked
      /\ usdc \in [User \cup {SettlementAddr} -> Nat]
  BY DEF IInv, TypeOK
<1>o. \A i \in P : i \in Intent /\ i.owner \in User
  BY IntentAssumption
<1> DEFINE deal == [i \in P |-> Range(receives[i])]
<1>4. P = {i \in Intent : state[i] = "LIVE" /\ state'[i] = "SETTLED"}
  <2>1. MarkSettled(P)
    BY <1>3 DEF Execute
  <2> QED
    BY <1>1, <1>t, <2>1 DEF MarkSettled, IntentsLive, RegistryTypeOK
<1>5. /\ P # {}
      /\ state' = [i \in Intent |-> IF i \in P THEN "SETTLED" ELSE state[i]]
  <2>1. P # {}
    OBVIOUS
  <2> QED
    BY <1>3, <2>1 DEF Execute, MarkSettled
<1>6. /\ NoTicketTwice(P, Offered(P)) /\ NoTicketTwice(P, receives)
      /\ TicketsIn(P, Offered(P)) = TicketsIn(P, receives)
  BY <1>2 DEF Conserves
<1>7. \A i \in P : now <= i.deadline
  BY <1>1 DEF IntentsLive
<1>8. ASSUME NEW i \in P, NEW t \in Range(i.offered)
      PROVE  t \in TokenId /\ Holder[t] = i.owner /\ t \notin redeemed
  <2>1. t \in TokenId /\ depositor[t] = i.owner /\ t \notin redeemed
    BY <1>1 DEF OffersEscrowed, OffersUnused
  <2> QED
    BY <1>o, <2>1 DEF Holder
<1>9. \A i, k \in P : i # k => Range(i.offered) \cap Range(k.offered) = {}
  <2> TAKE i, k \in P
  <2> HAVE i # k
  <2>1. Range(Offered(P)[i]) \cap Range(Offered(P)[k]) = {}
    BY <1>6, LegsDisjoint
  <2> QED
    BY <2>1 DEF Offered
<1>10. \A i, k \in P : i # k => deal[i] \cap deal[k] = {}
  BY <1>6, LegsDisjoint
<1>11. UNION {deal[i] : i \in P} = UNION {Range(i.offered) : i \in P}
  <2>1. UNION {deal[i] : i \in P} = TicketsIn(P, receives)
    BY DEF TicketsIn
  <2>2. TicketsIn(P, Offered(P)) = UNION {Range(i.offered) : i \in P}
    BY DEF TicketsIn, Offered
  <2> QED
    BY <1>6, <2>1, <2>2
<1>12. deal \in [P -> SUBSET UNION {Range(i.offered) : i \in P}]
  BY <1>11
<1>13. \A i \in P : Exchange!AsksFor(i, deal[i])
  BY <1>2, <1>6, SatisfiesAsksFor
<1>14. ASSUME NEW t \in TokenId
       PROVE  \/ \E i \in P : t \in deal[i] /\ Holder'[t] = i.owner
              \/ t \notin UNION {deal[i] : i \in P} /\ Holder'[t] = Holder[t]
  <2>1. /\ depositor'[t] = IF t \in TicketsIn(P, receives) THEN NoOne ELSE depositor[t]
        /\ ownerOf'[t] = IF t \in TicketsIn(P, receives)
                             THEN Recipients(P, receives)[t] ELSE ownerOf[t]
    BY <1>3 DEF Execute, ReleaseBatch, Recipients
  <2>2. Holder'[t] = IF depositor'[t] # NoOne THEN depositor'[t] ELSE ownerOf'[t]
    BY DEF Holder
  <2>3. ASSUME NEW i \in P, t \in deal[i] PROVE Holder'[t] = i.owner
    BY <1>6, <2>1, <2>2, <2>3, RecipientIsOwner
  <2>4. CASE t \notin UNION {deal[i] : i \in P}
    <3>1. t \notin TicketsIn(P, receives)
      BY <2>4 DEF TicketsIn
    <3> QED
      BY <2>1, <2>2, <2>4, <3>1 DEF Holder
  <2> QED
    BY <2>3, <2>4
<1>15. ASSUME NEW u \in User
       PROVE  /\ Purse'[u] = Purse[u] - SumFunctionOnSet(net, {i \in P : i.owner = u})
              /\ Purse'[u] >= 0
  <2>1. usdc'[u] = usdc[u] - OwnerNet(P, net, u)
    BY <1>3 DEF Execute, MovePayments
  <2>2. usdc'[u] >= 0
    BY SettlePreserves DEF IInv, TypeOK
  <2> QED
    BY <2>1, <2>2 DEF OwnerNet, Purse
<1>16. \A i \in P : net[i] <= i.maxNetPay
  BY <1>3 DEF WithinBudget
<1>17. SumFunctionOnSet(net, P) = 0
  BY <1>3 DEF Balanced
<1>18. UNCHANGED <<meta, redeemed, now>>
  BY <1>3 DEF Execute, ReleaseBatch
<1>19. \E d \in [P -> SUBSET UNION {Exchange!Gives(i) : i \in P}] :
          /\ \A i \in P : Exchange!AsksFor(i, d[i])
          /\ \A i, k \in P : i # k => d[i] \cap d[k] = {}
          /\ UNION {d[i] : i \in P} = UNION {Exchange!Gives(i) : i \in P}
          /\ \A t \in TokenId :
              \/ \E i \in P : t \in d[i] /\ Holder'[t] = i.owner
              \/ t \notin UNION {d[i] : i \in P} /\ Holder'[t] = Holder[t]
  <2> HIDE DEF deal
  <2> QED
    BY <1>10, <1>11, <1>12, <1>13, <1>14, SameRange DEF Exchange!Gives
<1>20. \E pays \in [P -> NetPayment] :
          /\ \A i \in P : pays[i] <= i.maxNetPay
          /\ Exchange!SumFunctionOnSet(pays, P) = 0
          /\ \A u \in User :
              /\ Purse'[u] = Purse[u] - Exchange!SumFunctionOnSet(pays, {i \in P : i.owner = u})
              /\ Purse'[u] >= 0
  BY <1>15, <1>16, <1>17, SameSum
<1>21. /\ \A i \in P :
          /\ now <= i.deadline
          /\ \A t \in Exchange!Gives(i) : t \in TokenId /\ Holder[t] = i.owner /\ t \notin redeemed
       /\ \A i, k \in P : i # k => Exchange!Gives(i) \cap Exchange!Gives(k) = {}
  BY <1>7, <1>8, <1>9, SameRange DEF Exchange!Gives
<1>22. Exchange!Fulfil(P)
  <2> HIDE DEF deal
  <2> QED
    BY <1>5, <1>18, <1>19, <1>20, <1>21 DEF Exchange!Fulfil
<1> QED
  BY <1>4, <1>22 DEF Exchange!Exchange

(* The four contracts implement the marketplace: whatever is minted, moved,*)
(* deposited, signed, relayed, revoked, paid and proposed, by whomever,    *)
(* every transaction is a step of the abstract exchange or invisible in it.*)
THEOREM ContractsImplementExchange == Spec => ImplementsExchange
<1>1. ASSUME IInv, [Next]_vars PROVE [Exchange!Next]_(Exchange!vars)
  <2>1. UNCHANGED vars => UNCHANGED Exchange!vars
    BY DEF vars, ticketVars, escrowVars, registryVars, cashVars, Exchange!vars, Holder, Purse
  <2>2. Exchange!Exchange => Exchange!Next
    BY DEF Exchange!Next
  <2> QED
    BY <1>1, <2>1, <2>2, TicketStepMaps, EscrowStepMaps, RegistryStepMaps, CashStepMaps,
       TimeStepMaps, SettleMaps DEF Next
<1>2. IInv /\ [Next]_vars => [Exchange!Next]_(Exchange!vars)
  BY <1>1
<1>3. Spec => Exchange!Spec
  BY <1>2, ExchangeInit, Invariance, PTL DEF Spec, Exchange!Spec
<1> QED
  BY <1>3 DEF ImplementsExchange

-----------------------------------------------------------------------------
(* Induction over the size of a set, told with sets of sizes and of sets.  *)
LEMMA LeastNatural ==
    ASSUME NEW T \in SUBSET Nat, T # {}
    PROVE  \E m \in T : \A n \in T : m <= n
<1>1. \E m \in T : \A n \in T : <<n, m>> \notin OpToRel(<, Nat)
  BY WFMin, NatLessThanWellFounded
<1>2. PICK m \in T : \A n \in T : <<n, m>> \notin {ss \in Nat \X Nat : ss[1] < ss[2]}
  BY <1>1 DEF OpToRel
<1>3. \A n \in T : ~(n < m)
  BY <1>2
<1> QED
  BY <1>3

LEMMA InductionOnNat ==
    ASSUME NEW Good, 0 \in Good, \A n \in Nat : n \in Good => n + 1 \in Good
    PROVE  Nat \subseteq Good
<1> SUFFICES ASSUME Nat \ Good # {} PROVE FALSE
  OBVIOUS
<1>1. PICK m \in Nat \ Good : \A n \in Nat \ Good : m <= n
  BY LeastNatural
<1>2. m # 0 /\ m - 1 \in Nat
  BY <1>1
<1>3. m - 1 \in Good
  BY <1>1, <1>2
<1>4. (m - 1) + 1 = m
  BY <1>1
<1> QED
  BY <1>1, <1>2, <1>3, <1>4

LEMMA InductionOnSubsets ==
    ASSUME NEW S, IsFiniteSet(S), NEW Good,
           \A T \in SUBSET S : (\A x \in T : T \ {x} \in Good) => T \in Good
    PROVE  SUBSET S \subseteq Good
<1> DEFINE Sized == {n \in Nat : \A T \in SUBSET S : Cardinality(T) = n => T \in Good}
<1>0. ASSUME NEW T \in SUBSET S PROVE IsFiniteSet(T) /\ Cardinality(T) \in Nat
  BY FS_Subset, FS_CardinalityType
<1>1. 0 \in Sized
  <2>1. \A T \in SUBSET S : Cardinality(T) = 0 => T = {}
    BY <1>0, FS_EmptySet
  <2> QED
    BY <2>1
<1>2. ASSUME NEW n \in Nat, n \in Sized PROVE n + 1 \in Sized
  <2>1. ASSUME NEW T \in SUBSET S, Cardinality(T) = n + 1 PROVE T \in Good
    <3>1. IsFiniteSet(T)
      BY <1>0
    <3>2. ASSUME NEW x \in T PROVE T \ {x} \in Good
      <4>1. Cardinality(T \ {x}) = Cardinality(T) - 1
        BY <3>1, FS_RemoveElement
      <4>2. Cardinality(T \ {x}) = n
        BY <2>1, <4>1
      <4> QED
        BY <1>2, <4>2
    <3> QED
      BY <3>2
  <2> QED
    BY <2>1
<1>3. Nat \subseteq Sized
  <2> HIDE DEF Sized
  <2> QED
    BY <1>1, <1>2, InductionOnNat
<1> QED
  BY <1>0, <1>3

(* The table of sums the community module's fold is defined by: g has the  *)
(* sum of every set of the collection D, first element first.              *)
First(s) == CHOOSE x \in s : TRUE

TableOn(g, f, D) ==
    g = [s \in D |-> IF s = {} THEN 0 ELSE f[First(s)] + g[s \ {First(s)}]]

LEMMA SumIsTable ==
    ASSUME NEW f, NEW S
    PROVE  SumFunctionOnSet(f, S) = (CHOOSE g : TableOn(g, f, SUBSET S))[S]
BY DEF SumFunctionOnSet, FoldFunctionOnSet, MapThenFoldSet, TableOn, First

LEMMA TableExists ==
    ASSUME NEW f, NEW S, IsFiniteSet(S)
    PROVE  \E g : TableOn(g, f, SUBSET S)
<1> DEFINE Upto(n) == {s \in SUBSET S : Cardinality(s) <= n}
           Good == {n \in Nat : \E g : TableOn(g, f, Upto(n))}
<1>0. ASSUME NEW s \in SUBSET S
      PROVE  /\ IsFiniteSet(s) /\ Cardinality(s) \in Nat
             /\ Cardinality(s) = 0 <=> s = {}
             /\ s # {} => First(s) \in s /\ Cardinality(s \ {First(s)}) = Cardinality(s) - 1
  <2>1. IsFiniteSet(s)
    BY FS_Subset
  <2>2. Cardinality(s) \in Nat
    BY <2>1, FS_CardinalityType
  <2>3. Cardinality(s) = 0 <=> s = {}
    BY <2>1, FS_EmptySet
  <2>4. s # {} => First(s) \in s
    BY DEF First
  <2>5. s # {} => Cardinality(s \ {First(s)}) = Cardinality(s) - 1
    BY <2>1, <2>4, FS_RemoveElement
  <2> QED
    BY <2>1, <2>2, <2>3, <2>4, <2>5
<1>1. 0 \in Good
  <2>1. Upto(0) = {{}}
    <3>1. ASSUME NEW s \in SUBSET S PROVE Cardinality(s) <= 0 <=> s = {}
      <4>1. Cardinality(s) \in Nat
        BY <1>0
      <4>2. Cardinality(s) <= 0 <=> Cardinality(s) = 0
        BY <4>1
      <4> QED
        BY <1>0, <4>2
    <3> QED
      BY <3>1
  <2>2. TableOn([s \in {{}} |-> 0], f, {{}})
    BY DEF TableOn
  <2> QED
    BY <2>1, <2>2
<1>2. ASSUME NEW n \in Nat, n \in Good PROVE n + 1 \in Good
  <2>1. PICK h : TableOn(h, f, Upto(n))
    BY <1>2
  <2> DEFINE g == [s \in Upto(n + 1) |->
                      IF s = {} THEN 0 ELSE f[First(s)] + h[s \ {First(s)}]]
  <2>2. ASSUME NEW s \in Upto(n) PROVE s \in Upto(n + 1) /\ g[s] = h[s]
    <3>1. s \in Upto(n + 1)
      <4>1. Cardinality(s) \in Nat /\ Cardinality(s) <= n
        BY <1>0
      <4>2. Cardinality(s) <= n + 1
        BY <4>1
      <4> QED
        BY <4>2
    <3>2. h[s] = IF s = {} THEN 0 ELSE f[First(s)] + h[s \ {First(s)}]
      BY <2>1 DEF TableOn
    <3> QED
      BY <3>1, <3>2
  <2>3. ASSUME NEW s \in Upto(n + 1), s # {} PROVE s \ {First(s)} \in Upto(n)
    BY <1>0, <2>3
  <2>4. ASSUME NEW s \in Upto(n + 1)
        PROVE  g[s] = IF s = {} THEN 0 ELSE f[First(s)] + g[s \ {First(s)}]
    <3>1. g[s] = IF s = {} THEN 0 ELSE f[First(s)] + h[s \ {First(s)}]
      OBVIOUS
    <3>2. s # {} => g[s \ {First(s)}] = h[s \ {First(s)}]
      BY <2>2, <2>3
    <3> HIDE DEF g
    <3> QED
      BY <3>1, <3>2
  <2>5. g = [s \in Upto(n + 1) |-> g[s]]
    OBVIOUS
  <2>6. TableOn(g, f, Upto(n + 1))
    <3> HIDE DEF g, Upto
    <3> QED
      BY <2>4, <2>5 DEF TableOn
  <2> HIDE DEF Upto, g
  <2>7. \E table : TableOn(table, f, Upto(n + 1))
    BY <2>6
  <2> QED
    BY <2>7
<1>3. Nat \subseteq Good
  <2> HIDE DEF Good
  <2> QED
    BY <1>1, <1>2, InductionOnNat
<1>4. Cardinality(S) \in Nat /\ Upto(Cardinality(S)) = SUBSET S
  <2>1. Cardinality(S) \in Nat
    BY FS_CardinalityType
  <2>2. \A s \in SUBSET S : Cardinality(s) <= Cardinality(S)
    BY FS_Subset
  <2> QED
    BY <2>1, <2>2
<1>5. Cardinality(S) \in Good
  BY <1>3, <1>4
<1> QED
  BY <1>4, <1>5

LEMMA TablesAgree ==
    ASSUME NEW f, NEW S, IsFiniteSet(S), NEW T \in SUBSET S, NEW g, NEW h,
           TableOn(g, f, SUBSET S), TableOn(h, f, SUBSET T)
    PROVE  \A s \in SUBSET T : g[s] = h[s]
<1> DEFINE Good == {s \in SUBSET T : g[s] = h[s]}
<1>1. /\ \A s \in SUBSET S : g[s] = IF s = {} THEN 0 ELSE f[First(s)] + g[s \ {First(s)}]
      /\ \A s \in SUBSET T : h[s] = IF s = {} THEN 0 ELSE f[First(s)] + h[s \ {First(s)}]
  BY DEF TableOn
<1>3. ASSUME NEW s \in SUBSET T, \A x \in s : s \ {x} \in Good PROVE s \in Good
  <2>1. CASE s = {}
    BY <1>1, <2>1
  <2>2. CASE s # {}
    <3>1. First(s) \in s
      BY <2>2 DEF First
    <3>2. g[s \ {First(s)}] = h[s \ {First(s)}]
      BY <1>3, <3>1
    <3> QED
      BY <1>1, <2>2, <3>2
  <2> QED
    BY <2>1, <2>2
<1>4. IsFiniteSet(T)
  BY FS_Subset
<1>5. SUBSET T \subseteq Good
  <2> HIDE DEF Good
  <2> QED
    BY <1>3, <1>4, InductionOnSubsets
<1> QED
  BY <1>5

(* What a sum is: nothing over no element, and otherwise one element and   *)
(* the sum over the rest.                                                  *)
LEMMA SumUnfold ==
    ASSUME NEW f, NEW S, IsFiniteSet(S)
    PROVE  SumFunctionOnSet(f, S) =
              IF S = {} THEN 0
              ELSE f[First(S)] + SumFunctionOnSet(f, S \ {First(S)})
<1> DEFINE table(T) == CHOOSE g : TableOn(g, f, SUBSET T)
<1>1. ASSUME NEW T, IsFiniteSet(T) PROVE TableOn(table(T), f, SUBSET T)
  BY <1>1, TableExists
<1>2. TableOn(table(S), f, SUBSET S)
  BY <1>1
<1>3. table(S)[S] = IF S = {} THEN 0 ELSE f[First(S)] + table(S)[S \ {First(S)}]
  <2> HIDE DEF table
  <2> QED
    BY <1>2 DEF TableOn
<1>4. table(S)[S \ {First(S)}] = table(S \ {First(S)})[S \ {First(S)}]
  <2> DEFINE T == S \ {First(S)}
  <2>1. T \in SUBSET S /\ IsFiniteSet(T)
    BY FS_Subset
  <2>2. TableOn(table(T), f, SUBSET T)
    BY <1>1, <2>1
  <2> HIDE DEF table, T
  <2>3. \A s \in SUBSET T : table(S)[s] = table(T)[s]
    BY <1>2, <2>1, <2>2, TablesAgree
  <2> QED
    BY <2>3 DEF T
<1>5. \A T : SumFunctionOnSet(f, T) = table(T)[T]
  BY SumIsTable
<1> HIDE DEF table
<1> QED
  BY <1>3, <1>4, <1>5

LEMMA SumOfInts ==
    ASSUME NEW S, IsFiniteSet(S), NEW f, \A x \in S : f[x] \in Int
    PROVE  \A T \in SUBSET S : SumFunctionOnSet(f, T) \in Int
<1> DEFINE Good == {T \in SUBSET S : SumFunctionOnSet(f, T) \in Int}
<1>1. ASSUME NEW T \in SUBSET S, \A x \in T : T \ {x} \in Good PROVE T \in Good
  <2>1. IsFiniteSet(T)
    BY FS_Subset
  <2>2. SumFunctionOnSet(f, T) =
            IF T = {} THEN 0 ELSE f[First(T)] + SumFunctionOnSet(f, T \ {First(T)})
    BY <2>1, SumUnfold
  <2>3. CASE T = {}
    BY <2>2, <2>3
  <2>4. CASE T # {}
    <3>1. First(T) \in T
      BY <2>4 DEF First
    <3>2. SumFunctionOnSet(f, T \ {First(T)}) \in Int /\ f[First(T)] \in Int
      BY <1>1, <3>1
    <3>3. SumFunctionOnSet(f, T) \in Int
      BY <2>2, <2>4, <3>2
    <3> QED
      BY <3>3
  <2> QED
    BY <2>3, <2>4
<1>2. SUBSET S \subseteq Good
  <2> HIDE DEF Good
  <2> QED
    BY <1>1, InductionOnSubsets
<1> QED
  BY <1>2

LEMMA SumOfNone == ASSUME NEW f PROVE SumFunctionOnSet(f, {}) = 0
BY SumUnfold, FS_EmptySet

(* Whichever element is added first, the sum is the same.                  *)
LEMMA SumRemove ==
    ASSUME NEW S, IsFiniteSet(S), NEW f, \A x \in S : f[x] \in Int
    PROVE  \A x \in S : SumFunctionOnSet(f, S) = f[x] + SumFunctionOnSet(f, S \ {x})
<1> DEFINE sum(T) == SumFunctionOnSet(f, T)
           Good == {T \in SUBSET S : \A x \in T : sum(T) = f[x] + sum(T \ {x})}
<1>0. ASSUME NEW T \in SUBSET S
      PROVE  /\ sum(T) \in Int
             /\ T # {} => First(T) \in T /\ sum(T) = f[First(T)] + sum(T \ {First(T)})
  <2>1. IsFiniteSet(T)
    BY FS_Subset
  <2>2. sum(T) \in Int
    BY SumOfInts
  <2> QED
    BY <2>1, <2>2, SumUnfold DEF First
<1> HIDE DEF sum
<1>1. ASSUME NEW T \in SUBSET S, \A x \in T : T \ {x} \in Good PROVE T \in Good
  <2> SUFFICES ASSUME NEW x \in T PROVE sum(T) = f[x] + sum(T \ {x})
    OBVIOUS
  <2> DEFINE c == First(T)
  <2>1. c \in T /\ sum(T) = f[c] + sum(T \ {c})
    BY <1>0
  <2> HIDE DEF c
  <2>2. CASE x = c
    BY <2>1, <2>2
  <2>3. CASE x # c
    <3>1. sum(T \ {c}) = f[x] + sum((T \ {c}) \ {x})
      BY <1>1, <2>1, <2>3
    <3>2. sum(T \ {x}) = f[c] + sum((T \ {x}) \ {c})
      BY <1>1, <2>1, <2>3
    <3>3. (T \ {c}) \ {x} = (T \ {x}) \ {c}
      OBVIOUS
    <3> DEFINE rest == sum((T \ {x}) \ {c})
    <3>4. rest \in Int /\ f[c] \in Int /\ f[x] \in Int
      BY <1>0, <2>1
    <3> HIDE DEF rest
    <3>5. sum(T) = f[c] + (f[x] + rest) /\ sum(T \ {x}) = f[c] + rest
      BY <2>1, <3>1, <3>2, <3>3 DEF rest
    <3> QED
      BY <3>4, <3>5
  <2> QED
    BY <2>2, <2>3
<1>2. SUBSET S \subseteq Good
  <2> HIDE DEF Good
  <2> QED
    BY <1>1, InductionOnSubsets
<1> QED
  BY <1>2 DEF sum

LEMMA SumOfSame ==
    ASSUME NEW S, IsFiniteSet(S), NEW f, NEW g, \A x \in S : f[x] = g[x] /\ f[x] \in Int
    PROVE  SumFunctionOnSet(f, S) = SumFunctionOnSet(g, S)
<1> DEFINE Good == {T \in SUBSET S : SumFunctionOnSet(f, T) = SumFunctionOnSet(g, T)}
<1>1. ASSUME NEW T \in SUBSET S, \A x \in T : T \ {x} \in Good PROVE T \in Good
  <2>1. IsFiniteSet(T)
    BY FS_Subset
  <2>2. /\ SumFunctionOnSet(f, T) =
              IF T = {} THEN 0 ELSE f[First(T)] + SumFunctionOnSet(f, T \ {First(T)})
        /\ SumFunctionOnSet(g, T) =
              IF T = {} THEN 0 ELSE g[First(T)] + SumFunctionOnSet(g, T \ {First(T)})
    BY <2>1, SumUnfold
  <2>3. T # {} => First(T) \in T
    BY DEF First
  <2>4. T # {} => SumFunctionOnSet(f, T \ {First(T)}) = SumFunctionOnSet(g, T \ {First(T)})
    BY <1>1, <2>3
  <2> QED
    BY <2>2, <2>3, <2>4
<1>2. SUBSET S \subseteq Good
  <2> HIDE DEF Good
  <2> QED
    BY <1>1, InductionOnSubsets
<1> QED
  BY <1>2

(* Sums are taken away from each other place by place.                     *)
LEMMA SumOfDifferences ==
    ASSUME NEW S, IsFiniteSet(S), NEW f, NEW g, NEW h,
           \A x \in S : f[x] \in Int /\ g[x] \in Int /\ h[x] = f[x] - g[x]
    PROVE  SumFunctionOnSet(h, S) = SumFunctionOnSet(f, S) - SumFunctionOnSet(g, S)
<1> DEFINE sf(T) == SumFunctionOnSet(f, T)
           sg(T) == SumFunctionOnSet(g, T)
           sh(T) == SumFunctionOnSet(h, T)
           Good == {T \in SUBSET S : sh(T) = sf(T) - sg(T)}
<1>0. \A x \in S : h[x] \in Int
  OBVIOUS
<1>i. \A T \in SUBSET S : sf(T) \in Int /\ sg(T) \in Int /\ sh(T) \in Int
  BY <1>0, SumOfInts
<1>e. sf({}) = 0 /\ sg({}) = 0 /\ sh({}) = 0
  BY SumOfNone
<1>r. ASSUME NEW T \in SUBSET S, NEW x \in T
      PROVE  /\ sf(T) = f[x] + sf(T \ {x})
             /\ sg(T) = g[x] + sg(T \ {x})
             /\ sh(T) = h[x] + sh(T \ {x})
  <2>1. IsFiniteSet(T)
    BY FS_Subset
  <2> QED
    BY <1>0, <2>1, SumRemove
<1> HIDE DEF sf, sg, sh
<1>1. ASSUME NEW T \in SUBSET S, \A x \in T : T \ {x} \in Good PROVE T \in Good
  <2>1. CASE T = {}
    BY <1>e, <2>1
  <2>2. CASE T # {}
    <3>1. PICK x \in T : TRUE
      BY <2>2
    <3>2. sh(T \ {x}) = sf(T \ {x}) - sg(T \ {x})
      BY <1>1, <3>1
    <3>3. /\ sf(T \ {x}) \in Int /\ sg(T \ {x}) \in Int
          /\ f[x] \in Int /\ g[x] \in Int /\ h[x] = f[x] - g[x]
      BY <1>i, <3>1
    <3>4. sh(T) = sf(T) - sg(T)
      BY <1>r, <3>1, <3>2, <3>3
    <3> QED
      BY <3>4
  <2> QED
    BY <2>1, <2>2
<1>2. SUBSET S \subseteq Good
  <2> HIDE DEF Good
  <2> QED
    BY <1>1, InductionOnSubsets
<1> QED
  BY <1>2 DEF sf, sg, sh

(* What everybody pays, summed over the people, is what the intents pay.   *)
LEMMA SumByOwner ==
    ASSUME NEW U, IsFiniteSet(U), NEW P, IsFiniteSet(P), NEW net,
           \A i \in P : i.owner \in U /\ net[i] \in Int
    PROVE  SumFunctionOnSet([u \in U |-> SumFunctionOnSet(net, {i \in P : i.owner = u})], U)
              = SumFunctionOnSet(net, P)
<1> DEFINE part(Q, u) == SumFunctionOnSet(net, {i \in Q : i.owner = u})
           by(Q) == [u \in U |-> part(Q, u)]
           total(Q) == SumFunctionOnSet(by(Q), U)
           Good == {Q \in SUBSET P : total(Q) = SumFunctionOnSet(net, Q)}
<1>0. ASSUME NEW Q \in SUBSET P, NEW u \in U PROVE part(Q, u) \in Int
  <2>1. {i \in Q : i.owner = u} \in SUBSET P
    OBVIOUS
  <2> QED
    BY <2>1, SumOfInts
<1>1. ASSUME NEW Q \in SUBSET P, \A x \in Q : Q \ {x} \in Good PROVE Q \in Good
  <2>1. CASE Q = {}
    <3> DEFINE none == [u \in U |-> 0]
    <3>1. by({}) = none
      <4>1. \A u \in U : {i \in {} : i.owner = u} = {}
        OBVIOUS
      <4>2. \A u \in U : part({}, u) = 0
        BY <4>1, SumOfNone
      <4> HIDE DEF part
      <4> QED
        BY <4>2
    <3>2. \A u \in U : none[u] \in Int /\ none[u] = none[u] - none[u]
      OBVIOUS
    <3> HIDE DEF none
    <3>3. SumFunctionOnSet(none, U) = SumFunctionOnSet(none, U) - SumFunctionOnSet(none, U)
      BY <3>2, SumOfDifferences
    <3>4. SumFunctionOnSet(none, U) \in Int
      BY <3>2, SumOfInts
    <3>5. SumFunctionOnSet(none, U) = 0
      BY <3>3, <3>4
    <3> HIDE DEF by
    <3> QED
      BY <2>1, <3>1, <3>5, SumOfNone
  <2>2. CASE Q # {}
    <3>1. PICK x \in Q : TRUE
      BY <2>2
    <3> DEFINE R == Q \ {x}
               v == x.owner
    <3>2. v \in U /\ net[x] \in Int /\ R \in SUBSET P
      BY <3>1
    <3>3. part(Q, v) = net[x] + part(R, v)
      <4> DEFINE S == {i \in Q : i.owner = v}
      <4>1. /\ IsFiniteSet(S) /\ x \in S
            /\ \A i \in S : net[i] \in Int
            /\ S \ {x} = {i \in R : i.owner = v}
        <5>1. S \in SUBSET P
          OBVIOUS
        <5>2. IsFiniteSet(S)
          BY <5>1, FS_Subset
        <5> QED
          BY <3>1, <5>1, <5>2
      <4> HIDE DEF S
      <4>2. SumFunctionOnSet(net, S) = net[x] + SumFunctionOnSet(net, S \ {x})
        BY <4>1, SumRemove
      <4> QED
        BY <4>1, <4>2 DEF S
    <3>4. \A u \in U \ {v} : by(Q)[u] = by(R)[u]
      <4>1. \A u \in U \ {v} : {i \in Q : i.owner = u} = {i \in R : i.owner = u}
        OBVIOUS
      <4> QED
        BY <4>1
    <3>5. /\ \A u \in U : by(Q)[u] \in Int /\ by(R)[u] \in Int
          /\ by(Q)[v] = net[x] + by(R)[v]
      <4> HIDE DEF part
      <4> QED
        BY <1>0, <3>2, <3>3
    <3> HIDE DEF by, R, v
    <3>6. IsFiniteSet(U \ {v})
      BY FS_Subset
    <3>7. /\ total(Q) = by(Q)[v] + SumFunctionOnSet(by(Q), U \ {v})
          /\ total(R) = by(R)[v] + SumFunctionOnSet(by(R), U \ {v})
      BY <3>2, <3>5, SumRemove
    <3>8. SumFunctionOnSet(by(Q), U \ {v}) = SumFunctionOnSet(by(R), U \ {v})
      BY <3>4, <3>5, <3>6, SumOfSame
    <3>9. SumFunctionOnSet(by(R), U \ {v}) \in Int
      BY <3>5, SumOfInts
    <3>10. total(Q) = net[x] + total(R)
      <4>1. by(R)[v] \in Int
        BY <3>2, <3>5
      <4> DEFINE a == by(R)[v]
                 r == SumFunctionOnSet(by(R), U \ {v})
      <4>2. total(Q) = (net[x] + a) + r /\ total(R) = a + r
        BY <3>5, <3>7, <3>8
      <4>3. a \in Int /\ r \in Int
        BY <3>9, <4>1
      <4> HIDE DEF a, r, total
      <4> QED
        BY <3>2, <4>2, <4>3
    <3>11. SumFunctionOnSet(net, Q) = net[x] + SumFunctionOnSet(net, R)
      <4>1. IsFiniteSet(Q)
        BY FS_Subset
      <4>2. \A i \in Q : net[i] \in Int
        OBVIOUS
      <4> QED
        BY <3>1, <4>1, <4>2, SumRemove DEF R
    <3>12. total(R) = SumFunctionOnSet(net, R)
      BY <1>1, <3>1 DEF R
    <3> QED
      BY <3>10, <3>11, <3>12
  <2> QED
    BY <2>1, <2>2
<1>2. SUBSET P \subseteq Good
  <2> HIDE DEF Good
  <2> QED
    BY <1>1, InductionOnSubsets
<1> QED
  BY <1>2

-----------------------------------------------------------------------------
(* The pulls and the pushes of a settlement cancel out.                    *)
LEMMA NetTypes ==
    ASSUME NEW P \in SUBSET Intent
    PROVE  /\ IsFiniteSet(P) /\ \A i \in P : i.owner \in User
           /\ \A net \in [P -> NetPayment] : \A i \in P : net[i] \in Int
<1>1. IsFiniteSet(P)
  BY FiniteAssumption, FS_Subset
<1>2. NetPayment \subseteq Int
  BY SettlementAssumption DEF Int256
<1> QED
  BY <1>1, <1>2, IntentAssumption

LEMMA NothingGathered ==
    ASSUME NEW P \in SUBSET Intent, NEW net, \A i \in P : net[i] \in Int, Balanced(P, net)
    PROVE  Gathered(P, net) = 0
<1>1. Gathered(P, net) = SumFunctionOnSet(net, P)
  <2>1. IsFiniteSet(User) /\ IsFiniteSet(P) /\ \A i \in P : i.owner \in User /\ net[i] \in Int
    BY NetTypes, FiniteAssumption
  <2> QED
    BY <2>1, SumByOwner DEF Gathered, OwnerNet
<1> QED
  BY <1>1 DEF Balanced

LEMMA InvChecksSuffice == IInv => ChecksSuffice
<1> SUFFICES ASSUME IInv,
                    NEW P \in (SUBSET Intent) \ {{}},
                    IntentsLive(P), OffersEscrowed(P), OffersUnused(P),
                    NEW receives \in [P -> Bundle],
                    Conserves(P, receives)
             PROVE  /\ \A t \in TicketsIn(P, receives) : ownerOf[t] = EscrowAddr
                    /\ \A net \in [P -> NetPayment] :
                        WithinBudget(P, net) /\ Balanced(P, net) /\ CanPay(P, net) =>
                            Payable(P, net)
  BY DEF ChecksSuffice
<1> USE AccountAssumption
<1>1. ASSUME NEW t \in TicketsIn(P, receives) PROVE ownerOf[t] = EscrowAddr
  <2>1. t \in TicketsIn(P, Offered(P))
    BY DEF Conserves
  <2>2. PICK i \in P : t \in Range(i.offered)
    BY <2>1 DEF TicketsIn, Offered
  <2>3. t \in TokenId /\ depositor[t] = i.owner
    BY <2>2 DEF OffersEscrowed
  <2>4. i.owner # NoOne
    BY IntentAssumption
  <2> QED
    BY <2>3, <2>4 DEF IInv, DepositIsBacked
<1>2. ASSUME NEW net \in [P -> NetPayment], Balanced(P, net), CanPay(P, net)
      PROVE  Payable(P, net)
  <2>1. Gathered(P, net) = 0
    BY <1>2, NetTypes, NothingGathered
  <2>2. usdc[SettlementAddr] \in Nat
    BY DEF IInv, TypeOK
  <2>3. usdc[SettlementAddr] + Gathered(P, net) \in Nat
    BY <2>1, <2>2
  <2> QED
    BY <1>2, <2>3 DEF CanPay, Payable
<1> QED
  BY <1>1, <1>2

(* A settlement's pulls and pushes leave the contract as it was, and the   *)
(* users together with what they had.                                      *)
LEMMA MoneyConserved ==
    ASSUME IInv, NEW P \in SUBSET Intent, NEW net, \A i \in P : net[i] \in Int,
           Balanced(P, net), MovePayments(P, net)
    PROVE  /\ usdc'[SettlementAddr] = usdc[SettlementAddr]
           /\ SumFunctionOnSet(usdc', User) = SumFunctionOnSet(usdc, User)
<1> USE AccountAssumption
<1> DEFINE pays == [u \in User |-> OwnerNet(P, net, u)]
<1>t. usdc \in [User \cup {SettlementAddr} -> Nat]
  BY DEF IInv, TypeOK
<1>1. Gathered(P, net) = 0
  BY NothingGathered
<1>2. usdc' = [a \in User \cup {SettlementAddr} |->
                 IF a \in User THEN usdc[a] - OwnerNet(P, net, a)
                               ELSE usdc[a] + Gathered(P, net)]
  BY DEF MovePayments
<1>3. usdc'[SettlementAddr] = usdc[SettlementAddr]
  BY <1>t, <1>1, <1>2
<1>4. ASSUME NEW u \in User
      PROVE  usdc[u] \in Int /\ pays[u] \in Int /\ usdc'[u] = usdc[u] - pays[u]
  <2>1. {i \in P : i.owner = u} \in SUBSET P
    OBVIOUS
  <2>2. OwnerNet(P, net, u) \in Int
    BY <2>1, NetTypes, SumOfInts DEF OwnerNet
  <2>3. usdc[u] \in Int /\ usdc'[u] = usdc[u] - OwnerNet(P, net, u)
    BY <1>t, <1>2
  <2> QED
    BY <2>2, <2>3
<1>5. SumFunctionOnSet(pays, User) = 0
  BY <1>1 DEF Gathered
<1> HIDE DEF pays
<1>6. IsFiniteSet(User)
  BY FiniteAssumption
<1>7. SumFunctionOnSet(usdc', User) = SumFunctionOnSet(usdc, User) - SumFunctionOnSet(pays, User)
  BY <1>4, <1>6, SumOfDifferences
<1>8. SumFunctionOnSet(usdc, User) \in Int
  BY <1>4, <1>6, SumOfInts
<1> QED
  BY <1>3, <1>5, <1>7, <1>8

(* Only a settlement settles.                                              *)
LEMMA OnlySettleSettles ==
    ASSUME [Next]_vars, NEW i \in Intent, state[i] = "LIVE", state'[i] = "SETTLED", IInv
    PROVE  Settle
<1>t. state \in [Intent -> RegistryState]
  BY DEF IInv, TypeOK, RegistryTypeOK
<1>1. ASSUME RegistryStep PROVE FALSE
  <2>1. ASSUME NEW k \in Intent, Sign(k) PROVE FALSE
    BY <2>1 DEF Sign
  <2>2. ASSUME NEW k \in Intent, Commit(k) PROVE FALSE
    BY <2>2, <1>t DEF Commit
  <2>3. ASSUME NEW u \in User, NEW k \in Intent, Revoke(u, k) PROVE FALSE
    BY <2>3, <1>t DEF Revoke
  <2> QED
    BY <1>1, <2>1, <2>2, <2>3 DEF RegistryStep
<1>2. ASSUME TicketStep \/ EscrowStep \/ CashStep \/ TimeStep \/ UNCHANGED vars PROVE FALSE
  BY <1>2 DEF TicketStep, EscrowStep, CashStep, TimeStep, vars, registryVars
<1> QED
  BY <1>1, <1>2 DEF Next

(* Whatever is proposed in whatever reachable state: a proposal that       *)
(* passes V0 to V8 never reverts while its legs are executed.              *)
THEOREM PassedChecksExecute == Spec => []ChecksSuffice
BY InvChecksSuffice, Invariance, PTL

(* The settlement contract keeps and loses no USDC when it settles, and    *)
(* the users together have after a settlement what they had before.        *)
THEOREM ContractKeepsNothing == Spec => SettlementKeepsNothing
<1> DEFINE Settles == \E i \in Intent : state[i] = "LIVE" /\ state'[i] = "SETTLED"
           Kept == /\ usdc'[SettlementAddr] = usdc[SettlementAddr]
                   /\ SumFunctionOnSet(usdc', User) = SumFunctionOnSet(usdc, User)
<1>1. ASSUME IInv, [Next]_vars, Settles PROVE Kept
  <2>1. Settle
    BY <1>1, OnlySettleSettles
  <2>2. PICK P \in (SUBSET Intent) \ {{}} :
            \E receives \in [P -> Bundle] : \E net \in [P -> NetPayment] :
                Balanced(P, net) /\ Execute(P, receives, net)
    BY <2>1 DEF Settle
  <2>3. PICK net \in [P -> NetPayment] : Balanced(P, net) /\ MovePayments(P, net)
    BY <2>2 DEF Execute
  <2> QED
    BY <1>1, <2>3, NetTypes, MoneyConserved
<1>2. IInv /\ [Next]_vars => [Settles => Kept]_vars
  BY <1>1
<1> HIDE DEF Settles, Kept
<1>3. Spec => [][Settles => Kept]_vars
  BY <1>2, Invariance, PTL DEF Spec
<1> QED
  BY <1>3 DEF SettlementKeepsNothing, Settles, Kept

(* All of it, for any people, intents, tickets, payments and times.        *)
THEOREM SettlementIsSound == Spec => SettlesSoundly
<1>1. Exchange!Spec => [][Exchange!Next]_(Exchange!vars)
  BY PTL DEF Exchange!Spec
<1>2. Spec => [][Exchange!Next]_(Exchange!vars)
  BY <1>1, ContractsImplementExchange DEF ImplementsExchange
<1> QED
  BY <1>2, PassedChecksExecute, ContractKeepsNothing, PTL DEF SettlesSoundly, ExchangeSteps

-----------------------------------------------------------------------------
(* The index.  A fold over a log goes through a state after each event.    *)
Through(g, x, events, n) ==
    /\ g \in [0 .. n -> {g[k] : k \in 0 .. n}]
    /\ g[0] = x
    /\ \A k \in 1 .. n : g[k] = Handle(g[k - 1], events[k])

\* What the library's fold computes, for each subset of the positions.
FoldOn(g, x, events, D) ==
    g = [s \in D |-> IF s = {} THEN x ELSE Handle(g[s \ {Max(s)}], events[Max(s)])]

LEMMA FoldIsTable ==
    ASSUME NEW x, NEW events
    PROVE  FoldLeft(Handle, x, events)
               = (CHOOSE g : FoldOn(g, x, events, SUBSET DOMAIN events))[DOMAIN events]
BY DEF FoldLeft, MapThenFoldSet, FoldOn

(* The largest position of a set of positions up to n + 1.                 *)
LEMMA MaxIs ==
    ASSUME NEW S \in SUBSET Int, NEW m \in S, \A k \in S : k <= m
    PROVE  Max(S) = m
<1>1. \A k \in S : k \in Int
  OBVIOUS
<1>2. \A c \in S : (\A y \in S : c >= y) <=> c = m
  BY <1>1
<1>3. (CHOOSE c \in S : \A y \in S : c >= y) = m
  BY <1>2
<1> QED
  BY <1>3 DEF Max

LEMMA MaxOfPositions ==
    ASSUME NEW n \in Nat, NEW s \in SUBSET (1 .. n), s # {}
    PROVE  Max(s) \in s
<1> DEFINE Good == {m \in Nat : \A u \in SUBSET (1 .. m) : u # {} => Max(u) \in u}
<1>1. 0 \in Good
  <2>1. 1 .. 0 = {}
    OBVIOUS
  <2> QED
    BY <2>1
<1>2. ASSUME NEW m \in Nat, m \in Good PROVE m + 1 \in Good
  <2> SUFFICES ASSUME NEW u \in SUBSET (1 .. m + 1), u # {} PROVE Max(u) \in u
    OBVIOUS
  <2>1. CASE m + 1 \in u
    <3>1. u \in SUBSET Int /\ \A k \in u : k <= m + 1
      OBVIOUS
    <3> QED
      BY <2>1, <3>1, MaxIs
  <2>2. CASE m + 1 \notin u
    <3>1. u \in SUBSET (1 .. m)
      BY <2>2
    <3> QED
      BY <1>2, <3>1
  <2> QED
    BY <2>1, <2>2
<1>3. n \in Good
  <2> HIDE DEF Good
  <2> QED
    BY <1>1, <1>2, InductionOnNat
<1> QED
  BY <1>3

LEMMA FoldExists ==
    ASSUME NEW x, NEW events, NEW n \in Nat
    PROVE  \E g : FoldOn(g, x, events, SUBSET (1 .. n))
<1> DEFINE Good == {m \in Nat : \E g : FoldOn(g, x, events, SUBSET (1 .. m))}
<1>1. 0 \in Good
  <2>1. SUBSET (1 .. 0) = {{}}
    OBVIOUS
  <2>2. FoldOn([s \in {{}} |-> x], x, events, {{}})
    BY DEF FoldOn
  <2> QED
    BY <2>1, <2>2
<1>2. ASSUME NEW m \in Nat, m \in Good PROVE m + 1 \in Good
  <2>1. PICK h : FoldOn(h, x, events, SUBSET (1 .. m))
    BY <1>2
  <2> DEFINE g == [s \in SUBSET (1 .. m + 1) |->
                      IF m + 1 \in s THEN Handle(h[s \ {m + 1}], events[m + 1]) ELSE h[s]]
             Step(s) == IF s = {} THEN x ELSE Handle(g[s \ {Max(s)}], events[Max(s)])
  <2>2. ASSUME NEW s \in SUBSET (1 .. m) PROVE g[s] = h[s]
    <3>1. s \in SUBSET (1 .. m + 1) /\ m + 1 \notin s
      OBVIOUS
    <3> QED
      BY <3>1
  <2>3. ASSUME NEW s \in SUBSET (1 .. m + 1) PROVE g[s] = Step(s)
    <3>1. CASE m + 1 \in s
      <4>1. Max(s) = m + 1
        <5>1. s \in SUBSET Int /\ \A k \in s : k <= m + 1
          OBVIOUS
        <5> QED
          BY <3>1, <5>1, MaxIs
      <4>2. s \ {m + 1} \in SUBSET (1 .. m)
        OBVIOUS
      <4>3. g[s] = Handle(h[s \ {m + 1}], events[m + 1])
        BY <3>1
      <4>4. g[s \ {m + 1}] = h[s \ {m + 1}]
        BY <2>2, <4>2
      <4> HIDE DEF g
      <4> QED
        BY <3>1, <4>1, <4>3, <4>4
    <3>2. CASE m + 1 \notin s
      <4>1. s \in SUBSET (1 .. m)
        BY <3>2
      <4>2. g[s] = h[s]
        BY <2>2, <4>1
      <4>3. h[s] = IF s = {} THEN x ELSE Handle(h[s \ {Max(s)}], events[Max(s)])
        BY <2>1, <4>1 DEF FoldOn
      <4>4. g[s \ {Max(s)}] = h[s \ {Max(s)}]
        BY <2>2, <4>1
      <4> HIDE DEF g
      <4> QED
        BY <4>2, <4>3, <4>4
    <3> QED
      BY <3>1, <3>2
  <2>4. g = [s \in SUBSET (1 .. m + 1) |-> g[s]]
    OBVIOUS
  <2>5. FoldOn(g, x, events, SUBSET (1 .. m + 1))
    <3> HIDE DEF g
    <3> QED
      BY <2>3, <2>4 DEF FoldOn
  <2> HIDE DEF g
  <2> QED
    BY <2>5
<1>3. n \in Good
  <2> HIDE DEF Good
  <2> QED
    BY <1>1, <1>2, InductionOnNat
<1> QED
  BY <1>3

(* A fold over n events passes through n + 1 states, one handler apart.    *)
LEMMA FoldPasses ==
    ASSUME NEW x, NEW n \in Nat, NEW events, DOMAIN events = 1 .. n
    PROVE  \E g : Through(g, x, events, n) /\ FoldLeft(Handle, x, events) = g[n]
<1> DEFINE T == CHOOSE g : FoldOn(g, x, events, SUBSET (1 .. n))
           g == [k \in 0 .. n |-> T[1 .. k]]
<1>1. FoldOn(T, x, events, SUBSET (1 .. n))
  BY FoldExists
<1>2. FoldLeft(Handle, x, events) = T[1 .. n]
  BY FoldIsTable
<1> HIDE DEF T
<1>3. g[0] = x
  <2>1. 1 .. 0 = {} /\ 0 \in 0 .. n
    OBVIOUS
  <2>2. T[{}] = x
    BY <1>1 DEF FoldOn
  <2> QED
    BY <2>1, <2>2
<1>4. ASSUME NEW k \in 1 .. n PROVE g[k] = Handle(g[k - 1], events[k])
  <2>1. 1 .. k \in SUBSET (1 .. n) /\ 1 .. k # {} /\ k \in 0 .. n /\ k - 1 \in 0 .. n
    OBVIOUS
  <2>2. Max(1 .. k) = k
    <3>1. 1 .. k \in SUBSET Int /\ k \in 1 .. k /\ \A j \in 1 .. k : j <= k
      OBVIOUS
    <3> QED
      BY <3>1, MaxIs
  <2>3. (1 .. k) \ {k} = 1 .. (k - 1)
    OBVIOUS
  <2>4. T[1 .. k] = Handle(T[1 .. (k - 1)], events[k])
    BY <1>1, <2>1, <2>2, <2>3 DEF FoldOn
  <2> QED
    BY <2>1, <2>4
<1>5. g \in [0 .. n -> {g[k] : k \in 0 .. n}]
  OBVIOUS
<1>6. n \in 0 .. n
  OBVIOUS
<1>7. FoldLeft(Handle, x, events) = g[n]
  BY <1>2, <1>6
<1> HIDE DEF g
<1> QED
  BY <1>3, <1>4, <1>5, <1>7 DEF Through

-----------------------------------------------------------------------------
(* What one event does to the entities.                                    *)
TicketEntity == [owner : Account \cup {NoOne}, place : TicketMeta, escrowed : BOOLEAN,
                 depositor : User \cup {NoOne}, redeemed : BOOLEAN, known : BOOLEAN]

Entities == [tickets : [TokenId -> TicketEntity], intents : [Intent -> RegistryState],
             settlements : SUBSET SUBSET Intent]

\* A known ticket after a transfer of it.
Moved(k, from, to) ==
    [k EXCEPT !.owner = to, !.known = TRUE,
              !.escrowed = to = EscrowAddr \/ (k.escrowed /\ from # EscrowAddr),
              !.depositor = IF to = EscrowAddr THEN from
                            ELSE IF from = EscrowAddr THEN NoOne ELSE k.depositor]

LEMMA HandledTransfer ==
    ASSUME NEW x \in Entities, NEW from \in Account, NEW to \in Account, NEW t \in TokenId,
           from = EscrowAddr => to # EscrowAddr
    PROVE  /\ Handle(x, Transfer(from, to, t)) \in Entities
           /\ Handle(x, Transfer(from, to, t))
                = [x EXCEPT !.tickets[t] = Moved(x.tickets[t], from, to)]
<1> DEFINE e == Transfer(from, to, t)
<1>1. e.type = "Transfer" /\ e.from = from /\ e.to = to /\ e.token = t
  BY DEF Transfer
<1>2. from # NoOne
  BY AccountAssumption DEF Account
<1>3. Handle(x, e) = HandleTransfer(x, e)
  <2> HIDE DEF e
  <2> QED
    BY <1>1 DEF Handle
<1>4. x.tickets[t] \in TicketEntity
  BY DEF Entities
<1>5. HandleTransfer(x, e) = [x EXCEPT !.tickets[t] = Moved(x.tickets[t], from, to)]
  <2> HIDE DEF e
  <2> QED
    BY <1>1, <1>2, <1>4 DEF HandleTransfer, Moved, Entities, TicketEntity
<1>6. Moved(x.tickets[t], from, to) \in TicketEntity
  BY <1>4, AccountAssumption DEF Moved, TicketEntity, Account
<1>7. [x EXCEPT !.tickets[t] = Moved(x.tickets[t], from, to)] \in Entities
  <2> DEFINE m == Moved(x.tickets[t], from, to)
  <2> HIDE DEF m
  <2>1. m \in TicketEntity
    BY <1>6 DEF m
  <2>2. [x EXCEPT !.tickets[t] = m] \in Entities
    BY <2>1 DEF Entities
  <2> QED
    BY <2>2 DEF m
<1> QED
  BY <1>3, <1>5, <1>7

(* A transaction that moves a set of tickets emits one Transfer for each,  *)
(* in some order; the order makes no difference.                           *)
LEMMA BatchOrder ==
    ASSUME NEW ids \in SUBSET TokenId
    PROVE  /\ Cardinality(ids) \in Nat
           /\ SetToSeq(ids) \in [1 .. Cardinality(ids) -> ids]
           /\ \A a, b \in 1 .. Cardinality(ids) : SetToSeq(ids)[a] = SetToSeq(ids)[b] => a = b
           /\ \A t \in ids : \E a \in 1 .. Cardinality(ids) : SetToSeq(ids)[a] = t
<1>1. IsFiniteSet(ids)
  <2>1. TokenId = 0 .. MaxTickets - 1 /\ MaxTickets \in Nat
    BY TicketAssumption DEF TokenId
  <2>2. IsFiniteSet(TokenId)
    BY <2>1, FS_Interval
  <2> QED
    BY <2>2, FS_Subset
<1> DEFINE n == Cardinality(ids)
           f == SetToSeq(ids)
<1>2. n \in Nat /\ ExistsBijection(1 .. n, ids)
  BY <1>1, FS_CardinalityType
<1>3. \E h \in [1 .. n -> ids] : IsInjective(h)
  BY <1>2 DEF ExistsBijection, Bijection, Injection
<1>4. f \in [1 .. n -> ids] /\ IsInjective(f)
  BY <1>3 DEF SetToSeq
<1>5. Cardinality(1 .. n) = n
  BY <1>2, FS_Interval
<1>6. f \in Surjection(1 .. n, ids)
  <2>1. f \in Injection(1 .. n, ids)
    BY <1>4 DEF Injection
  <2> HIDE DEF f
  <2> QED
    BY <1>1, <1>5, <2>1, FS_Injection
<1> HIDE DEF f
<1>7. \A a, b \in 1 .. n : f[a] = f[b] => a = b
  BY <1>4 DEF IsInjective
<1>8. \A t \in ids : \E a \in 1 .. n : f[a] = t
  BY <1>6 DEF Surjection
<1> QED
  BY <1>2, <1>4, <1>7, <1>8 DEF f

\* The entities after a batch of transfers: each ticket of ids moved.
AllMoved(x, ids, from, to) ==
    [x EXCEPT !.tickets = [t \in TokenId |->
        IF t \in ids THEN Moved(x.tickets[t], from[t], to[t]) ELSE x.tickets[t]]]

LEMMA MovedType ==
    ASSUME NEW k \in TicketEntity, NEW from \in Account, NEW to \in Account,
           from = EscrowAddr => to # EscrowAddr
    PROVE  Moved(k, from, to) \in TicketEntity
BY AccountAssumption DEF Moved, TicketEntity, Account

LEMMA AllMovedType ==
    ASSUME NEW x \in Entities, NEW ids \in SUBSET TokenId, NEW from, NEW to,
           \A t \in ids : from[t] \in Account /\ to[t] \in Account
                              /\ (from[t] = EscrowAddr => to[t] # EscrowAddr)
    PROVE  AllMoved(x, ids, from, to) \in Entities
<1>1. \A t \in TokenId : x.tickets[t] \in TicketEntity
  BY DEF Entities
<1>2. \A t \in ids : Moved(x.tickets[t], from[t], to[t]) \in TicketEntity
  BY <1>1, MovedType
<1> DEFINE T == [t \in TokenId |-> IF t \in ids THEN Moved(x.tickets[t], from[t], to[t])
                                   ELSE x.tickets[t]]
<1>3. T \in [TokenId -> TicketEntity]
  BY <1>1, <1>2
<1>4. [x EXCEPT !.tickets = T] \in Entities
  <2> HIDE DEF T
  <2> QED
    BY <1>3 DEF Entities
<1> QED
  BY <1>4 DEF AllMoved

LEMMA BatchHandled ==
    ASSUME NEW x \in Entities, NEW ids \in SUBSET TokenId, NEW from, NEW to,
           \A t \in ids : from[t] \in Account /\ to[t] \in Account
                              /\ (from[t] = EscrowAddr => to[t] # EscrowAddr),
           NEW n \in Nat, Cardinality(ids) <= n, NEW events,
           \A a \in 1 .. Cardinality(ids) :
               LET t == SetToSeq(ids)[a] IN events[a] = Transfer(from[t], to[t], t),
           NEW g, Through(g, x, events, n)
    PROVE  g[Cardinality(ids)] = AllMoved(x, ids, from, to)
<1> DEFINE m == Cardinality(ids)
           f == SetToSeq(ids)
           Done(k) == {f[a] : a \in 1 .. k}
           Good == {k \in Nat : k <= m => g[k] = AllMoved(x, Done(k), from, to)}
<1>1. /\ m \in Nat /\ m <= n
      /\ f \in [1 .. m -> ids]
      /\ \A a, b \in 1 .. m : f[a] = f[b] => a = b
      /\ \A t \in ids : \E a \in 1 .. m : f[a] = t
  BY BatchOrder
<1>2. \A a \in 1 .. m : events[a] = Transfer(from[f[a]], to[f[a]], f[a])
  OBVIOUS
<1> HIDE DEF m, f
<1>3. 0 \in Good
  <2>1. Done(0) = {}
    OBVIOUS
  <2>2. AllMoved(x, {}, from, to) = x
    BY DEF AllMoved, Entities
  <2>3. g[0] = x
    BY DEF Through
  <2> QED
    BY <2>1, <2>2, <2>3
<1>4. ASSUME NEW k \in Nat, k \in Good PROVE k + 1 \in Good
  <2> SUFFICES ASSUME k + 1 <= m PROVE g[k + 1] = AllMoved(x, Done(k + 1), from, to)
    OBVIOUS
  <2> DEFINE y == AllMoved(x, Done(k), from, to)
             t == f[k + 1]
  <2>1. k + 1 \in 1 .. m /\ k + 1 \in 1 .. n /\ k <= m /\ (k + 1) - 1 = k
    BY <1>1
  <2>2. g[k] = y
    BY <1>4, <2>1
  <2>3. t \in ids /\ t \notin Done(k)
    <3>1. ASSUME NEW a \in 1 .. k PROVE f[a] # t
      <4>1. a \in 1 .. m /\ a # k + 1
        BY <1>1, <2>1
      <4> QED
        BY <1>1, <2>1, <4>1
    <3> QED
      BY <1>1, <2>1, <3>1
  <2>4. Done(k + 1) = Done(k) \cup {t}
    <3>1. \A a : a \in 1 .. k + 1 <=> a \in 1 .. k \/ a = k + 1
      OBVIOUS
    <3> QED
      BY <3>1
  <2>5. Done(k) \in SUBSET ids
    <3>1. \A a \in 1 .. k : a \in 1 .. m
      BY <2>1, <1>1
    <3> QED
      BY <1>1, <3>1
  <2> HIDE DEF Done, Good, t
  <2>6. y \in Entities
    BY <2>5, AllMovedType
  <2>7. g[k + 1] = Handle(y, Transfer(from[t], to[t], t))
    <3>1. g[k + 1] = Handle(g[k], events[k + 1])
      BY <2>1 DEF Through
    <3> QED
      BY <1>2, <2>1, <2>2, <3>1 DEF t
  <2>8. t \in TokenId /\ from[t] \in Account /\ to[t] \in Account
            /\ (from[t] = EscrowAddr => to[t] # EscrowAddr)
    BY <2>3
  <2>9. g[k + 1] = [y EXCEPT !.tickets[t] = Moved(y.tickets[t], from[t], to[t])]
    <3> HIDE DEF y
    <3> DEFINE u == from[t]
               v == to[t]
    <3>1. t \in TokenId /\ u \in Account /\ v \in Account /\ (u = EscrowAddr => v # EscrowAddr)
      BY ONLY <2>8
    <3>2. g[k + 1] = Handle(y, Transfer(u, v, t))
      BY ONLY <2>7
    <3> HIDE DEF u, v
    <3>3. Handle(y, Transfer(u, v, t)) = [y EXCEPT !.tickets[t] = Moved(y.tickets[t], u, v)]
      BY ONLY <2>6, <3>1, HandledTransfer
    <3>4. g[k + 1] = [y EXCEPT !.tickets[t] = Moved(y.tickets[t], u, v)]
      BY ONLY <3>2, <3>3
    <3> QED
      BY ONLY <3>4 DEF u, v
  <2>10. y.tickets[t] = x.tickets[t]
    BY <2>3, <2>8 DEF AllMoved, Entities
  <2>11. [y EXCEPT !.tickets[t] = Moved(x.tickets[t], from[t], to[t])]
            = AllMoved(x, Done(k) \cup {t}, from, to)
    BY <2>8 DEF AllMoved, Entities
  <2> QED
    BY <2>4, <2>9, <2>10, <2>11
<1>5. m \in Good
  <2> HIDE DEF Good
  <2> QED
    BY <1>1, <1>3, <1>4, InductionOnNat
<1>6. Done(m) = ids
  BY <1>1
<1>7. g[m] = AllMoved(x, Done(m), from, to)
  <2>1. m <= m
    BY <1>1
  <2> HIDE DEF Done
  <2> QED
    BY <1>5, <2>1
<1> QED
  BY <1>6, <1>7 DEF m

-----------------------------------------------------------------------------
(* The inductive invariant: the index goes through a state for every       *)
(* transaction it is behind, and the last of these shows the contracts.    *)
Event ==
    [type : {"Transfer"}, from : Account \cup {NoOne}, to : Account \cup {NoOne}, token : TokenId]
    \cup [type : {"TicketMinted"}, token : TokenId, to : Account, place : TicketMeta]
    \cup [type : {"TicketRedeemedEvt"}, token : TokenId]
    \cup [type : {"IntentCommitted", "IntentRevoked"}, intent : Intent]
    \cup [type : {"Settled"}, intents : SUBSET Intent]

Partitioned(x) ==
    /\ UNION x.settlements = {i \in Intent : x.intents[i] = "SETTLED"}
    /\ \A P, Q \in x.settlements : P = Q \/ P \cap Q = {}

\* Custody in the index: a ticket it knows is somewhere, and it is in escrow
\* for whom the index names.
InPlace(k) ==
    /\ k.known <=> k.owner # NoOne
    /\ k.escrowed <=> k.owner = EscrowAddr /\ k.depositor # NoOne

Sound(x) == Partitioned(x) /\ \A t \in TokenId : InPlace(x.tickets[t])

\* From one transaction to the next the index lets an intent go forward only.
Advance == {<<"NONE", "LIVE">>, <<"LIVE", "REVOKED">>, <<"LIVE", "SETTLED">>}

Advances(x, y) ==
    \A i \in Intent : x.intents[i] # y.intents[i] => <<x.intents[i], y.intents[i]>> \in Advance

Shows(x) ==
    /\ \A t \in TokenId :
        /\ x.tickets[t].owner = ownerOf[t]
        /\ x.tickets[t].place = meta[t]
        /\ x.tickets[t].redeemed <=> t \in redeemed
        /\ depositor[t] # NoOne =>
            x.tickets[t].escrowed /\ x.tickets[t].depositor = depositor[t]
    /\ x.intents = state

CatchesUp(f) ==
    /\ f \in [0 .. Len(backlog) -> Entities]
    /\ f[0] = index
    /\ \A k \in 1 .. Len(backlog) : f[k] = FoldLeft(Handle, f[k - 1], backlog[k])
    /\ \A k \in 1 .. Len(backlog) : Advances(f[k - 1], f[k])
    /\ \A k \in 0 .. Len(backlog) : Sound(f[k])
    /\ Shows(f[Len(backlog)])

IndexInv ==
    /\ IInv
    /\ \A t \in redeemed : t < nextTokenId
    /\ backlog \in Seq(Seq(Event))
    /\ \E f : CatchesUp(f)

LEMMA FoldOfOne ==
    ASSUME NEW x, NEW e PROVE FoldLeft(Handle, x, <<e>>) = Handle(x, e)
<1>1. DOMAIN <<e>> = 1 .. 1
  OBVIOUS
<1>2. PICK g : Through(g, x, <<e>>, 1) /\ FoldLeft(Handle, x, <<e>>) = g[1]
  BY <1>1, FoldPasses
<1>3. g[1] = Handle(g[1 - 1], <<e>>[1]) /\ g[0] = x
  BY <1>2 DEF Through
<1> QED
  BY <1>2, <1>3

LEMMA FoldOfTwo ==
    ASSUME NEW x, NEW d, NEW e
    PROVE  FoldLeft(Handle, x, <<d, e>>) = Handle(Handle(x, d), e)
<1>1. DOMAIN <<d, e>> = 1 .. 2 /\ 2 \in Nat
  OBVIOUS
<1>2. PICK g : Through(g, x, <<d, e>>, 2) /\ FoldLeft(Handle, x, <<d, e>>) = g[2]
  <2> DEFINE events == <<d, e>>
  <2>1. DOMAIN events = 1 .. 2
    BY <1>1
  <2> HIDE DEF events
  <2>2. \E g : Through(g, x, events, 2) /\ FoldLeft(Handle, x, events) = g[2]
    BY ONLY <1>1, <2>1, FoldPasses
  <2> QED
    BY ONLY <2>2 DEF events
<1>3. g[1] = Handle(g[0], d) /\ g[2] = Handle(g[1], e) /\ g[0] = x
  <2>1. 1 \in 1 .. 2 /\ 2 \in 1 .. 2 /\ 1 - 1 = 0 /\ 2 - 1 = 1
    OBVIOUS
  <2>2. <<d, e>>[1] = d /\ <<d, e>>[2] = e
    OBVIOUS
  <2> QED
    <3>1. g[1] = Handle(g[1 - 1], <<d, e>>[1]) /\ g[2] = Handle(g[2 - 1], <<d, e>>[2])
      BY <1>2, <2>1 DEF Through
    <3>2. g[0] = x
      BY <1>2 DEF Through
    <3> QED
      BY <2>1, <2>2, <3>1, <3>2
<1> QED
  BY <1>2, <1>3

(* One more transaction: what it emits brings the last state up to date.   *)
LEMMA OneMore ==
    ASSUME IndexInv, [Next]_vars, NEW events \in Seq(Event),
           backlog' = Append(backlog, events), index' = index,
           \A x \in Entities : \A y : y = FoldLeft(Handle, x, events) =>
               (Shows(x) /\ Sound(x) => y \in Entities /\ Shows(y)' /\ Sound(y))
    PROVE  backlog' \in Seq(Seq(Event)) /\ (\E f : CatchesUp(f))'
<1>1. PICK f : CatchesUp(f)
  BY DEF IndexInv
<1>0. backlog \in Seq(Seq(Event)) /\ Len(backlog) \in Nat
  BY DEF IndexInv
<1>2. PICK n \in Nat : n = Len(backlog)
  BY <1>0
<1>3. /\ backlog' \in Seq(Seq(Event)) /\ Len(backlog') = n + 1
      /\ \A k \in 1 .. n : backlog'[k] = backlog[k]
      /\ backlog'[n + 1] = events
  BY <1>0, <1>2
<1> DEFINE y == FoldLeft(Handle, f[n], events)
           g == [k \in 0 .. n + 1 |-> IF k = n + 1 THEN y ELSE f[k]]
<1>4. y \in Entities /\ Shows(y)' /\ Sound(y)
  <2>1. n \in 0 .. n
    BY <1>2
  <2>2. f[n] \in Entities /\ Shows(f[n]) /\ Sound(f[n])
    BY <1>1, <1>2, <2>1 DEF CatchesUp
  <2> QED
    BY <2>2
<1> HIDE DEF y
<1>5. g \in [0 .. n + 1 -> Entities]
  <2>1. \A k \in 0 .. n + 1 : k # n + 1 => k \in 0 .. n
    BY <1>2
  <2> QED
    BY <1>1, <1>2, <1>4, <2>1 DEF CatchesUp
<1>6. g[0] = index' /\ g[n + 1] = y /\ \A k \in 0 .. n : g[k] = f[k]
  BY <1>1, <1>2 DEF CatchesUp
<1>7. \A k \in 1 .. n + 1 : g[k] = FoldLeft(Handle, g[k - 1], backlog'[k])
  <2> SUFFICES ASSUME NEW k \in 1 .. n + 1
               PROVE  g[k] = FoldLeft(Handle, g[k - 1], backlog'[k])
    OBVIOUS
  <2> HIDE DEF g
  <2>1. CASE k = n + 1
    <3>1. k - 1 = n /\ n \in 0 .. n
      BY <1>2, <2>1
    <3>2. g[k - 1] = f[n] /\ backlog'[k] = events /\ g[k] = y
      BY <1>3, <1>6, <2>1, <3>1
    <3> QED
      BY <3>2 DEF y
  <2>2. CASE k # n + 1
    <3>1. k \in 1 .. n /\ k \in 0 .. n /\ k - 1 \in 0 .. n
      BY <1>2, <2>2
    <3>2. g[k - 1] = f[k - 1] /\ g[k] = f[k] /\ backlog'[k] = backlog[k]
      BY <1>3, <1>6, <3>1
    <3>3. f[k] = FoldLeft(Handle, f[k - 1], backlog[k])
      BY <1>1, <1>2, <3>1 DEF CatchesUp
    <3> QED
      BY <3>2, <3>3
  <2> QED
    BY <2>1, <2>2
<1>8. \A k \in 0 .. n + 1 : Sound(g[k])
  <2> SUFFICES ASSUME NEW k \in 0 .. n + 1 PROVE Sound(g[k])
    OBVIOUS
  <2> HIDE DEF g
  <2>1. CASE k = n + 1
    BY <1>4, <1>6, <2>1
  <2>2. CASE k # n + 1
    <3>1. k \in 0 .. n
      BY <1>2, <2>2
    <3> QED
      BY <1>1, <1>2, <1>6, <3>1 DEF CatchesUp
  <2> QED
    BY <2>1, <2>2
<1>11. \A k \in 1 .. n + 1 : Advances(g[k - 1], g[k])
  <2> SUFFICES ASSUME NEW k \in 1 .. n + 1 PROVE Advances(g[k - 1], g[k])
    OBVIOUS
  <2> HIDE DEF g
  <2>1. CASE k = n + 1
    <3>1. k - 1 = n /\ n \in 0 .. n
      BY <1>2, <2>1
    <3>2. g[k - 1] = f[n] /\ g[k] = y
      BY <1>6, <2>1, <3>1
    <3>3. f[n].intents = state /\ y.intents = state'
      BY <1>1, <1>2, <1>4 DEF CatchesUp, Shows
    <3>4. Forward
      BY StepsGoForward DEF IndexInv
    <3>5. state \in [Intent -> RegistryState]
      BY DEF IndexInv, IInv, TypeOK, RegistryTypeOK
    <3> QED
      BY <3>2, <3>3, <3>4, <3>5 DEF Forward, Advances, Advance
  <2>2. CASE k # n + 1
    <3>1. k \in 1 .. n /\ k \in 0 .. n /\ k - 1 \in 0 .. n
      BY <1>2, <2>2
    <3>2. g[k - 1] = f[k - 1] /\ g[k] = f[k]
      BY <1>6, <3>1
    <3>3. Advances(f[k - 1], f[k])
      BY <1>1, <1>2, <3>1 DEF CatchesUp
    <3> QED
      BY <3>2, <3>3
  <2> QED
    BY <2>1, <2>2
<1>9. Shows(g[n + 1])'
  <2>1. Shows(y)'
    BY <1>4
  <2>2. g[n + 1] = y
    BY <1>6
  <2> QED
    BY <2>1, <2>2 DEF Shows
<1>10. CatchesUp(g)'
  <2> HIDE DEF g
  <2> QED
    BY <1>3, <1>5, <1>6, <1>7, <1>8, <1>9, <1>11 DEF CatchesUp
<1> QED
  BY <1>3, <1>10

(* What an index that shows the contracts shows after a transaction.       *)
BroughtUpBy(events) ==
    /\ events \in Seq(Event)
    /\ \A x \in Entities : \A y : y = FoldLeft(Handle, x, events) =>
        (Shows(x) /\ Sound(x) => y \in Entities /\ Shows(y)' /\ Sound(y))

LEMMA MintShown ==
    ASSUME IndexInv, NEW to \in Account, NEW m \in MintInput, MintTx(to, m),
           UNCHANGED <<escrowVars, registryVars>>, NEW id, id = nextTokenId
    PROVE  BroughtUpBy(<<Transfer(NoOne, to, id),
                         [type |-> "TicketMinted", token |-> id,
                          to |-> to, place |-> m]>>)
<1> DEFINE d == Transfer(NoOne, to, id)
           e == [type |-> "TicketMinted", token |-> id, to |-> to, place |-> m]
<1>1. id \in TokenId /\ m \in TicketMeta /\ ownerOf[id] = NoOne
  BY TicketAssumption DEF MintTx, Mint, IndexInv, IInv, TypeOK, TicketTypeOK, TokenId
<1>2. d \in Event /\ e \in Event
  BY <1>1 DEF Transfer, Event
<1>3. <<d, e>> \in Seq(Event)
  <2> HIDE DEF d, e
  <2> QED
    BY <1>2
<1>4. ASSUME NEW x \in Entities, NEW y, y = FoldLeft(Handle, x, <<d, e>>),
             Shows(x), Sound(x)
      PROVE  y \in Entities /\ Shows(y)' /\ Sound(y)
  <2> DEFINE t0 == [NoTicket EXCEPT !.owner = to, !.place = m, !.known = TRUE]
             z == [x EXCEPT !.tickets[id] = t0]
  <2>1. Handle(x, d) = x
    <3>1. d.type = "Transfer" /\ d.from = NoOne
      BY DEF Transfer
    <3> HIDE DEF d
    <3> QED
      BY <3>1 DEF Handle, HandleTransfer
  <2>2. Handle(x, e) = z
    <3>1. e.type = "TicketMinted" /\ e.token = id /\ e.to = to /\ e.place = m
      OBVIOUS
    <3> HIDE DEF e
    <3> QED
      BY <3>1 DEF Handle, HandleTicketMinted
  <2>3. y = z
    <3> HIDE DEF d, e, z
    <3>1. FoldLeft(Handle, x, <<d, e>>) = Handle(Handle(x, d), e)
      <4>1. \A p, q : FoldLeft(Handle, x, <<p, q>>) = Handle(Handle(x, p), q)
        BY FoldOfTwo
      <4> QED
        BY <4>1, Zenon
    <3> QED
      BY <1>4, <2>1, <2>2, <3>1
  <2>4. /\ t0 \in TicketEntity
        /\ t0.owner = to /\ t0.place = m /\ t0.redeemed = FALSE
        /\ t0.known = TRUE /\ t0.escrowed = FALSE /\ t0.depositor = NoOne
    BY <1>1 DEF NoTicket, TicketEntity
  <2> HIDE DEF t0
  <2>5. y \in Entities
    BY <1>1, <2>3, <2>4 DEF Entities
  <2>6. /\ y.tickets = [x.tickets EXCEPT ![id] = t0]
        /\ y.intents = x.intents /\ y.settlements = x.settlements
        /\ x.tickets \in [TokenId -> TicketEntity]
    BY <2>3 DEF Entities
  <2>7. /\ id \notin redeemed
        /\ depositor[id] = NoOne
    BY <1>1, AccountAssumption DEF IndexInv, IInv, TypeOK, TicketTypeOK, TokenId, DepositIsBacked
  <2>8. /\ ownerOf' = [ownerOf EXCEPT ![id] = to]
        /\ meta' = [meta EXCEPT ![id] = m]
        /\ redeemed' = redeemed /\ depositor' = depositor /\ state' = state
        /\ ownerOf \in [TokenId -> Account \cup {NoOne}] /\ meta \in [TokenId -> TicketMeta]
    BY DEF MintTx, Mint, escrowVars, registryVars, IndexInv, IInv, TypeOK, TicketTypeOK
  <2>9. /\ \A t \in TokenId :
            /\ y.tickets[t].owner = ownerOf'[t]
            /\ y.tickets[t].place = meta'[t]
            /\ y.tickets[t].redeemed <=> t \in redeemed'
            /\ depositor'[t] # NoOne =>
                y.tickets[t].escrowed /\ y.tickets[t].depositor = depositor'[t]
        /\ y.intents = state'
    <3>1. ASSUME NEW t \in TokenId, t # id PROVE y.tickets[t] = x.tickets[t]
      BY <2>6, <3>1
    <3>2. y.tickets[id] = t0
      BY <1>1, <2>6
    <3> QED
      BY <2>4, <2>6, <2>7, <2>8, <3>1, <3>2, <1>4, <1>1 DEF Shows
  <2>10. Shows(y)'
    BY <2>9 DEF Shows
  <2>11. InPlace(t0)
    BY <2>4, AccountAssumption DEF InPlace, Account
  <2>12. Sound(y)
    <3>1. \A t \in TokenId : y.tickets[t] = IF t = id THEN t0 ELSE x.tickets[t]
      BY <2>6
    <3> QED
      BY <1>4, <2>6, <2>11, <3>1 DEF Sound, Partitioned
  <2> QED
    BY <2>5, <2>10, <2>12
<1> QED
  BY <1>3, <1>4 DEF BroughtUpBy

LEMMA RedeemShown ==
    ASSUME IndexInv, NEW u \in User, NEW t \in TokenId, RedeemTx(u, t),
           UNCHANGED <<escrowVars, registryVars>>
    PROVE  BroughtUpBy(<<[type |-> "TicketRedeemedEvt", token |-> t]>>)
<1> DEFINE e == [type |-> "TicketRedeemedEvt", token |-> t]
<1>1. <<e>> \in Seq(Event)
  <2>1. e \in Event
    BY DEF Event
  <2> HIDE DEF e
  <2> QED
    BY <2>1
<1>2. ASSUME NEW x \in Entities, NEW y, y = FoldLeft(Handle, x, <<e>>),
             Shows(x), Sound(x)
      PROVE  y \in Entities /\ Shows(y)' /\ Sound(y)
  <2> DEFINE k == x.tickets[t]
             k1 == [k EXCEPT !.redeemed = TRUE, !.known = TRUE]
             z == [x EXCEPT !.tickets[t] = k1]
  <2>1. y = z
    <3>1. e.type = "TicketRedeemedEvt" /\ e.token = t
      OBVIOUS
    <3> HIDE DEF e
    <3>2. Handle(x, e) = HandleTicketRedeemed(x, e)
      BY <3>1 DEF Handle
    <3>3. HandleTicketRedeemed(x, e) = z
      BY <3>1 DEF HandleTicketRedeemed
    <3> HIDE DEF z
    <3> QED
      BY <1>2, <3>2, <3>3, FoldOfOne
  <2>2. k \in TicketEntity /\ x.tickets \in [TokenId -> TicketEntity]
    BY DEF Entities
  <2> HIDE DEF k
  <2>3. /\ k1 \in TicketEntity /\ k1.owner = k.owner /\ k1.place = k.place /\ k1.redeemed = TRUE
        /\ k1.known = TRUE /\ k1.escrowed = k.escrowed /\ k1.depositor = k.depositor
    BY <2>2 DEF TicketEntity
  <2> HIDE DEF k1
  <2>4. /\ y \in Entities /\ y.tickets = [x.tickets EXCEPT ![t] = k1]
        /\ y.intents = x.intents /\ y.settlements = x.settlements
    BY <2>1, <2>2, <2>3 DEF Entities
  <2>5. redeemed' = redeemed \cup {t} /\ UNCHANGED <<ownerOf, meta, depositor, state>>
    BY DEF RedeemTx, Redeem, escrowVars, registryVars
  <2>6. Shows(y)'
    <3>1. ASSUME NEW s \in TokenId, s # t PROVE y.tickets[s] = x.tickets[s]
      BY <2>2, <2>4, <3>1
    <3>2. y.tickets[t] = k1 /\ x.tickets[t] = k
      BY <2>2, <2>4 DEF k
    <3>3. /\ \A s \in TokenId :
              /\ y.tickets[s].owner = ownerOf'[s]
              /\ y.tickets[s].place = meta'[s]
              /\ y.tickets[s].redeemed <=> s \in redeemed'
              /\ depositor'[s] # NoOne =>
                  y.tickets[s].escrowed /\ y.tickets[s].depositor = depositor'[s]
          /\ y.intents = state'
      BY <1>2, <2>3, <2>4, <2>5, <3>1, <3>2 DEF Shows
    <3> QED
      BY <3>3 DEF Shows
  <2>7. InPlace(k1)
    <3>1. k.owner # NoOne
      BY <1>2, AccountAssumption DEF RedeemTx, Redeem, Shows, k
    <3>2. InPlace(k)
      BY <1>2 DEF Sound, k
    <3> QED
      BY <2>3, <3>1, <3>2 DEF InPlace
  <2>8. Sound(y)
    <3>1. \A s \in TokenId : y.tickets[s] = IF s = t THEN k1 ELSE x.tickets[s]
      BY <2>2, <2>4
    <3> QED
      BY <1>2, <2>4, <2>7, <3>1 DEF Sound, Partitioned
  <2> QED
    BY <2>4, <2>6, <2>8
<1> QED
  BY <1>1, <1>2 DEF BroughtUpBy

LEMMA OneEventShown ==
    ASSUME NEW e \in Event,
           \A x \in Entities : \A y : y = Handle(x, e) =>
               (Shows(x) /\ Sound(x) => y \in Entities /\ Shows(y)' /\ Sound(y))
    PROVE  BroughtUpBy(<<e>>)
<1>1. <<e>> \in Seq(Event)
  OBVIOUS
<1>2. \A x : FoldLeft(Handle, x, <<e>>) = Handle(x, e)
  BY FoldOfOne
<1> QED
  BY <1>1, <1>2 DEF BroughtUpBy

(* A transfer from where the index has the ticket keeps it sound.          *)
LEMMA MovedKept ==
    ASSUME NEW k \in TicketEntity, NEW from \in Account, NEW to \in Account,
           from = EscrowAddr => to # EscrowAddr, k.owner = from, InPlace(k)
    PROVE  InPlace(Moved(k, from, to))
BY AccountAssumption DEF InPlace, Moved, TicketEntity, Account

(* Moving a batch: what is moved, and that nobody's custody is disturbed.  *)
LEMMA MovedShown ==
    ASSUME IndexInv, NEW ids \in SUBSET TokenId, NEW from, NEW to, from = ownerOf, to = ownerOf',
           \A t \in ids : from[t] \in Account /\ to[t] \in Account
                              /\ (from[t] = EscrowAddr => to[t] # EscrowAddr),
           UNCHANGED <<meta, redeemed>>,
           \A t \in TokenId \ ids : ownerOf'[t] = ownerOf[t] /\ depositor'[t] = depositor[t],
           \A t \in ids : depositor'[t] # NoOne =>
               to[t] = EscrowAddr /\ depositor'[t] = from[t],
           NEW x \in Entities, Shows(x), Sound(x), NEW y, y = AllMoved(x, ids, from, to)
    PROVE  /\ y \in Entities /\ y.intents = x.intents /\ y.settlements = x.settlements
           /\ Sound(y)
           /\ \A t \in TokenId :
                /\ y.tickets[t].owner = ownerOf'[t]
                /\ y.tickets[t].place = meta'[t]
                /\ y.tickets[t].redeemed <=> t \in redeemed'
                /\ depositor'[t] # NoOne =>
                    y.tickets[t].escrowed /\ y.tickets[t].depositor = depositor'[t]
<1>1. y \in Entities
  BY AllMovedType
<1>2. /\ y.intents = x.intents /\ y.settlements = x.settlements
      /\ \A t \in TokenId : y.tickets[t] = IF t \in ids THEN Moved(x.tickets[t], from[t], to[t])
                                           ELSE x.tickets[t]
      /\ \A t \in TokenId : x.tickets[t] \in TicketEntity
  BY DEF AllMoved, Entities
<1>3. ASSUME NEW t \in TokenId
      PROVE  /\ y.tickets[t].owner = ownerOf'[t]
             /\ y.tickets[t].place = meta'[t]
             /\ y.tickets[t].redeemed <=> t \in redeemed'
             /\ depositor'[t] # NoOne =>
                 y.tickets[t].escrowed /\ y.tickets[t].depositor = depositor'[t]
  <2>1. CASE t \notin ids
    BY <1>2, <2>1 DEF Shows
  <2>2. CASE t \in ids
    <3> DEFINE k == x.tickets[t]
    <3>1. k \in TicketEntity /\ y.tickets[t] = Moved(k, from[t], to[t])
      BY <1>2, <2>2
    <3>2. /\ k.place = meta[t]
          /\ k.redeemed <=> t \in redeemed
      BY DEF Shows
    <3> HIDE DEF k
    <3>3. /\ Moved(k, from[t], to[t]).owner = to[t]
          /\ Moved(k, from[t], to[t]).place = k.place
          /\ Moved(k, from[t], to[t]).redeemed = k.redeemed
          /\ to[t] = EscrowAddr => /\ Moved(k, from[t], to[t]).escrowed
                                   /\ Moved(k, from[t], to[t]).depositor = from[t]
      BY <3>1 DEF Moved, TicketEntity
    <3> QED
      BY <2>2, <3>1, <3>2, <3>3
  <2> QED
    BY <2>1, <2>2
<1>4. ASSUME NEW t \in TokenId PROVE InPlace(y.tickets[t])
  <2>1. InPlace(x.tickets[t]) /\ x.tickets[t] \in TicketEntity /\ x.tickets[t].owner = from[t]
    BY <1>2 DEF Sound, Shows
  <2>2. t \in ids => InPlace(Moved(x.tickets[t], from[t], to[t]))
    BY <2>1, MovedKept
  <2> QED
    BY <1>2, <2>1, <2>2
<1>5. Sound(y)
  BY <1>2, <1>4 DEF Sound, Partitioned
<1> QED
  BY <1>1, <1>2, <1>3, <1>5

LEMMA TransferShown ==
    ASSUME IndexInv, NEW u \in User, NEW to \in Account, NEW t \in TokenId, TransferTx(u, to, t),
           UNCHANGED <<escrowVars, registryVars>>
    PROVE  BroughtUpBy(<<Transfer(u, to, t)>>)
<1> DEFINE e == Transfer(u, to, t)
<1>1. e \in Event
  BY DEF Event, Transfer, Account
<1>2. u \in Account /\ u # EscrowAddr
  BY AccountAssumption DEF Account
<1>3. /\ ownerOf[t] = u /\ ownerOf' = [ownerOf EXCEPT ![t] = to]
      /\ UNCHANGED <<meta, redeemed, depositor, state>>
      /\ ownerOf \in [TokenId -> Account \cup {NoOne}]
  BY DEF TransferTx, TransferFrom, escrowVars, registryVars, IndexInv, IInv, TypeOK, TicketTypeOK
<1>4. depositor[t] = NoOne
  BY <1>2, <1>3 DEF IndexInv, IInv, DepositIsBacked
<1>5. ASSUME NEW x \in Entities, NEW y, y = Handle(x, e), Shows(x), Sound(x)
      PROVE  y \in Entities /\ Shows(y)' /\ Sound(y)
  <2> DEFINE k == x.tickets[t]
  <2>1. y = [x EXCEPT !.tickets[t] = Moved(k, u, to)] /\ y \in Entities
    BY <1>2, <1>5, HandledTransfer
  <2>2. k \in TicketEntity /\ x.tickets \in [TokenId -> TicketEntity]
    BY DEF Entities
  <2>3. /\ Moved(k, u, to).owner = to
        /\ Moved(k, u, to).place = k.place
        /\ Moved(k, u, to).redeemed = k.redeemed
    <3> HIDE DEF k
    <3> QED
      BY <2>2 DEF Moved, TicketEntity
  <2> DEFINE m == Moved(k, u, to)
  <2> HIDE DEF m
  <2>4. /\ y.intents = x.intents /\ y.settlements = x.settlements
        /\ y.tickets = [x.tickets EXCEPT ![t] = m]
    BY <2>1 DEF Entities, m
  <2>5. m.owner = to /\ m.place = meta[t] /\ (m.redeemed <=> t \in redeemed)
    BY <1>5, <2>3 DEF Shows, m
  <2>6. ASSUME NEW s \in TokenId, s # t PROVE y.tickets[s] = x.tickets[s]
    BY <2>2, <2>4, <2>6
  <2>7. y.tickets[t] = m
    BY <2>2, <2>4
  <2>8. Shows(y)'
    <3>1. /\ \A s \in TokenId :
              /\ y.tickets[s].owner = ownerOf'[s]
              /\ y.tickets[s].place = meta'[s]
              /\ y.tickets[s].redeemed <=> s \in redeemed'
              /\ depositor'[s] # NoOne =>
                  y.tickets[s].escrowed /\ y.tickets[s].depositor = depositor'[s]
          /\ y.intents = state'
      BY <1>3, <1>4, <1>5, <2>4, <2>5, <2>6, <2>7 DEF Shows
    <3> QED
      BY <3>1 DEF Shows
  <2>9. InPlace(m)
    <3>1. InPlace(k) /\ k.owner = u
      BY <1>3, <1>5 DEF Sound, Shows
    <3> HIDE DEF k
    <3> QED
      BY <1>2, <2>2, <3>1, MovedKept DEF m
  <2>10. Sound(y)
    <3>1. \A s \in TokenId : y.tickets[s] = IF s = t THEN m ELSE x.tickets[s]
      BY <2>6, <2>7
    <3> QED
      BY <1>5, <2>4, <2>9, <3>1 DEF Sound, Partitioned
  <2> QED
    BY <2>1, <2>8, <2>10
<1> HIDE DEF e
<1>6. \A x \in Entities : \A y : y = Handle(x, e) =>
          (Shows(x) /\ Sound(x) => y \in Entities /\ Shows(y)' /\ Sound(y))
  BY <1>5
<1>7. BroughtUpBy(<<e>>)
  BY <1>1, <1>6, OneEventShown
<1> QED
  BY <1>7 DEF e

LEMMA CommitShown ==
    ASSUME IndexInv, NEW i \in Intent, CommitTx(i),
           UNCHANGED <<ticketVars, escrowVars>>
    PROVE  BroughtUpBy(<<[type |-> "IntentCommitted", intent |-> i]>>)
<1> DEFINE e == [type |-> "IntentCommitted", intent |-> i]
<1>1. e \in Event
  BY DEF Event
<1>2. ASSUME NEW x \in Entities, NEW y, y = Handle(x, e), Shows(x), Sound(x)
      PROVE  y \in Entities /\ Shows(y)' /\ Sound(y)
  <2>1. y = [x EXCEPT !.intents[i] = "LIVE"]
    <3>1. e.type = "IntentCommitted" /\ e.intent = i
      OBVIOUS
    <3> HIDE DEF e
    <3> QED
      BY <1>2, <3>1 DEF Handle, HandleIntentCommitted
  <2>2. /\ y \in Entities /\ y.tickets = x.tickets /\ y.settlements = x.settlements
        /\ y.intents = [x.intents EXCEPT ![i] = "LIVE"]
        /\ x.intents \in [Intent -> RegistryState]
    BY <2>1 DEF Entities, RegistryState
  <2>3. /\ state[i] = "NONE" /\ state' = [state EXCEPT ![i] = "LIVE"]
        /\ UNCHANGED <<ownerOf, meta, redeemed, depositor>>
    BY DEF CommitTx, Commit, ticketVars, escrowVars
  <2>4. Shows(y)'
    BY <1>2, <2>2, <2>3 DEF Shows
  <2>5. x.intents[i] = "NONE"
    BY <1>2, <2>3 DEF Shows
  <2>6. Sound(y)
    BY <1>2, <2>2, <2>5 DEF Sound, Partitioned
  <2> QED
    BY <2>2, <2>4, <2>6
<1> HIDE DEF e
<1>3. \A x \in Entities : \A y : y = Handle(x, e) =>
          (Shows(x) /\ Sound(x) => y \in Entities /\ Shows(y)' /\ Sound(y))
  BY <1>2
<1>4. BroughtUpBy(<<e>>)
  BY <1>1, <1>3, OneEventShown
<1> QED
  BY <1>4 DEF e

LEMMA RevokeShown ==
    ASSUME IndexInv, NEW u \in User, NEW i \in Intent, RevokeTx(u, i),
           UNCHANGED <<ticketVars, escrowVars>>
    PROVE  BroughtUpBy(<<[type |-> "IntentRevoked", intent |-> i]>>)
<1> DEFINE e == [type |-> "IntentRevoked", intent |-> i]
<1>1. e \in Event
  BY DEF Event
<1>2. ASSUME NEW x \in Entities, NEW y, y = Handle(x, e), Shows(x), Sound(x)
      PROVE  y \in Entities /\ Shows(y)' /\ Sound(y)
  <2>0. /\ state[i] = "LIVE" /\ state' = [state EXCEPT ![i] = "REVOKED"]
        /\ UNCHANGED <<ownerOf, meta, redeemed, depositor>>
    BY DEF RevokeTx, Revoke, ticketVars, escrowVars
  <2>1. x.intents[i] = "LIVE"
    BY <1>2, <2>0 DEF Shows
  <2>2. y = [x EXCEPT !.intents[i] = "REVOKED"]
    <3>1. e.type = "IntentRevoked" /\ e.intent = i
      OBVIOUS
    <3> HIDE DEF e
    <3>2. Handle(x, e) = HandleIntentRevoked(x, e)
      BY <3>1 DEF Handle
    <3> QED
      BY <1>2, <2>1, <3>1, <3>2 DEF HandleIntentRevoked, Entities
  <2>3. /\ y \in Entities /\ y.tickets = x.tickets /\ y.settlements = x.settlements
        /\ y.intents = [x.intents EXCEPT ![i] = "REVOKED"]
        /\ x.intents \in [Intent -> RegistryState]
    BY <2>2 DEF Entities, RegistryState
  <2>4. Shows(y)'
    BY <1>2, <2>0, <2>3 DEF Shows
  <2>6. Sound(y)
    BY <1>2, <2>1, <2>3 DEF Sound, Partitioned
  <2> QED
    BY <2>3, <2>4, <2>6
<1> HIDE DEF e
<1>3. \A x \in Entities : \A y : y = Handle(x, e) =>
          (Shows(x) /\ Sound(x) => y \in Entities /\ Shows(y)' /\ Sound(y))
  BY <1>2
<1>4. BroughtUpBy(<<e>>)
  BY <1>1, <1>3, OneEventShown
<1> QED
  BY <1>4 DEF e

(* The events of a batch, once the holders before and after are fixed.     *)
BatchEvents(ids, from, to) ==
    [n \in 1 .. Cardinality(ids) |->
        LET t == SetToSeq(ids)[n] IN Transfer(from[t], to[t], t)]

LEMMA BatchEventsType ==
    ASSUME NEW ids \in SUBSET TokenId, NEW from, NEW to,
           \A t \in ids : from[t] \in Account /\ to[t] \in Account
    PROVE  /\ BatchEvents(ids, from, to) \in Seq(Event)
           /\ Len(BatchEvents(ids, from, to)) = Cardinality(ids)
<1> DEFINE m == Cardinality(ids)
           f == SetToSeq(ids)
<1>1. m \in Nat /\ f \in [1 .. m -> ids]
  BY BatchOrder
<1>2. ASSUME NEW a \in 1 .. m PROVE Transfer(from[f[a]], to[f[a]], f[a]) \in Event
  <2>1. f[a] \in ids
    BY <1>1
  <2> HIDE DEF f
  <2> QED
    BY <2>1 DEF Transfer, Event
<1>3. BatchEvents(ids, from, to) \in [1 .. m -> Event]
  <2> HIDE DEF f
  <2>1. BatchEvents(ids, from, to) = [a \in 1 .. m |-> Transfer(from[f[a]], to[f[a]], f[a])]
    BY DEF BatchEvents, f
  <2> QED
    BY <1>2, <2>1
<1> QED
  <2> HIDE DEF m
  <2> QED
    BY <1>1, <1>3 DEF m

LEMMA BatchTxShown ==
    ASSUME IndexInv, NEW u \in User, NEW ids \in SUBSET TokenId, BatchTx(u, ids),
           UNCHANGED registryVars,
           NEW from, NEW to, from = ownerOf, to = ownerOf'
    PROVE  BroughtUpBy(BatchEvents(ids, from, to))
<1> DEFINE E == BatchEvents(ids, from, to)
           m == Cardinality(ids)
<1>1. u \in Account /\ u # EscrowAddr /\ EscrowAddr \in Account
  BY AccountAssumption DEF Account
<1>2. /\ \A t \in ids : \/ from[t] = u /\ to[t] = EscrowAddr /\ depositor'[t] = u
                        \/ from[t] = EscrowAddr /\ to[t] = u /\ depositor'[t] = NoOne
      /\ \A t \in TokenId \ ids : ownerOf'[t] = ownerOf[t] /\ depositor'[t] = depositor[t]
      /\ UNCHANGED <<meta, redeemed, state>>
  BY DEF BatchTx, Deposit, Withdraw, registryVars
<1>3. \A t \in ids : from[t] \in Account /\ to[t] \in Account
                         /\ (from[t] = EscrowAddr => to[t] # EscrowAddr)
  BY <1>1, <1>2
<1>4. \A t \in ids : depositor'[t] # NoOne => to[t] = EscrowAddr /\ depositor'[t] = from[t]
  BY <1>2
<1>5. E \in Seq(Event) /\ Len(E) = m /\ m \in Nat /\ DOMAIN E = 1 .. m
  <2>1. E \in Seq(Event) /\ Len(E) = m
    BY <1>3, BatchEventsType
  <2>2. m \in Nat
    BY BatchOrder
  <2>3. DOMAIN E = 1 .. m
    BY DEF BatchEvents
  <2> QED
    BY <2>1, <2>2, <2>3
<1>6. \A a \in 1 .. m : LET t == SetToSeq(ids)[a] IN E[a] = Transfer(from[t], to[t], t)
  BY DEF BatchEvents
<1> HIDE DEF E
<1>7. ASSUME NEW x \in Entities, NEW y, y = FoldLeft(Handle, x, E), Shows(x), Sound(x)
      PROVE  y \in Entities /\ Shows(y)' /\ Sound(y)
  <2>1. PICK g : Through(g, x, E, m) /\ FoldLeft(Handle, x, E) = g[m]
    BY <1>5, FoldPasses
  <2>2. g[m] = AllMoved(x, ids, from, to)
    <3>1. m <= m
      BY <1>5
    <3> QED
      BY <1>3, <1>5, <1>6, <2>1, <3>1, BatchHandled
  <2>3. y = AllMoved(x, ids, from, to)
    BY <1>7, <2>1, <2>2
  <2>4. /\ y \in Entities /\ y.intents = x.intents /\ y.settlements = x.settlements /\ Sound(y)
        /\ \A t \in TokenId :
             /\ y.tickets[t].owner = ownerOf'[t]
             /\ y.tickets[t].place = meta'[t]
             /\ y.tickets[t].redeemed <=> t \in redeemed'
             /\ depositor'[t] # NoOne =>
                 y.tickets[t].escrowed /\ y.tickets[t].depositor = depositor'[t]
    BY <1>2, <1>3, <1>4, <1>7, <2>3, MovedShown
  <2>5. y.intents = state'
    BY <1>2, <1>7, <2>4 DEF Shows
  <2>6. Shows(y)'
    BY <2>4, <2>5 DEF Shows
  <2> QED
    BY <2>4, <2>6
<1> QED
  BY <1>5, <1>7 DEF BroughtUpBy, E

(* What a settlement does that the index must follow.                      *)
LEMMA SettleMoves ==
    ASSUME IndexInv, Settle
    PROVE  \E P \in SUBSET Intent, ids \in SUBSET TokenId :
            /\ \A i \in P : state[i] = "LIVE"
            /\ state' = [i \in Intent |-> IF i \in P THEN "SETTLED" ELSE state[i]]
            /\ \A t \in ids : /\ ownerOf[t] = EscrowAddr /\ ownerOf'[t] \in User
                              /\ depositor'[t] = NoOne
            /\ \A t \in TokenId \ ids : ownerOf'[t] = ownerOf[t] /\ depositor'[t] = depositor[t]
            /\ UNCHANGED <<meta, redeemed, nextTokenId>>
<1>0. PICK P \in (SUBSET Intent) \ {{}} :
          IntentsLive(P) /\ \E receives \in [P -> Bundle], net \in [P -> NetPayment] :
              Execute(P, receives, net)
  BY DEF Settle
<1>1. PICK receives \in [P -> Bundle], net \in [P -> NetPayment] : Execute(P, receives, net)
  BY <1>0
<1> DEFINE to == Recipients(P, receives)
<1>2. DOMAIN to \subseteq TokenId /\ \A t \in DOMAIN to : to[t] \in User
  BY BundlesHoldTickets, RecipientsType
<1>3. ReleaseBatch(to) /\ MarkSettled(P)
  BY <1>1 DEF Execute
<1> HIDE DEF to
<1>4. /\ \A t \in DOMAIN to : /\ ownerOf[t] = EscrowAddr /\ ownerOf'[t] \in User
                              /\ depositor'[t] = NoOne
      /\ \A t \in TokenId \ DOMAIN to : ownerOf'[t] = ownerOf[t] /\ depositor'[t] = depositor[t]
      /\ UNCHANGED <<meta, redeemed, nextTokenId>>
  BY <1>2, <1>3 DEF ReleaseBatch
<1>5. \A i \in P : state[i] = "LIVE"
  BY <1>0 DEF IntentsLive
<1>6. state' = [i \in Intent |-> IF i \in P THEN "SETTLED" ELSE state[i]]
  BY <1>3 DEF MarkSettled
<1> QED
  BY <1>1, <1>2, <1>4, <1>5, <1>6

LEMMA SettledShown ==
    ASSUME IndexInv, NEW P \in SUBSET Intent, \A i \in P : state[i] = "LIVE",
           NEW x \in Entities, NEW z, Partitioned(x),
           x.intents = state,
           z = Handle(x, [type |-> "Settled", intents |-> P])
    PROVE  /\ z \in Entities /\ Partitioned(z) /\ z.tickets = x.tickets
           /\ z.intents = [i \in Intent |-> IF i \in P THEN "SETTLED" ELSE state[i]]
<1> DEFINE e == [type |-> "Settled", intents |-> P]
           S == [i \in Intent |-> IF i \in P /\ x.intents[i] # "NONE" THEN "SETTLED"
                                  ELSE x.intents[i]]
<1>1. e.type = "Settled" /\ e.intents = P
  OBVIOUS
<1>2. z = [x EXCEPT !.intents = S, !.settlements = x.settlements \cup {P}]
  <2> HIDE DEF e
  <2>1. Handle(x, e) = HandleSettled(x, e)
    BY <1>1 DEF Handle
  <2>2. HandleSettled(x, e) = [x EXCEPT !.intents = S, !.settlements = x.settlements \cup {P}]
    BY <1>1 DEF HandleSettled, Entities
  <2> QED
    BY <2>1, <2>2 DEF e
<1>3. S = [i \in Intent |-> IF i \in P THEN "SETTLED" ELSE state[i]]
  OBVIOUS
<1>4. state \in [Intent -> RegistryState]
  BY DEF IndexInv, IInv, TypeOK, RegistryTypeOK
<1>5. S \in [Intent -> RegistryState]
  BY <1>3, <1>4 DEF RegistryState
<1> HIDE DEF S
<1>6. /\ z \in Entities /\ z.tickets = x.tickets
      /\ z.intents = S /\ z.settlements = x.settlements \cup {P}
  <2> DEFINE R == x.settlements \cup {P}
  <2>1. R \in SUBSET SUBSET Intent
    BY DEF Entities
  <2>2. z = [x EXCEPT !.intents = S, !.settlements = R]
    BY <1>2
  <2> HIDE DEF R
  <2>3. /\ z \in Entities /\ z.tickets = x.tickets
        /\ z.intents = S /\ z.settlements = R
    BY <1>5, <2>1, <2>2 DEF Entities
  <2> QED
    BY <2>3 DEF R
<1>7. Partitioned(z)
  <2>1. \A Q \in x.settlements : Q \cap P = {}
    BY DEF Partitioned
  <2>2. UNION z.settlements = (UNION x.settlements) \cup P
    BY <1>6
  <2>3. {i \in Intent : S[i] = "SETTLED"} = {i \in Intent : state[i] = "SETTLED"} \cup P
    BY <1>3
  <2> QED
    BY <1>6, <2>1, <2>2, <2>3 DEF Partitioned
<1> QED
  BY <1>3, <1>6, <1>7

LEMMA SettleTxShown ==
    ASSUME IndexInv, IInv', Settle, NEW moved, moved = {t \in TokenId : ownerOf'[t] # ownerOf[t]},
           NEW done, done = {i \in Intent : state'[i] # state[i]},
           NEW from, NEW to, from = ownerOf, to = ownerOf'
    PROVE  BroughtUpBy(Append(BatchEvents(moved, from, to),
                              [type |-> "Settled", intents |-> done]))
<1> DEFINE B == BatchEvents(moved, from, to)
           e == [type |-> "Settled", intents |-> done]
           E == Append(B, e)
           m == Cardinality(moved)
<1>1. PICK P \in SUBSET Intent, ids \in SUBSET TokenId :
            /\ \A i \in P : state[i] = "LIVE"
            /\ state' = [i \in Intent |-> IF i \in P THEN "SETTLED" ELSE state[i]]
            /\ \A t \in ids : /\ ownerOf[t] = EscrowAddr /\ ownerOf'[t] \in User
                              /\ depositor'[t] = NoOne
            /\ \A t \in TokenId \ ids : ownerOf'[t] = ownerOf[t] /\ depositor'[t] = depositor[t]
            /\ UNCHANGED <<meta, redeemed, nextTokenId>>
  BY SettleMoves
<1>2. EscrowAddr \in Account /\ EscrowAddr \notin User /\ User \subseteq Account
  BY AccountAssumption DEF Account
<1>3. moved = ids
  BY <1>1, <1>2
<1>4. done = P
  BY <1>1
<1>5. \A t \in moved : from[t] \in Account /\ to[t] \in Account
                         /\ (from[t] = EscrowAddr => to[t] # EscrowAddr)
  BY <1>1, <1>2, <1>3
<1>6. moved \in SUBSET TokenId
  OBVIOUS
<1>7. B \in Seq(Event) /\ Len(B) = m
  BY <1>5, <1>6, BatchEventsType
<1>8. m \in Nat
  BY <1>6, BatchOrder
<1>9. \A a \in 1 .. m : LET t == SetToSeq(moved)[a] IN B[a] = Transfer(from[t], to[t], t)
  BY DEF BatchEvents
<1>10. e \in Event
  BY <1>4 DEF Event
<1> HIDE DEF B, e
<1>11. /\ E \in Seq(Event) /\ DOMAIN E = 1 .. m + 1 /\ E[m + 1] = e
       /\ \A a \in 1 .. m : E[a] = B[a]
  <2> HIDE DEF m
  <2> QED
    BY <1>7, <1>8, <1>10
<1> HIDE DEF E
<1>12. \A a \in 1 .. m : LET t == SetToSeq(moved)[a] IN E[a] = Transfer(from[t], to[t], t)
  BY <1>9, <1>11
<1>13. ASSUME NEW x \in Entities, NEW y, y = FoldLeft(Handle, x, E), Shows(x), Sound(x)
       PROVE  y \in Entities /\ Shows(y)' /\ Sound(y)
  <2>1. PICK g : Through(g, x, E, m + 1) /\ FoldLeft(Handle, x, E) = g[m + 1]
    <3>1. m + 1 \in Nat
      BY <1>8
    <3> HIDE DEF m
    <3> QED
      BY <1>11, <3>1, FoldPasses
  <2> DEFINE w == AllMoved(x, moved, from, to)
  <2>2. g[m] = w
    <3>1. m <= m + 1 /\ m + 1 \in Nat
      BY <1>8
    <3> QED
      BY <1>5, <1>6, <1>12, <2>1, <3>1, BatchHandled
  <2>3. /\ w \in Entities /\ w.intents = x.intents /\ w.settlements = x.settlements /\ Sound(w)
        /\ \A t \in TokenId :
             /\ w.tickets[t].owner = ownerOf'[t]
             /\ w.tickets[t].place = meta'[t]
             /\ w.tickets[t].redeemed <=> t \in redeemed'
             /\ depositor'[t] # NoOne =>
                 w.tickets[t].escrowed /\ w.tickets[t].depositor = depositor'[t]
    <3>1. \A t \in moved : depositor'[t] # NoOne =>
              to[t] = EscrowAddr /\ depositor'[t] = from[t]
      BY <1>1, <1>3
    <3>2. UNCHANGED <<meta, redeemed>>
      BY <1>1
    <3>3. \A t \in TokenId \ moved : ownerOf'[t] = ownerOf[t] /\ depositor'[t] = depositor[t]
      BY <1>1, <1>3
    <3>4. w = AllMoved(x, moved, from, to) /\ Shows(x) /\ Sound(x)
      BY <1>13
    <3> HIDE DEF w
    <3>5. /\ w \in Entities /\ w.intents = x.intents /\ w.settlements = x.settlements
          /\ Sound(w)
      BY <1>5, <1>6, <3>1, <3>2, <3>3, <3>4, MovedShown
    <3>6. \A t \in TokenId :
             /\ w.tickets[t].owner = ownerOf'[t]
             /\ w.tickets[t].place = meta'[t]
             /\ w.tickets[t].redeemed <=> t \in redeemed'
             /\ depositor'[t] # NoOne =>
                 w.tickets[t].escrowed /\ w.tickets[t].depositor = depositor'[t]
      BY <1>5, <1>6, <3>1, <3>2, <3>3, <3>4, MovedShown
    <3> QED
      BY <3>5, <3>6
  <2> HIDE DEF w
  <2>4. y = Handle(w, e)
    <3>1. m + 1 \in 1 .. m + 1 /\ (m + 1) - 1 = m
      BY <1>8
    <3>2. g[m + 1] = Handle(g[m], E[m + 1])
      BY <2>1, <3>1 DEF Through
    <3> QED
      BY <1>11, <1>13, <2>1, <2>2, <3>2
  <2>5. w.intents = state /\ Partitioned(w)
    BY <1>13, <2>3 DEF Shows, Sound
  <2>6. /\ y \in Entities /\ Partitioned(y) /\ y.tickets = w.tickets
        /\ y.intents = [i \in Intent |-> IF i \in P THEN "SETTLED" ELSE state[i]]
    BY <1>1, <1>4, <2>3, <2>4, <2>5, SettledShown DEF e
  <2>7. Shows(y)'
    BY <1>1, <2>3, <2>6 DEF Shows
  <2>8. Sound(y)
    BY <2>3, <2>6 DEF Sound
  <2> QED
    BY <2>6, <2>7, <2>8
<1> QED
  BY <1>11, <1>13 DEF BroughtUpBy, E, B, e

(* A transaction that brings the index up to date keeps the invariant.     *)
LEMMA EmitPreserves ==
    ASSUME IndexInv, [Next]_vars, \A t \in redeemed' : t < nextTokenId',
           NEW events, BroughtUpBy(events), Emit(events)
    PROVE  IndexInv'
<1>1. IInv'
  BY NextPreserves DEF IndexInv
<1>2. backlog' \in Seq(Seq(Event)) /\ (\E f : CatchesUp(f))'
  BY OneMore DEF BroughtUpBy, Emit
<1> QED
  BY <1>1, <1>2 DEF IndexInv

LEMMA TransfersAreBatch ==
    ASSUME NEW from, NEW to, from = ownerOf, to = ownerOf', NEW ids
    PROVE  Transfers(ids) = BatchEvents(ids, from, to)
BY DEF Transfers, BatchEvents

LEMMA TicketTxPreserves ==
    ASSUME IndexInv, UNCHANGED <<escrowVars, registryVars, cashVars, now>>,
           \/ \E to \in Account, m \in MintInput : MintTx(to, m)
           \/ \E u \in User, t \in TokenId : RedeemTx(u, t)
           \/ \E u \in User, to \in Account, t \in TokenId : TransferTx(u, to, t)
    PROVE  IndexInv'
<1>0. /\ redeemed \subseteq TokenId /\ nextTokenId \in Nat
      /\ \A t \in TokenId : t \in Nat /\ (ownerOf[t] # NoOne => t < nextTokenId)
      /\ \A t \in redeemed : t < nextTokenId
  BY DEF IndexInv, IInv, TypeOK, TicketTypeOK, TokenId
<1>1. ASSUME NEW to \in Account, NEW m \in MintInput, MintTx(to, m) PROVE IndexInv'
  <2>1. PICK id : id = nextTokenId
    OBVIOUS
  <2> DEFINE E == <<Transfer(NoOne, to, id),
                    [type |-> "TicketMinted", token |-> id, to |-> to, place |-> m]>>
  <2>2. BroughtUpBy(E)
    BY <1>1, <2>1, MintShown
  <2>3. Emit(E)
    BY <1>1, <2>1 DEF MintTx
  <2>4. Mint(to, m)
    BY <1>1 DEF MintTx
  <2> HIDE DEF E
  <2>5. Next
    BY <2>4 DEF Next, TicketStep
  <2>6. \A t \in redeemed' : t < nextTokenId'
    BY <1>0, <2>4 DEF Mint
  <2> QED
    BY <2>2, <2>3, <2>5, <2>6, EmitPreserves
<1>2. ASSUME NEW u \in User, NEW t \in TokenId, RedeemTx(u, t) PROVE IndexInv'
  <2> DEFINE E == <<[type |-> "TicketRedeemedEvt", token |-> t]>>
  <2>1. BroughtUpBy(E)
    BY <1>2, RedeemShown
  <2>2. Emit(E) /\ Redeem(u, t)
    BY <1>2 DEF RedeemTx
  <2> HIDE DEF E
  <2>3. Next
    BY <2>2 DEF Next, TicketStep
  <2>4. \A s \in redeemed' : s < nextTokenId'
    BY <1>0, <2>2, AccountAssumption DEF Redeem
  <2> QED
    BY <2>1, <2>2, <2>3, <2>4, EmitPreserves
<1>3. ASSUME NEW u \in User, NEW to \in Account, NEW t \in TokenId, TransferTx(u, to, t)
      PROVE  IndexInv'
  <2> DEFINE E == <<Transfer(u, to, t)>>
  <2>1. BroughtUpBy(E)
    BY <1>3, TransferShown
  <2>2. Emit(E) /\ TransferFrom(u, to, t)
    BY <1>3 DEF TransferTx
  <2> HIDE DEF E
  <2>3. Next
    BY <2>2 DEF Next, TicketStep
  <2>4. \A s \in redeemed' : s < nextTokenId'
    BY <1>0, <2>2 DEF TransferFrom
  <2> QED
    BY <2>1, <2>2, <2>3, <2>4, EmitPreserves
<1> QED
  BY <1>1, <1>2, <1>3

LEMMA BatchTxPreserves ==
    ASSUME IndexInv, NEW u \in User, NEW ids \in (SUBSET TokenId) \ {{}}, BatchTx(u, ids),
           UNCHANGED <<registryVars, cashVars, now>>
    PROVE  IndexInv'
<1>1. PICK from : from = ownerOf
  OBVIOUS
<1>2. PICK to : to = ownerOf'
  OBVIOUS
<1> DEFINE E == BatchEvents(ids, from, to)
<1>3. BroughtUpBy(E)
  BY <1>1, <1>2, BatchTxShown
<1>4. Emit(E)
  BY <1>1, <1>2, TransfersAreBatch DEF BatchTx
<1>5. Deposit(u, ids) \/ Withdraw(u, ids)
  BY DEF BatchTx
<1> HIDE DEF E
<1>6. Next
  BY <1>5 DEF Next, EscrowStep
<1>7. \A t \in redeemed' : t < nextTokenId'
  BY <1>5 DEF Deposit, Withdraw, IndexInv
<1> QED
  BY <1>3, <1>4, <1>6, <1>7, EmitPreserves

LEMMA RegistryTxPreserves ==
    ASSUME IndexInv, UNCHANGED <<ticketVars, escrowVars, cashVars, now>>,
           \/ \E i \in Intent : CommitTx(i)
           \/ \E u \in User, i \in Intent : RevokeTx(u, i)
    PROVE  IndexInv'
<1>0. \A t \in redeemed' : t < nextTokenId'
  BY DEF IndexInv, ticketVars
<1>1. ASSUME NEW i \in Intent, CommitTx(i) PROVE IndexInv'
  <2> DEFINE E == <<[type |-> "IntentCommitted", intent |-> i]>>
  <2>1. BroughtUpBy(E)
    BY <1>1, CommitShown
  <2>2. Emit(E) /\ Commit(i)
    BY <1>1 DEF CommitTx
  <2> HIDE DEF E
  <2>3. Next
    BY <2>2 DEF Next, RegistryStep
  <2> QED
    BY <1>0, <2>1, <2>2, <2>3, EmitPreserves
<1>2. ASSUME NEW u \in User, NEW i \in Intent, RevokeTx(u, i) PROVE IndexInv'
  <2> DEFINE E == <<[type |-> "IntentRevoked", intent |-> i]>>
  <2>1. BroughtUpBy(E)
    BY <1>2, RevokeShown
  <2>2. Emit(E) /\ Revoke(u, i)
    BY <1>2 DEF RevokeTx
  <2> HIDE DEF E
  <2>3. Next
    BY <2>2 DEF Next, RegistryStep
  <2> QED
    BY <1>0, <2>1, <2>2, <2>3, EmitPreserves
<1> QED
  BY <1>1, <1>2

LEMMA SettleTxPreserves ==
    ASSUME IndexInv, SettleTx PROVE IndexInv'
<1>1. PICK from : from = ownerOf
  OBVIOUS
<1>2. PICK to : to = ownerOf'
  OBVIOUS
<1>3. PICK moved : moved = {t \in TokenId : ownerOf'[t] # ownerOf[t]}
  OBVIOUS
<1>4. PICK done : done = {i \in Intent : state'[i] # state[i]}
  OBVIOUS
<1>5. Settle
  BY DEF SettleTx
<1>6. Next
  BY <1>5 DEF Next
<1>7. IInv'
  BY <1>6, NextPreserves DEF IndexInv
<1> DEFINE E == Append(BatchEvents(moved, from, to), [type |-> "Settled", intents |-> done])
<1>8. BroughtUpBy(E)
  BY <1>1, <1>2, <1>3, <1>4, <1>5, <1>7, SettleTxShown
<1>9. Emit(E)
  BY <1>1, <1>2, <1>3, <1>4, TransfersAreBatch DEF SettleTx
<1> HIDE DEF E
<1>10. \A t \in redeemed' : t < nextTokenId'
  BY <1>5, SettleMoves DEF IndexInv
<1> QED
  BY <1>6, <1>8, <1>9, <1>10, EmitPreserves

(* Indexing a transaction drops the first state of the ones to go through. *)
LEMMA IndexPreserves ==
    ASSUME IndexInv, Index PROVE IndexInv'
<1>1. PICK f : CatchesUp(f)
  BY DEF IndexInv
<1>2. backlog \in Seq(Seq(Event)) /\ backlog # <<>> /\ backlog' = Tail(backlog)
  BY DEF IndexInv, Index
<1>3. PICK n : n = Len(backlog)
  OBVIOUS
<1>4. /\ n \in Nat /\ n >= 1 /\ Len(backlog') = n - 1
      /\ backlog' \in Seq(Seq(Event)) /\ Head(backlog) = backlog[1]
      /\ \A k \in 1 .. n - 1 : backlog'[k] = backlog[k + 1]
  BY <1>2, <1>3
<1> DEFINE g == [k \in 0 .. n - 1 |-> f[k + 1]]
<1>5. g \in [0 .. n - 1 -> Entities]
  <2>1. \A k \in 0 .. n - 1 : k + 1 \in 0 .. n
    BY <1>4
  <2> QED
    BY <1>1, <1>3, <2>1 DEF CatchesUp
<1>6. index' = FoldLeft(Handle, index, Head(backlog))
  BY DEF Index
<1>7. PICK x : x = index
  OBVIOUS
<1>8. PICK h : h = Head(backlog)
  OBVIOUS
<1>9. index' = f[1]
  <2>1. 1 \in 1 .. n /\ 1 - 1 = 0
    BY <1>4
  <2>2. PICK b : b = backlog
    OBVIOUS
  <2>3. f[1] = FoldLeft(Handle, f[0], b[1])
    <3>1. f[1] = FoldLeft(Handle, f[1 - 1], b[1])
      BY <1>1, <1>3, <2>1, <2>2 DEF CatchesUp
    <3> QED
      BY <2>1, <3>1
  <2>4. f[0] = x /\ b[1] = h
    BY <1>1, <1>4, <1>7, <1>8, <2>2 DEF CatchesUp
  <2>5. index' = FoldLeft(Handle, x, h)
    BY <1>6, <1>7, <1>8
  <2> QED
    BY <2>3, <2>4, <2>5
<1>10. g[0] = index'
  BY <1>4, <1>9
<1>11. \A k \in 1 .. n - 1 : g[k] = FoldLeft(Handle, g[k - 1], backlog'[k])
  <2> SUFFICES ASSUME NEW k \in 1 .. n - 1
               PROVE  g[k] = FoldLeft(Handle, g[k - 1], backlog'[k])
    OBVIOUS
  <2>1. k + 1 \in 1 .. n /\ k \in 0 .. n - 1 /\ k - 1 \in 0 .. n - 1 /\ (k - 1) + 1 = k
            /\ (k + 1) - 1 = k
    BY <1>4
  <2>2. g[k] = f[k + 1] /\ g[k - 1] = f[k] /\ backlog'[k] = backlog[k + 1]
    BY <1>4, <2>1
  <2>3. f[k + 1] = FoldLeft(Handle, f[(k + 1) - 1], backlog[k + 1])
    BY <1>1, <1>3, <2>1 DEF CatchesUp
  <2> HIDE DEF g
  <2> QED
    BY <2>1, <2>2, <2>3
<1>12. /\ \A k \in 0 .. n - 1 : Sound(g[k])
       /\ \A k \in 1 .. n - 1 : Advances(g[k - 1], g[k])
  <2>1. \A k \in 0 .. n - 1 : k + 1 \in 0 .. n
    BY <1>4
  <2>2. ASSUME NEW k \in 1 .. n - 1 PROVE Advances(g[k - 1], g[k])
    <3>1. k + 1 \in 1 .. n /\ k \in 0 .. n - 1 /\ k - 1 \in 0 .. n - 1
              /\ (k - 1) + 1 = k /\ (k + 1) - 1 = k
      BY <1>4
    <3>2. g[k] = f[k + 1] /\ g[k - 1] = f[k]
      BY <3>1
    <3>3. Advances(f[(k + 1) - 1], f[k + 1])
      BY <1>1, <1>3, <3>1 DEF CatchesUp
    <3> HIDE DEF g
    <3> QED
      BY <3>1, <3>2, <3>3
  <2> QED
    BY <1>1, <1>3, <2>1, <2>2 DEF CatchesUp
<1>13. Shows(g[n - 1])'
  <2>1. g[n - 1] = f[n]
    BY <1>4
  <2>2. Shows(f[n])
    BY <1>1, <1>3 DEF CatchesUp
  <2>3. UNCHANGED <<ownerOf, meta, redeemed, depositor, state>>
    BY DEF Index, vars, ticketVars, escrowVars, registryVars
  <2> HIDE DEF g
  <2> QED
    BY <2>1, <2>2, <2>3 DEF Shows
<1>14. CatchesUp(g)'
  <2> HIDE DEF g
  <2> QED
    BY <1>4, <1>5, <1>10, <1>11, <1>12, <1>13 DEF CatchesUp
<1>15. IInv' /\ \A t \in redeemed' : t < nextTokenId'
  BY NextPreserves DEF Index, IndexInv, vars, ticketVars
<1> QED
  BY <1>4, <1>14, <1>15 DEF IndexInv

(* A step the index does not see: a signature, or none at all.             *)
LEMMA UnseenPreserves ==
    ASSUME IndexInv, [Next]_vars,
           UNCHANGED <<ticketVars, escrowVars, state, backlog, index>>
    PROVE  IndexInv'
<1>1. IInv'
  BY NextPreserves DEF IndexInv
<1>2. PICK f : CatchesUp(f)
  BY DEF IndexInv
<1>3. CatchesUp(f)'
  <2>1. UNCHANGED <<ownerOf, meta, redeemed, depositor, state, backlog, index>>
    BY DEF ticketVars, escrowVars
  <2>2. Shows(f[Len(backlog)])'
    <3>1. Shows(f[Len(backlog)]) /\ Len(backlog') = Len(backlog)
      BY <1>2, <2>1 DEF CatchesUp
    <3> QED
      BY <2>1, <3>1 DEF Shows
  <2> QED
    BY <1>2, <2>1, <2>2 DEF CatchesUp
<1> QED
  BY <1>1, <1>3 DEF IndexInv, ticketVars

LEMMA IndexNextPreserves == IndexInv /\ [SubgraphNext]_subgraphVars => IndexInv'
<1> SUFFICES ASSUME IndexInv, [SubgraphNext]_subgraphVars PROVE IndexInv'
  OBVIOUS
<1>1. ASSUME NEW i \in Intent, Sign(i),
             UNCHANGED <<ticketVars, escrowVars, cashVars, now, backlog, index>>
      PROVE  IndexInv'
  <2>1. Next
    BY <1>1 DEF Next, RegistryStep
  <2>2. state' = state
    BY <1>1 DEF Sign
  <2> QED
    BY <1>1, <2>1, <2>2, UnseenPreserves
<1>2. ASSUME UNCHANGED subgraphVars PROVE IndexInv'
  <2>1. UNCHANGED vars /\ UNCHANGED <<backlog, index>>
    BY <1>2 DEF subgraphVars
  <2> QED
    BY <2>1, UnseenPreserves DEF vars, registryVars
<1> QED
  BY <1>1, <1>2, TicketTxPreserves, BatchTxPreserves, RegistryTxPreserves, SettleTxPreserves,
     IndexPreserves DEF SubgraphNext

LEMMA IndexInitEstablishes == SubgraphInit => IndexInv
<1> SUFFICES ASSUME SubgraphInit PROVE IndexInv
  OBVIOUS
<1>1. IInv
  BY InitEstablishes DEF SubgraphInit
<1>2. /\ ownerOf = [t \in TokenId |-> NoOne] /\ meta = [t \in TokenId |-> NoMeta]
      /\ redeemed = {} /\ depositor = [t \in TokenId |-> NoOne]
      /\ state = [i \in Intent |-> "NONE"]
  BY DEF SubgraphInit, Init, TicketInit, EscrowInit, RegistryInit
<1>3. backlog = <<>> /\ backlog \in Seq(Seq(Event)) /\ Len(backlog) = 0
  BY DEF SubgraphInit
<1> DEFINE x == [tickets |-> [t \in TokenId |-> NoTicket],
                 intents |-> [i \in Intent |-> "NONE"],
                 settlements |-> {}]
<1>4. index = x
  BY DEF SubgraphInit
<1>5. /\ NoTicket \in TicketEntity /\ NoTicket.owner = NoOne /\ NoTicket.place = NoMeta
      /\ NoTicket.redeemed = FALSE
  BY NoMetaType DEF NoTicket, TicketEntity
<1>6. x \in Entities
  BY <1>5 DEF Entities, RegistryState
<1>7. Sound(x)
  BY <1>5, AccountAssumption DEF Sound, Partitioned, InPlace, NoTicket
<1>8. Shows(x)
  BY <1>2, <1>5 DEF Shows
<1> HIDE DEF x
<1> DEFINE f == [k \in 0 .. 0 |-> x]
<1>9. CatchesUp(f)
  <2>1. f \in [0 .. 0 -> Entities] /\ f[0] = x /\ 0 .. 0 = {0} /\ 1 .. 0 = {}
    BY <1>6
  <2> HIDE DEF f
  <2> QED
    BY <1>3, <1>4, <1>7, <1>8, <2>1 DEF CatchesUp
<1> QED
  BY <1>1, <1>2, <1>3, <1>9 DEF IndexInv

LEMMA IndexInvariance == SubgraphSpec => []IndexInv
BY IndexInitEstablishes, IndexNextPreserves, PTL DEF SubgraphSpec

(* However far the indexer is behind, what it has indexed is sound: the    *)
(* settlements it shows partition the intents it shows as settled; and     *)
(* whenever it has caught up it shows of every ticket and intent what the  *)
(* contracts say, and the custody of every ticket the escrow owes          *)
(* (src/subgraph/src/ticket.ts:8-87, registry.ts:8-56, settlement.ts:8-39).*)
THEOREM IndexIsRight == SubgraphSpec => []IndexFaithful
<1>1. IndexInv => IndexFaithful
  <2> SUFFICES ASSUME IndexInv PROVE IndexFaithful
    OBVIOUS
  <2>1. PICK f : CatchesUp(f)
    BY DEF IndexInv
  <2>2. Len(backlog) \in Nat /\ (CaughtUp => Len(backlog) = 0)
    BY DEF IndexInv, CaughtUp
  <2>3. index \in Entities /\ Partitioned(index)
    BY <2>1, <2>2 DEF CatchesUp, Sound
  <2>4. CaughtUp => Shows(index)
    BY <2>1, <2>2 DEF CatchesUp
  <2>5. SubgraphTypeOK
    BY <2>3 DEF SubgraphTypeOK, Entities, TicketEntity
  <2>6. IndexAgrees /\ CustodyNeverMissed /\ SettlementsPartition
    BY <2>3, <2>4 DEF Shows, Partitioned, IndexAgrees, CustodyNeverMissed, SettlementsPartition
  <2> QED
    BY <2>5, <2>6 DEF IndexFaithful
<1> QED
  BY <1>1, IndexInvariance, PTL

-----------------------------------------------------------------------------
(* The pool and the market.  Time passes for them too.                     *)
LEMMA PoolNextPreserves == IndexInv /\ [PoolNext]_subgraphVars => IndexInv'
<1> SUFFICES ASSUME IndexInv, [PoolNext]_subgraphVars PROVE IndexInv'
  OBVIOUS
<1>1. ASSUME Tick, UNCHANGED <<ticketVars, escrowVars, registryVars, cashVars, backlog, index>>
      PROVE  IndexInv'
  <2>1. Next
    BY <1>1 DEF Next, TimeStep
  <2>2. state' = state
    BY <1>1 DEF registryVars
  <2> QED
    BY <1>1, <2>1, <2>2, UnseenPreserves
<1> QED
  BY <1>1, IndexNextPreserves DEF PoolNext

LEMMA PoolInvariance == PoolSpec => []IndexInv
BY IndexInitEstablishes, PoolNextPreserves, PTL DEF PoolSpec

(* What the invariant says of the state the index is in.                   *)
LEMMA IndexIsSound ==
    ASSUME IndexInv
    PROVE  /\ index \in Entities /\ Sound(index)
           /\ CaughtUp => Shows(index)
<1>1. PICK f : CatchesUp(f)
  BY DEF IndexInv
<1>2. Len(backlog) \in Nat /\ (CaughtUp => Len(backlog) = 0)
  BY DEF IndexInv, CaughtUp
<1> QED
  BY <1>1, <1>2 DEF CatchesUp

\* What the index has to show of a ticket that i offers.
Held(i, t) ==
    LET k == index.tickets[t] IN
    /\ k.known /\ ~k.redeemed
    /\ k.escrowed /\ k.depositor = i.owner
    /\ k.place.eventId = i.eventId

(* An intent is in the pool if it is open, in time, and all it offers is   *)
(* in its owner's custody.                                                 *)
LEMMA PoolIs ==
    ASSUME index \in Entities, now \in Nat
    PROVE  Pool = {i \in Intent :
               /\ index.intents[i] = "LIVE" /\ now <= i.deadline
               /\ \A t \in Range(i.offered) : t \in TokenId /\ Held(i, t)}
<1>1. DOMAIN index.tickets = TokenId
  BY DEF Entities
<1>2. ASSUME NEW i \in Intent
      PROVE  ReasonOf(i) = "NONE" <=>
                 /\ now <= i.deadline
                 /\ \A t \in Range(i.offered) : t \in TokenId /\ Held(i, t)
  <2>1. i.deadline \in Nat
    BY IntentAssumption
  <2> QED
    BY <1>1, <2>1 DEF ReasonOf, Exclusion, NotHeld, Held
<1> QED
  BY <1>2 DEF Pool, LiveInIndex

(* The page judges by owner and depositor, the pool by the escrowed flag:  *)
(* for a sound index they are the same.                                    *)
LEMMA ExecutableIs ==
    ASSUME index \in Entities, Sound(index), now \in Nat, NEW event
    PROVE  Executable(event) = {i \in Pool : i.eventId = event}
<1>1. ASSUME NEW i \in Intent, i.eventId = event, NEW t \in TokenId
      PROVE  Held(i, t) <=>
                 /\ index.tickets[t].known
                 /\ index.tickets[t].place.eventId = event
                 /\ InEscrow(t) /\ ShownDepositor(t) = i.owner
  <2>1. i.owner # NoOne
    BY IntentAssumption, AccountAssumption
  <2>2. InPlace(index.tickets[t])
    BY DEF Sound
  <2> QED
    BY <1>1, <2>1, <2>2 DEF Held, InPlace, InEscrow, ShownDepositor
<1>2. \A i \in Intent : i.deadline >= now <=> now <= i.deadline
  BY IntentAssumption
<1> QED
  BY <1>1, <1>2, PoolIs DEF Executable, ShownState

LEMMA SupplyIsPool == IndexInv => SupplyAgrees
<1> SUFFICES ASSUME IndexInv, NEW t \in TokenId
             PROVE  LET p == index.tickets[t].place IN
                    t \in SectionSupply(p.eventId, p.session, p.section)
                        <=> \E i \in Pool : t \in Range(i.offered)
  BY DEF SupplyAgrees
<1> DEFINE p == index.tickets[t].place
<1>1. index \in Entities /\ Sound(index) /\ now \in Nat
  BY IndexIsSound DEF IndexInv, IInv, TypeOK
<1>2. t \in SectionSupply(p.eventId, p.session, p.section)
          <=> \E i \in Executable(p.eventId) : t \in Range(i.offered)
  BY DEF SectionSupply
<1>3. Executable(p.eventId) = {i \in Pool : i.eventId = p.eventId}
  BY <1>1, ExecutableIs
<1>4. \A i \in Pool : t \in Range(i.offered) => i.eventId = p.eventId
  BY <1>1, PoolIs DEF Held
<1> QED
  BY <1>2, <1>3, <1>4

LEMMA ExclusionsAreTrue == IndexInv => ExclusionsTrue
<1> SUFFICES ASSUME IndexInv, CaughtUp, NEW i \in Excluded
             PROVE
    /\ ReasonOf(i) = "EXPIRED" => now > i.deadline
    /\ ReasonOf(i) = "TICKET_UNKNOWN" => \E t \in Range(i.offered) : t \notin 0 .. nextTokenId - 1
    /\ ReasonOf(i) = "TICKET_REDEEMED" => ~OffersUnused({i})
    /\ ReasonOf(i) \in {"TICKET_NOT_IN_ESCROW", "WRONG_EVENT"} =>
          ~OffersEscrowed({i}) /\ OffersUnused({i})
  BY DEF ExclusionsTrue
<1>1. index \in Entities /\ Sound(index) /\ Shows(index)
  BY IndexIsSound
<1>2. DOMAIN index.tickets = TokenId
  BY <1>1 DEF Entities
<1>3. i \in Intent /\ i.owner # NoOne
  BY IntentAssumption, AccountAssumption DEF Excluded, LiveInIndex
<1>4. /\ now \in Nat /\ i.deadline \in Nat
      /\ nextTokenId \in Nat /\ nextTokenId <= MaxTickets /\ MaxTickets \in Nat
      /\ TokenId = 0 .. MaxTickets - 1
      /\ \A t \in TokenId : ownerOf[t] # NoOne <=> t < nextTokenId
      /\ redeemed \subseteq TokenId
  BY <1>3, IntentAssumption, TicketAssumption DEF IndexInv, IInv, TypeOK, TicketTypeOK, TokenId
<1>5. ReasonOf(i) = "EXPIRED" => now > i.deadline
  BY <1>4 DEF ReasonOf, Exclusion
<1>6. ASSUME ReasonOf(i) = "TICKET_UNKNOWN"
      PROVE  \E t \in Range(i.offered) : t \notin 0 .. nextTokenId - 1
  <2>1. PICK t \in Range(i.offered) : t \notin TokenId \/ ~index.tickets[t].known
    BY <1>2, <1>6 DEF ReasonOf, Exclusion
  <2>2. CASE t \notin TokenId
    BY <1>4, <2>2
  <2>3. CASE t \in TokenId /\ ~index.tickets[t].known
    <3>1. ownerOf[t] = NoOne
      BY <1>1, <2>3 DEF Sound, InPlace, Shows
    <3> QED
      BY <1>4, <2>3, <3>1
  <2> QED
    BY <2>1, <2>2, <2>3
<1>7. ASSUME ReasonOf(i) = "TICKET_REDEEMED" PROVE ~OffersUnused({i})
  <2>1. \E t \in Range(i.offered) : t \in TokenId /\ index.tickets[t].redeemed
    BY <1>2, <1>7 DEF ReasonOf, Exclusion
  <2> QED
    BY <1>1, <2>1 DEF Shows, OffersUnused
<1>8. ASSUME ReasonOf(i) \in {"TICKET_NOT_IN_ESCROW", "WRONG_EVENT"}
      PROVE  ~OffersEscrowed({i}) /\ OffersUnused({i})
  <2>1. \A t \in Range(i.offered) : t \in TokenId /\ ~index.tickets[t].redeemed
    BY <1>2, <1>8 DEF ReasonOf, Exclusion
  <2>2. \E t \in Range(i.offered) :
            NotHeld(index.tickets, i, t) \/ index.tickets[t].place.eventId # i.eventId
    BY <1>8 DEF ReasonOf, Exclusion
  <2>3. OffersUnused({i})
    BY <1>1, <2>1 DEF Shows, OffersUnused
  <2>4. \A t \in TokenId : depositor[t] = i.owner /\ meta[t].eventId = i.eventId =>
            ~NotHeld(index.tickets, i, t) /\ index.tickets[t].place.eventId = i.eventId
    BY <1>1, <1>3 DEF Shows, NotHeld
  <2>5. ~OffersEscrowed({i})
    BY <2>1, <2>2, <2>4 DEF OffersEscrowed
  <2> QED
    BY <2>3, <2>5
<1> QED
  BY <1>5, <1>6, <1>7, <1>8

LEMMA PoolPasses == IndexInv => PoolPassesChecks
<1> SUFFICES ASSUME IndexInv, CaughtUp, NEW i \in Pool,
                    \A t \in Range(i.offered) : ~Stranded(t)
             PROVE  IntentsLive({i}) /\ OffersEscrowed({i}) /\ OffersUnused({i})
  BY DEF PoolPassesChecks
<1>1. index \in Entities /\ Sound(index) /\ Shows(index) /\ now \in Nat
  BY IndexIsSound DEF IndexInv, IInv, TypeOK
<1>2. /\ i \in Intent /\ index.intents[i] = "LIVE" /\ now <= i.deadline
      /\ \A t \in Range(i.offered) : t \in TokenId /\ Held(i, t)
  BY <1>1, PoolIs
<1>3. ASSUME NEW t \in Range(i.offered)
      PROVE  depositor[t] = i.owner /\ meta[t].eventId = i.eventId /\ t \notin redeemed
  <2>1. t \in TokenId /\ Held(i, t) /\ InPlace(index.tickets[t])
    BY <1>1, <1>2 DEF Sound
  <2>2. ownerOf[t] = EscrowAddr
    BY <1>1, <2>1 DEF Held, InPlace, Shows
  <2>3. depositor[t] # NoOne
    BY <2>1, <2>2 DEF Stranded
  <2> QED
    BY <1>1, <2>1, <2>3 DEF Held, Shows
<1> QED
  BY <1>1, <1>2, <1>3 DEF Shows, IntentsLive, OffersEscrowed, OffersUnused

LEMMA ShownGoesForward ==
    ASSUME IndexInv, [PoolNext]_subgraphVars, NEW i \in Intent, ShownState(i) # ShownState(i)'
    PROVE  <<ShownState(i), ShownState(i)'>> \in Advance
<1>1. index' # index
  BY DEF ShownState
<1>2. Index
  BY <1>1 DEF PoolNext, SubgraphNext, subgraphVars, MintTx, RedeemTx, TransferTx, BatchTx,
     CommitTx, RevokeTx, SettleTx, Emit
<1>3. PICK f : CatchesUp(f)
  BY DEF IndexInv
<1>4. index' = f[1] /\ index = f[0] /\ 1 \in 1 .. Len(backlog)
  <2>1. PICK b : b = backlog
    OBVIOUS
  <2>2. b \in Seq(Seq(Event)) /\ b # <<>>
    BY <1>2, <2>1 DEF IndexInv, Index
  <2>3. 1 \in 1 .. Len(b) /\ Head(b) = b[1] /\ 1 - 1 = 0
    BY <2>2
  <2>4. f[1] = FoldLeft(Handle, f[0], b[1])
    <3>1. f[1] = FoldLeft(Handle, f[1 - 1], b[1])
      BY <1>3, <2>1, <2>3 DEF CatchesUp
    <3> QED
      BY <2>3, <3>1
  <2>5. PICK x : x = index
    OBVIOUS
  <2>6. f[0] = x /\ index' = FoldLeft(Handle, x, b[1])
    BY <1>2, <1>3, <2>1, <2>3, <2>5 DEF CatchesUp, Index
  <2> QED
    BY <2>1, <2>3, <2>4, <2>5, <2>6
<1>5. Advances(f[0], f[1])
  <2>1. Advances(f[1 - 1], f[1]) /\ 1 - 1 = 0
    BY <1>3, <1>4 DEF CatchesUp
  <2> QED
    BY <2>1
<1> QED
  BY <1>4, <1>5 DEF Advances, ShownState

(* Whatever the index is behind by and however time passes: what is kept   *)
(* out of the pool fails the check that is named, what is in it passes V1  *)
(* to V3 unless a ticket was stranded, the page counts as supply exactly   *)
(* what is searched, and no intent is ever shown as open again             *)
(* (src/shared/graph/snapshot.ts:14-43, 129-202,                           *)
(* src/lib/section-supply.ts:16-26, src/server/market-graph.ts:144-162).   *)
THEOREM MarketIsFaithful == PoolSpec => MarketFaithful
<1>1. IndexInv => ExclusionsTrue /\ PoolPassesChecks /\ SupplyAgrees
  BY ExclusionsAreTrue, PoolPasses, SupplyIsPool
<1> DEFINE A == \A i \in Intent : ShownState(i) # ShownState(i)' =>
               <<ShownState(i), ShownState(i)'>> \in
                   {<<"NONE", "LIVE">>, <<"LIVE", "REVOKED">>, <<"LIVE", "SETTLED">>}
<1>2. IndexInv /\ [PoolNext]_subgraphVars => [A]_subgraphVars
  BY ShownGoesForward DEF Advance
<1> HIDE DEF A
<1>3. PoolSpec => [](ExclusionsTrue /\ PoolPassesChecks /\ SupplyAgrees) /\ [][A]_subgraphVars
  BY <1>1, <1>2, PoolInvariance, PTL DEF PoolSpec
<1> QED
  BY <1>3 DEF MarketFaithful, ShownLifecycle, A

-----------------------------------------------------------------------------
(* Counting, for the solver's checks against the contract's.               *)

(* A finite set as a sequence without repetition.                          *)
LEMMA ListOf ==
    ASSUME NEW S, IsFiniteSet(S)
    PROVE  /\ Cardinality(S) \in Nat
           /\ SetToSeq(S) \in [1 .. Cardinality(S) -> S]
           /\ \A a, b \in 1 .. Cardinality(S) : SetToSeq(S)[a] = SetToSeq(S)[b] => a = b
           /\ Range(SetToSeq(S)) = S
<1> DEFINE n == Cardinality(S)
           f == SetToSeq(S)
<1>1. n \in Nat /\ ExistsBijection(1 .. n, S)
  BY FS_CardinalityType
<1>2. \E h \in [1 .. n -> S] : IsInjective(h)
  BY <1>1 DEF ExistsBijection, Bijection, Injection
<1>3. f \in [1 .. n -> S] /\ IsInjective(f)
  BY <1>2 DEF SetToSeq
<1>4. Cardinality(1 .. n) = n
  BY <1>1, FS_Interval
<1>5. f \in Surjection(1 .. n, S)
  <2>1. f \in Injection(1 .. n, S)
    BY <1>3 DEF Injection
  <2> HIDE DEF f
  <2> QED
    BY <1>4, <2>1, FS_Injection
<1> HIDE DEF f
<1>6. \A a, b \in 1 .. n : f[a] = f[b] => a = b
  BY <1>3 DEF IsInjective
<1>7. Range(f) = S
  BY <1>3, <1>5 DEF Surjection, Range
<1> QED
  BY <1>1, <1>3, <1>6, <1>7 DEF f

LEMMA ListLength ==
    ASSUME NEW S, IsFiniteSet(S)
    PROVE  Len(SetToSeq(S)) = Cardinality(S) /\ DOMAIN SetToSeq(S) = 1 .. Cardinality(S)
<1> DEFINE n == Cardinality(S)
           f == SetToSeq(S)
<1>1. n \in Nat /\ f \in [1 .. n -> S]
  BY ListOf
<1> HIDE DEF n, f
<1>2. Len(f) = n /\ DOMAIN f = 1 .. n
  BY <1>1
<1> QED
  BY <1>2 DEF n, f

(* The values a function takes on a finite set, when there is at most one. *)
LEMMA AtMostOneValue ==
    ASSUME NEW S, IsFiniteSet(S), NEW f, DOMAIN f = S,
           Cardinality({f[t] : t \in S}) <= 1
    PROVE  \A a, b \in S : f[a] = f[b]
<1> DEFINE V == {f[t] : t \in S}
           g == [t \in S |-> f[t]]
<1>1. g \in Surjection(S, V)
  BY DEF Surjection
<1>2. IsFiniteSet(V)
  BY <1>1, FS_Surjection
<1>3. Cardinality(V) \in Nat
  BY <1>2, FS_CardinalityType
<1>4. CASE Cardinality(V) = 0
  BY <1>2, <1>4, FS_EmptySet
<1>5. CASE Cardinality(V) = 1
  BY <1>2, <1>5, FS_Singleton
<1> QED
  BY <1>3, <1>4, <1>5

(* Naturals as close together as their number allows are a block.          *)
LEMMA CloseTogether ==
    ASSUME NEW S \in SUBSET Nat, IsFiniteSet(S), S # {},
           \A a, b \in S : a - b < Cardinality(S)
    PROVE  \E first \in S : S = first .. first + Cardinality(S) - 1
<1>1. PICK m \in S : \A n \in S : m <= n
  BY LeastNatural
<1>2. PICK n \in Nat : n = Cardinality(S)
  BY FS_CardinalityType
<1>3. S \in SUBSET (m .. m + n - 1)
  BY <1>1, <1>2
<1>4. n # 0
  BY <1>2, FS_EmptySet
<1>5. IsFiniteSet(m .. m + n - 1) /\ Cardinality(m .. m + n - 1) = n
  <2>1. m \in Int /\ m + n - 1 \in Int
    OBVIOUS
  <2>2. Cardinality(m .. m + n - 1) = IF m > m + n - 1 THEN 0 ELSE m + n - 1 - m + 1
    BY <2>1, FS_Interval
  <2>3. IsFiniteSet(m .. m + n - 1)
    BY <2>1, FS_Interval
  <2> QED
    BY <1>4, <2>2, <2>3
<1>6. S = m .. m + n - 1
  BY <1>2, <1>3, <1>5, FS_Subset
<1> QED
  BY <1>2, <1>6

(* The positions of some lists are as many as the lists are long together. *)
Positions(Q, b) == UNION {{i} \X (1 .. Len(b[i])) : i \in Q}

LEMMA PositionsCounted ==
    ASSUME NEW P, IsFiniteSet(P), NEW b, NEW long,
           \A i \in P : Len(b[i]) \in Nat /\ long[i] = Len(b[i])
    PROVE  /\ IsFiniteSet(Positions(P, b))
           /\ Cardinality(Positions(P, b)) = SumFunctionOnSet(long, P)
<1> DEFINE Counts(Q) == /\ IsFiniteSet(Positions(Q, b))
                        /\ Cardinality(Positions(Q, b)) = SumFunctionOnSet(long, Q)
           Good == {Q \in SUBSET P : Counts(Q)}
<1>1. ASSUME NEW Q \in SUBSET P, \A x \in Q : Q \ {x} \in Good PROVE Q \in Good
  <2>1. CASE Q = {}
    <3>1. Positions(Q, b) = {}
      BY <2>1 DEF Positions
    <3>2. SumFunctionOnSet(long, Q) = 0
      BY <2>1, SumOfNone
    <3> QED
      BY <3>1, <3>2, FS_EmptySet
  <2>2. CASE Q # {}
    <3>1. PICK x \in Q : TRUE
      BY <2>2
    <3> DEFINE R == Q \ {x}
               n == Len(b[x])
               here == {x} \X (1 .. n)
    <3>2. Counts(R)
      BY <1>1
    <3>3. Positions(Q, b) = Positions(R, b) \cup here
      BY DEF Positions
    <3>4. Positions(R, b) \cap here = {}
      BY DEF Positions
    <3>5. n \in Nat /\ long[x] = n
      OBVIOUS
    <3>6. IsFiniteSet(here) /\ Cardinality(here) = n
      <4>1. IsFiniteSet(1 .. n) /\ Cardinality(1 .. n) = n
        BY <3>5, FS_Interval
      <4>2. IsFiniteSet({x}) /\ Cardinality({x}) = 1
        BY FS_Singleton
      <4>3. IsFiniteSet(here) /\ Cardinality(here) = Cardinality({x}) * Cardinality(1 .. n)
        BY <4>1, <4>2, FS_Product
      <4> HIDE DEF here
      <4> QED
        BY <3>5, <4>1, <4>2, <4>3
    <3>7. SumFunctionOnSet(long, Q) = long[x] + SumFunctionOnSet(long, R)
      <4>1. IsFiniteSet(Q) /\ \A i \in Q : long[i] \in Int
        BY FS_Subset
      <4> QED
        BY <4>1, SumRemove
    <3> HIDE DEF here, n, R
    <3>8. IsFiniteSet(Positions(R, b) \cup here)
      BY <3>2, <3>6, FS_Union
    <3>9. Cardinality(Positions(R, b) \cup here)
              = Cardinality(Positions(R, b)) + Cardinality(here) - Cardinality({})
      BY <3>2, <3>4, <3>6, FS_Union
    <3>10. Cardinality(Positions(R, b)) \in Nat /\ Cardinality({}) = 0
      BY <3>2, FS_CardinalityType, FS_EmptySet
    <3>11. Counts(Q)
      BY <3>2, <3>3, <3>5, <3>6, <3>7, <3>8, <3>9, <3>10
    <3> HIDE DEF Counts
    <3> QED
      BY <3>11
  <2> QED
    BY <2>1, <2>2
<1>2. P \in Good
  <2> HIDE DEF Good
  <2> QED
    BY <1>1, InductionOnSubsets
<1> QED
  BY <1>2

(* Lists that hold together as many things as they are long hold none      *)
(* twice: this is what the solver counts in place of V4.                   *)
LEMMA CountedOnce ==
    ASSUME NEW P, IsFiniteSet(P), NEW b, NEW S, \A i \in P : b[i] \in Seq(S),
           NEW long, \A i \in P : long[i] = Len(b[i]),
           SumFunctionOnSet(long, P) = Cardinality(TicketsIn(P, b))
    PROVE  NoTicketTwice(P, b)
<1> DEFINE D == Positions(P, b)
           T == TicketsIn(P, b)
           f == [p \in D |-> b[p[1]][p[2]]]
<1>1. IsFiniteSet(D) /\ Cardinality(D) = Cardinality(T)
  <2>1. \A i \in P : Len(b[i]) \in Nat /\ long[i] = Len(b[i])
    OBVIOUS
  <2> QED
    BY <2>1, PositionsCounted
<1>2. \A i \in P : DOMAIN b[i] = 1 .. Len(b[i])
  OBVIOUS
<1>3. \A i \in P : \A j \in DOMAIN b[i] : <<i, j>> \in D /\ f[<<i, j>>] = b[i][j]
  BY <1>2 DEF Positions
<1>4. f \in Surjection(D, T)
  <2>1. \A p \in D : p[1] \in P /\ p[2] \in DOMAIN b[p[1]]
    BY <1>2 DEF Positions
  <2>2. \A p \in D : f[p] \in T
    BY <2>1 DEF TicketsIn, Range
  <2>3. ASSUME NEW t \in T PROVE \E p \in D : f[p] = t
    <3>1. PICK i \in P : \E j \in DOMAIN b[i] : t = b[i][j]
      BY DEF TicketsIn, Range
    <3>2. PICK j \in DOMAIN b[i] : t = b[i][j]
      BY <3>1
    <3> HIDE DEF f, D
    <3> QED
      BY <1>3, <3>2
  <2>4. f \in [D -> T]
    <3> HIDE DEF D, T
    <3> QED
      BY <2>2
  <2> HIDE DEF f, D, T
  <2> QED
    BY <2>3, <2>4 DEF Surjection
<1>5. f \in Injection(D, T)
  <2> HIDE DEF f, D, T
  <2> QED
    BY <1>1, <1>4, FS_Surjection
<1>6. \A p, q \in D : f[p] = f[q] => p = q
  <2> HIDE DEF f, D, T
  <2> QED
    BY <1>5 DEF Injection, IsInjective
<1> HIDE DEF f, D
<1>7. ASSUME NEW i \in P, NEW k \in P, NEW j \in DOMAIN b[i], NEW l \in DOMAIN b[k],
             b[i][j] = b[k][l]
      PROVE  i = k /\ j = l
  <2>1. <<i, j>> \in D /\ <<k, l>> \in D /\ f[<<i, j>>] = f[<<k, l>>]
    BY <1>3, <1>7
  <2> DEFINE p == <<i, j>>
             q == <<k, l>>
  <2>2. p = q
    <3>1. p \in D /\ q \in D /\ f[p] = f[q]
      BY <2>1
    <3> HIDE DEF p, q
    <3> QED
      BY <1>6, <3>1
  <2> QED
    BY <2>2
<1> QED
  BY <1>7 DEF NoTicketTwice

LEMMA SumNotNegative ==
    ASSUME NEW S, IsFiniteSet(S), NEW f, \A x \in S : f[x] \in Nat
    PROVE  SumFunctionOnSet(f, S) \in Nat
<1> DEFINE Good == {T \in SUBSET S : SumFunctionOnSet(f, T) \in Nat}
<1>1. ASSUME NEW T \in SUBSET S, \A x \in T : T \ {x} \in Good PROVE T \in Good
  <2>1. CASE T = {}
    BY <2>1, SumOfNone
  <2>2. CASE T # {}
    <3>1. PICK x \in T : TRUE
      BY <2>2
    <3>2. IsFiniteSet(T) /\ \A y \in T : f[y] \in Int
      BY FS_Subset
    <3>3. SumFunctionOnSet(f, T) = f[x] + SumFunctionOnSet(f, T \ {x})
      BY <3>2, SumRemove
    <3> QED
      BY <1>1, <3>3
  <2> QED
    BY <2>1, <2>2
<1>2. S \in Good
  <2> HIDE DEF Good
  <2> QED
    BY <1>1, InductionOnSubsets
<1> QED
  BY <1>2

LEMMA SumAtMost ==
    ASSUME NEW S, IsFiniteSet(S), NEW f, NEW g,
           \A x \in S : f[x] \in Int /\ g[x] \in Int /\ f[x] <= g[x]
    PROVE  /\ SumFunctionOnSet(f, S) \in Int /\ SumFunctionOnSet(g, S) \in Int
           /\ SumFunctionOnSet(f, S) <= SumFunctionOnSet(g, S)
<1> DEFINE h == [x \in S |-> g[x] - f[x]]
<1>1. \A x \in S : h[x] \in Nat /\ h[x] = g[x] - f[x]
  OBVIOUS
<1> HIDE DEF h
<1>2. SumFunctionOnSet(h, S) = SumFunctionOnSet(g, S) - SumFunctionOnSet(f, S)
  <2>1. \A x \in S : g[x] \in Int /\ f[x] \in Int /\ h[x] = g[x] - f[x]
    BY <1>1
  <2> QED
    BY <2>1, SumOfDifferences
<1>3. SumFunctionOnSet(h, S) \in Nat
  BY <1>1, SumNotNegative
<1>4. SumFunctionOnSet(f, S) \in Int /\ SumFunctionOnSet(g, S) \in Int
  BY SumOfInts
<1> QED
  BY <1>2, <1>3, <1>4

(* What one of several that cancel out may be short of: what the others    *)
(* have at most.                                                           *)
LEMMA ShareOfZero ==
    ASSUME NEW S, IsFiniteSet(S), NEW f, NEW g, NEW bound \in Nat,
           \A x \in S : f[x] \in Int /\ g[x] \in Nat /\ f[x] <= g[x],
           SumFunctionOnSet(f, S) = 0, SumFunctionOnSet(g, S) <= bound, NEW x \in S
    PROVE  -bound <= f[x] /\ f[x] <= bound
<1> DEFINE R == S \ {x}
<1>1. IsFiniteSet(R) /\ \A y \in S : g[y] \in Int
  BY FS_Subset
<1>2. SumFunctionOnSet(f, S) = f[x] + SumFunctionOnSet(f, R)
  BY SumRemove
<1>3. SumFunctionOnSet(g, S) = g[x] + SumFunctionOnSet(g, R)
  BY <1>1, SumRemove
<1>4. /\ SumFunctionOnSet(f, R) \in Int /\ SumFunctionOnSet(g, R) \in Int
      /\ SumFunctionOnSet(f, R) <= SumFunctionOnSet(g, R)
  <2>1. \A y \in R : f[y] \in Int /\ g[y] \in Int /\ f[y] <= g[y]
    OBVIOUS
  <2> HIDE DEF R
  <2> QED
    BY <1>1, <2>1, SumAtMost
<1>5. SumFunctionOnSet(g, R) \in Nat
  <2>1. \A y \in R : g[y] \in Nat
    OBVIOUS
  <2> HIDE DEF R
  <2> QED
    BY <1>1, <2>1, SumNotNegative
<1>6. f[x] \in Int /\ g[x] \in Nat /\ f[x] <= g[x]
  OBVIOUS
<1> HIDE DEF R
<1> QED
  BY <1>2, <1>3, <1>4, <1>5, <1>6

-----------------------------------------------------------------------------
(* The payments of a candidate are whole amounts.                          *)
LEMMA TwoInts ==
    ASSUME NEW a \in Int, NEW b \in Int
    PROVE  Max({a, b}) \in {a, b} /\ Min({a, b}) \in {a, b}
<1>1. \E x \in {a, b} : \A y \in {a, b} : x >= y
  OBVIOUS
<1>2. \E x \in {a, b} : \A y \in {a, b} : x <= y
  OBVIOUS
<1> QED
  BY <1>1, <1>2 DEF Max, Min

LEMMA PaymentsAreInts ==
    ASSUME NEW P \in SUBSET Intent
    PROVE  DOMAIN Payments(P) = P /\ \A i \in P : Payments(P)[i] \in Int
<1>1. IsFiniteSet(P) /\ \A i \in P : i.maxNetPay \in Int
  BY FiniteAssumption, FS_Subset, IntentAssumption
<1>2. \A Q \in SUBSET P : SumFunctionOnSet(Limit(P), Q) \in Int
  <2>1. \A i \in P : Limit(P)[i] \in Int
    BY <1>1 DEF Limit
  <2> QED
    BY <1>1, <2>1, SumOfInts
<1>3. Payees(P) \in SUBSET P
  BY DEF Payees
<1>4. Demand(P) \in Int
  BY <1>2, <1>3 DEF Demand
<1> DEFINE open(i) == Demand(P) -
               SumFunctionOnSet(Limit(P), {k \in P \ Payees(P) : Before(k, i)})
           amount(i) == IF i \in Payees(P) THEN i.maxNetPay
                        ELSE Max({0, Min({open(i), i.maxNetPay})})
<1>5. ASSUME NEW i \in P PROVE amount(i) \in Int
  <2>1. open(i) \in Int
    <3>1. {k \in P \ Payees(P) : Before(k, i)} \in SUBSET P
      OBVIOUS
    <3> QED
      BY <1>2, <1>4, <3>1
  <2> HIDE DEF open
  <2>2. Min({open(i), i.maxNetPay}) \in Int
    BY <1>1, <2>1, TwoInts
  <2>3. Max({0, Min({open(i), i.maxNetPay})}) \in Int
    BY <2>2, TwoInts
  <2> QED
    BY <1>1, <2>3
<1>6. Payments(P) = [i \in P |-> amount(i)]
  BY DEF Payments
<1> HIDE DEF amount
<1> QED
  BY <1>5, <1>6

-----------------------------------------------------------------------------
(* What the contract checks, on any view: the same formulas as in          *)
(* Settlement.tla, over a record in place of its variables.                *)
AdjacentAt(v, b) ==
    LET place(t) == <<v.meta[t].session, v.meta[t].section, v.meta[t].row>>
        seats == {v.meta[t].seat : t \in Range(b)}
    IN  /\ \A t \in Range(b) : place(t) = place(b[1])
        /\ \E first \in seats : seats = first .. first + Len(b) - 1

SatisfiesAt(v, i, b) ==
    /\ Len(b) = i.exactCount
    /\ i.exactCount # 0 =>
        /\ \A t \in Range(b) :
            /\ v.meta[t].eventId = i.eventId
            /\ v.meta[t].session \in i.sessionMask
            /\ v.meta[t].section \in i.sectionMask
            /\ i.mustShareSession => v.meta[t].session = v.meta[b[1]].session
            /\ i.mustShareSection => v.meta[t].section = v.meta[b[1]].section
        /\ i.mustBeAdjacent => AdjacentAt(v, b)

CanPayAt(v, P, net) ==
    \A u \in User :
        /\ OwnerNet(P, net, u) \in Int256
        /\ OwnerNet(P, net, u) > 0 =>
            v.usdc[u] >= OwnerNet(P, net, u) /\ v.allowance[u] >= OwnerNet(P, net, u)

ChecksAt(v, P, receives, net) ==
    /\ \A i \in P : v.state[i] = "LIVE" /\ v.now <= i.deadline
    /\ \A i \in P : OfferStands(v, i)
    /\ Conserves(P, receives)
    /\ \A i \in P : SatisfiesAt(v, i, receives[i])
    /\ WithinBudget(P, net)
    /\ Balanced(P, net)
    /\ CanPayAt(v, P, net)

\* A view of the chain as the chain can be: no more USDC than fits.
ViewOK(v) ==
    /\ v.meta \in [TokenId -> TicketMeta]
    /\ v.usdc \in [User \cup {SettlementAddr} -> Nat]
    /\ SumFunctionOnSet(v.usdc, User) <= MaxInt

(* The solver's reading of an intent's predicate is the contract's.        *)
LEMMA AcceptedSatisfies ==
    ASSUME NEW v, ViewOK(v), NEW i \in Intent, NEW S \in SUBSET TokenId, Accepts(v, i, S)
    PROVE  SatisfiesAt(v, i, SetToSeq(S))
<1> DEFINE b == SetToSeq(S)
           n == Cardinality(S)
<1>1. IsFiniteSet(S) /\ n \in Nat
  <2>1. IsFiniteSet(TokenId)
    BY TicketAssumption, FS_Interval DEF TokenId
  <2> QED
    BY <2>1, FS_Subset, FS_CardinalityType
<1>2. n = i.exactCount
  BY DEF Accepts
<1>3. /\ b \in [1 .. n -> S] /\ Range(b) = S /\ Len(b) = n /\ DOMAIN b = 1 .. n
  BY <1>1, ListOf, ListLength
<1>4. \A t \in S : v.meta[t] \in TicketMeta
  BY DEF ViewOK
<1>5. n # 0 => b[1] \in S
  BY <1>1, <1>3
<1> HIDE DEF b, n
<1>6. ASSUME n # 0, NEW t \in S
      PROVE  /\ v.meta[t].eventId = i.eventId
             /\ v.meta[t].session \in i.sessionMask
             /\ v.meta[t].section \in i.sectionMask
             /\ i.mustShareSession => v.meta[t].session = v.meta[b[1]].session
             /\ i.mustShareSection => v.meta[t].section = v.meta[b[1]].section
  <2>1. Eligible(v, i, t)
    BY DEF Accepts
  <2>2. ASSUME i.mustShareSession PROVE v.meta[t].session = v.meta[b[1]].session
    <3> DEFINE f == [x \in S |-> v.meta[x].session]
    <3>1. Cardinality({v.meta[x].session : x \in S}) <= 1
      BY <2>2 DEF Accepts
    <3>2. DOMAIN f = S /\ \A x \in S : f[x] = v.meta[x].session
      OBVIOUS
    <3>3. {f[x] : x \in S} = {v.meta[x].session : x \in S}
      OBVIOUS
    <3> HIDE DEF f
    <3>4. \A x, y \in S : f[x] = f[y]
      BY <1>1, <3>1, <3>2, <3>3, AtMostOneValue
    <3> QED
      BY <1>5, <1>6, <3>2, <3>4
  <2>3. ASSUME i.mustShareSection PROVE v.meta[t].section = v.meta[b[1]].section
    <3> DEFINE f == [x \in S |-> v.meta[x].section]
    <3>1. Cardinality({v.meta[x].section : x \in S}) <= 1
      BY <2>3 DEF Accepts
    <3>2. DOMAIN f = S /\ \A x \in S : f[x] = v.meta[x].section
      OBVIOUS
    <3>3. {f[x] : x \in S} = {v.meta[x].section : x \in S}
      OBVIOUS
    <3> HIDE DEF f
    <3>4. \A x, y \in S : f[x] = f[y]
      BY <1>1, <3>1, <3>2, <3>3, AtMostOneValue
    <3> QED
      BY <1>5, <1>6, <3>2, <3>4
  <2> QED
    BY <2>1, <2>2, <2>3 DEF Eligible
<1>7. ASSUME n # 0, i.mustBeAdjacent PROVE AdjacentAt(v, b)
  <2> DEFINE place(t) == <<v.meta[t].session, v.meta[t].section, v.meta[t].row>>
             seats == {v.meta[t].seat : t \in S}
             f == [x \in S |-> place(x)]
  <2>1. /\ Cardinality({place(t) : t \in S}) <= 1
        /\ Cardinality(seats) = n
        /\ \A x, y \in seats : x - y < n
    BY <1>7 DEF Accepts, Adjoining, n
  <2>2. \A t \in S : place(t) = place(b[1])
    <3>1. DOMAIN f = S /\ \A x \in S : f[x] = place(x)
      OBVIOUS
    <3>2. {f[x] : x \in S} = {place(x) : x \in S}
      OBVIOUS
    <3> HIDE DEF f, place
    <3>3. \A x, y \in S : f[x] = f[y]
      BY <1>1, <2>1, <3>1, <3>2, AtMostOneValue
    <3> QED
      BY <1>5, <1>7, <3>1, <3>3
  <2>3. \E first \in seats : seats = first .. first + n - 1
    <3>1. seats \in SUBSET Nat
      <4>1. \A t \in S : v.meta[t].seat \in Nat
        <5>1. ASSUME NEW r \in TicketMeta PROVE r.seat \in Nat
          <6>1. r.seat \in UInt16
            BY DEF TicketMeta
          <6>2. \A x \in UInt16 : x \in Nat
            BY DEF UInt16
          <6> QED
            BY <6>1, <6>2
        <5> QED
          BY <1>4, <5>1
      <4> QED
        BY <4>1
    <3>2. IsFiniteSet(seats)
      <4> DEFINE g == [t \in S |-> v.meta[t].seat]
      <4>1. g \in Surjection(S, seats)
        BY DEF Surjection
      <4> HIDE DEF g, seats
      <4> QED
        BY <1>1, <4>1, FS_Surjection
    <3>3. seats # {}
      BY <1>5, <1>7
    <3> HIDE DEF seats
    <3> QED
      BY <2>1, <3>1, <3>2, <3>3, CloseTogether
  <2>4. Range(b) = S /\ Len(b) = n
    BY <1>3
  <2> QED
    BY <2>2, <2>3, <2>4 DEF AdjacentAt
<1> QED
  BY <1>2, <1>3, <1>6, <1>7 DEF SatisfiesAt, b

(* Who pays on balance has the money, and everybody's balance fits.        *)
LEMMA FundsSuffice ==
    ASSUME NEW v, ViewOK(v), NEW P \in SUBSET Intent, NEW net,
           \A i \in P : net[i] \in Int, Balanced(P, net),
           \A u \in {i.owner : i \in P} : HasFunds(v, P, net, u)
    PROVE  CanPayAt(v, P, net)
<1> DEFINE of(u) == {i \in P : i.owner = u}
           O == [u \in User |-> OwnerNet(P, net, u)]
<1>1. IsFiniteSet(P) /\ \A i \in P : i.owner \in User
  BY NetTypes
<1>2. \A u \in User : OwnerNet(P, net, u) \in Int
  <2>1. \A Q \in SUBSET P : SumFunctionOnSet(net, Q) \in Int
    BY <1>1, SumOfInts
  <2>2. \A u \in User : of(u) \in SUBSET P
    OBVIOUS
  <2> QED
    BY <2>1, <2>2 DEF OwnerNet
<1>3. \A u \in User : v.usdc[u] \in Nat
  BY DEF ViewOK
<1>4. ASSUME NEW u \in User
      PROVE  /\ OwnerNet(P, net, u) > 0 =>
                  v.usdc[u] >= OwnerNet(P, net, u) /\ v.allowance[u] >= OwnerNet(P, net, u)
             /\ OwnerNet(P, net, u) <= v.usdc[u]
  <2>1. CASE u \in {i.owner : i \in P}
    <3>1. OwnerNet(P, net, u) > 0 =>
              v.usdc[u] >= OwnerNet(P, net, u) /\ v.allowance[u] >= OwnerNet(P, net, u)
      BY <2>1 DEF HasFunds, OwnerNet
    <3> QED
      BY <1>2, <1>3, <3>1
  <2>2. CASE u \notin {i.owner : i \in P}
    <3>1. of(u) = {}
      BY <2>2
    <3>2. OwnerNet(P, net, u) = 0
      BY <3>1, SumOfNone DEF OwnerNet
    <3> QED
      BY <1>3, <3>2
  <2> QED
    BY <2>1, <2>2
<1>5. SumFunctionOnSet(O, User) = 0
  BY NothingGathered DEF Gathered
<1>6. \A u \in User : O[u] = OwnerNet(P, net, u)
  OBVIOUS
<1> HIDE DEF O, of
<1>7. ASSUME NEW u \in User PROVE OwnerNet(P, net, u) \in Int256
  <2>1. \A w \in User : O[w] \in Int /\ v.usdc[w] \in Nat /\ O[w] <= v.usdc[w]
    BY <1>2, <1>3, <1>4, <1>6
  <2>2. SumFunctionOnSet(v.usdc, User) <= MaxInt /\ MaxInt \in Nat
    BY SettlementAssumption DEF ViewOK
  <2>3. -MaxInt <= O[u] /\ O[u] <= MaxInt
    BY <1>5, <2>1, <2>2, FiniteAssumption, ShareOfZero
  <2> QED
    BY <1>2, <1>6, <2>2, <2>3 DEF Int256
<1> QED
  BY <1>4, <1>7 DEF CanPayAt

(* Everything offered is assigned once, so everything is conserved.        *)
LEMMA AssignmentsConserve ==
    ASSUME NEW v, NEW P \in SUBSET Intent, NEW to \in Assignments(v, P), WorthAssigning(P),
           \A i \in P : OfferStands(v, i)
    PROVE  /\ \A i \in P : to[i] \in SUBSET TokenId /\ Accepts(v, i, to[i])
           /\ Conserves(P, [i \in P |-> SetToSeq(to[i])])
           /\ TicketsIn(P, [i \in P |-> SetToSeq(to[i])]) \subseteq TokenId
<1> DEFINE receives == [i \in P |-> SetToSeq(to[i])]
<1>1. /\ to \in [P -> SUBSET Supply(P)]
      /\ \A i \in P : Accepts(v, i, to[i])
      /\ \A i, k \in P : i # k => to[i] \cap to[k] = {}
      /\ UNION Range(to) = Supply(P)
  BY DEF Assignments
<1>2. Supply(P) \subseteq TokenId
  BY DEF Supply
<1>3. \A i \in P : to[i] \in SUBSET TokenId
  BY <1>1, <1>2
<1>4. ASSUME NEW i \in P
      PROVE  /\ Range(receives[i]) = to[i]
             /\ \A a, b \in DOMAIN receives[i] :
                    receives[i][a] \in to[i] /\ (receives[i][a] = receives[i][b] => a = b)
  <2>1. IsFiniteSet(to[i])
    <3>1. IsFiniteSet(TokenId)
      BY TicketAssumption, FS_Interval DEF TokenId
    <3> QED
      BY <1>3, <3>1, FS_Subset
  <2>2. receives[i] = SetToSeq(to[i])
    OBVIOUS
  <2> HIDE DEF receives
  <2> QED
    BY <2>1, <2>2, ListOf, ListLength
<1> HIDE DEF receives
<1>5. NoTicketTwice(P, receives)
  <2> SUFFICES ASSUME NEW i \in P, NEW k \in P,
                      NEW j \in DOMAIN receives[i], NEW l \in DOMAIN receives[k],
                      receives[i][j] = receives[k][l]
               PROVE  i = k /\ j = l
    BY DEF NoTicketTwice
  <2>1. receives[i][j] \in to[i] /\ receives[k][l] \in to[k]
    BY <1>4
  <2>2. i = k
    BY <1>1, <2>1
  <2> QED
    BY <1>4, <2>2
<1>6. TicketsIn(P, receives) = Supply(P)
  <2>1. TicketsIn(P, receives) = UNION {to[i] : i \in P}
    BY <1>4 DEF TicketsIn
  <2>2. Range(to) = {to[i] : i \in P}
    BY <1>1 DEF Range
  <2> QED
    BY <1>1, <2>1, <2>2
<1>7. \A i \in P : Offered(P)[i] = i.offered
  BY DEF Offered
<1>8. Supply(P) = TicketsIn(P, Offered(P))
  <2>1. \A i \in P : Range(i.offered) \subseteq TokenId
    BY DEF OfferStands
  <2>2. TicketsIn(P, Offered(P)) = UNION {Range(i.offered) : i \in P}
    BY <1>7 DEF TicketsIn
  <2> QED
    BY <2>1, <2>2 DEF Supply
<1>9. NoTicketTwice(P, Offered(P))
  <2> DEFINE long == [i \in P |-> Len(i.offered)]
  <2>1. IsFiniteSet(P)
    BY NetTypes
  <2>2. \A i \in P : Offered(P)[i] \in Seq(Nat)
    BY <1>7, IntentAssumption
  <2>3. \A i \in P : long[i] = Len(Offered(P)[i])
    BY <1>7
  <2>4. SumFunctionOnSet(long, P) = Cardinality(TicketsIn(P, Offered(P)))
    BY <1>8 DEF WorthAssigning
  <2> HIDE DEF long
  <2> QED
    BY <2>1, <2>2, <2>3, <2>4, CountedOnce
<1>10. Conserves(P, receives)
  BY <1>5, <1>6, <1>8, <1>9 DEF Conserves
<1> QED
  BY <1>1, <1>2, <1>3, <1>6, <1>10 DEF receives

(* Every candidate of every subset passes the contract's checks.           *)
LEMMA CandidatesPass ==
    ASSUME NEW v, ViewOK(v), NEW P \in SUBSET Intent, WorthAssigning(P),
           NEW c \in CandidatesOf(v, P, Assignments(v, P))
    PROVE  /\ c.intents = P
           /\ TicketsIn(P, c.receives) \subseteq TokenId
           /\ \A i \in P : c.receives[i] \in Seq(TokenId) /\ c.net[i] \in Int
           /\ ChecksAt(v, P, c.receives, c.net)
<1>1. PICK to \in Assignments(v, P) :
          Validates(v, P, to, Payments(P)) /\ c = Candidate(P, to)
  BY DEF CandidatesOf
<1>2. /\ c.intents = P /\ c.net = Payments(P)
      /\ c.receives = [i \in P |-> SetToSeq(to[i])]
  BY <1>1 DEF Candidate
<1>3. \A i \in P : Payments(P)[i] \in Int
  BY PaymentsAreInts
<1>4. /\ \A i \in P : v.state[i] = "LIVE" /\ v.now <= i.deadline
      /\ \A i \in P : OfferStands(v, i) /\ Payments(P)[i] <= i.maxNetPay
      /\ Balanced(P, Payments(P))
      /\ \A u \in {i.owner : i \in P} : HasFunds(v, P, Payments(P), u)
  BY <1>1 DEF Validates, Balanced
<1>5. /\ \A i \in P : to[i] \in SUBSET TokenId /\ Accepts(v, i, to[i])
      /\ Conserves(P, [i \in P |-> SetToSeq(to[i])])
      /\ TicketsIn(P, [i \in P |-> SetToSeq(to[i])]) \subseteq TokenId
  BY <1>4, AssignmentsConserve
<1>6. \A i \in P : SatisfiesAt(v, i, c.receives[i])
  BY <1>2, <1>5, AcceptedSatisfies
<1>7. CanPayAt(v, P, Payments(P))
  BY <1>3, <1>4, FundsSuffice
<1>8. ASSUME NEW i \in P PROVE c.receives[i] \in Seq(TokenId)
  <2>1. IsFiniteSet(TokenId)
    BY TicketAssumption, FS_Interval DEF TokenId
  <2>2. IsFiniteSet(to[i]) /\ to[i] \in SUBSET TokenId
    BY <1>5, <2>1, FS_Subset
  <2>3. PICK n \in Nat : SetToSeq(to[i]) \in [1 .. n -> to[i]]
    BY <2>2, ListOf
  <2>4. SetToSeq(to[i]) \in [1 .. n -> TokenId]
    BY <2>2, <2>3
  <2> QED
    BY <1>2, <2>4
<1> QED
  BY <1>2, <1>3, <1>4, <1>5, <1>6, <1>7, <1>8 DEF ChecksAt, WithinBudget

-----------------------------------------------------------------------------
(* The pool only shrinks from what was requested.                          *)
LEMMA SearchableAreRequested ==
    ASSUME SolverAssumption, NEW v
    PROVE  Searchable(v) \subseteq Range(Requested) /\ Range(Requested) \subseteq Intent
<1> DEFINE L == Len(Requested)
           next(Q) == {i \in Q : OfferStands(v, i) /\ CanBeServed(v, i, Q)}
           Is(f, m) == f = [n \in 0 .. m |-> IF n = 0 THEN Live(v) ELSE next(f[n - 1])]
           rounds == CHOOSE f : Is(f, L)
           Good == {m \in Nat : \E f : Is(f, m)}
           StillLive == {m \in Nat : m <= L => rounds[m] \subseteq Live(v)}
<1>1. L \in Nat /\ Live(v) \subseteq Range(Requested) /\ Range(Requested) \subseteq Intent
  <2>1. Requested \in Seq(Intent)
    BY DEF SolverAssumption
  <2>2. Range(Requested) \subseteq Intent
    BY <2>1 DEF Range
  <2> QED
    BY <2>1, <2>2 DEF Live
<1>2. Searchable(v) = rounds[L]
  BY DEF Searchable
<1> HIDE DEF next
<1>3. 0 \in Good
  <2>1. Is([n \in 0 .. 0 |-> Live(v)], 0)
    OBVIOUS
  <2> QED
    BY <2>1
<1>4. ASSUME NEW m \in Nat, m \in Good PROVE m + 1 \in Good
  <2>1. PICK f : Is(f, m)
    BY <1>4
  <2> DEFINE g == [n \in 0 .. m + 1 |-> IF n <= m THEN f[n] ELSE next(f[m])]
             h == [n \in 0 .. m + 1 |-> IF n = 0 THEN Live(v) ELSE next(g[n - 1])]
  <2>2. \A n \in 0 .. m + 1 : g[n] = h[n]
    <3>1. \A n \in 0 .. m : f[n] = IF n = 0 THEN Live(v) ELSE next(f[n - 1])
      BY <2>1
    <3>2. ASSUME NEW n \in 0 .. m + 1 PROVE g[n] = h[n]
      <4>1. CASE n = 0
        BY <3>1, <4>1
      <4>2. CASE n # 0 /\ n <= m
        <5>1. n - 1 \in 0 .. m + 1 /\ n - 1 <= m /\ n \in 0 .. m
          BY <4>2
        <5> QED
          BY <3>1, <4>2, <5>1
      <4>3. CASE n = m + 1
        <5>1. n - 1 = m /\ m \in 0 .. m + 1 /\ ~ n <= m /\ n # 0
          BY <4>3
        <5> QED
          BY <5>1
      <4> QED
        BY <4>1, <4>2, <4>3
    <3> QED
      BY <3>2
  <2>3. Is(g, m + 1)
    <3>1. g = h
      BY <2>2
    <3> QED
      BY <3>1
  <2>4. (\E x : Is(x, m + 1)) /\ m + 1 \in Nat
    <3> HIDE DEF g, Is
    <3> QED
      BY <2>3
  <2> HIDE DEF Is
  <2> QED
    BY <2>4
<1>5. L \in Good
  <2> HIDE DEF Good, L
  <2> QED
    BY <1>1, <1>3, <1>4, InductionOnNat
<1>6. \A n \in 0 .. L : rounds[n] = IF n = 0 THEN Live(v) ELSE next(rounds[n - 1])
  <2>1. Is(rounds, L)
    <3>1. \E f : Is(f, L)
      BY <1>5
    <3> HIDE DEF Is, L
    <3> QED
      BY <3>1
  <2> HIDE DEF rounds, L
  <2> QED
    BY <2>1
<1> HIDE DEF rounds, L
<1>7. 0 \in StillLive
  BY <1>1, <1>6
<1>8. ASSUME NEW m \in Nat, m \in StillLive PROVE m + 1 \in StillLive
  <2> SUFFICES ASSUME m + 1 <= L PROVE rounds[m + 1] \subseteq Live(v)
    OBVIOUS
  <2>1. m + 1 \in 0 .. L /\ m + 1 # 0 /\ m + 1 - 1 = m /\ m <= L
    BY <1>1
  <2>2. rounds[m + 1] = next(rounds[m])
    BY <1>6, <2>1
  <2>3. rounds[m + 1] \subseteq rounds[m]
    BY <2>2 DEF next
  <2> QED
    BY <1>8, <2>1, <2>3
<1>9. L \in StillLive
  <2> HIDE DEF StillLive
  <2> QED
    BY <1>1, <1>7, <1>8, InductionOnNat
<1> QED
  BY <1>1, <1>2, <1>9

-----------------------------------------------------------------------------
(* No step of the contracts makes USDC.                                    *)
LEMMA PayLosesNothing ==
    ASSUME IInv, NEW u \in User, NEW a \in User \cup {SettlementAddr}, NEW x \in Amount,
           PayUsdc(u, a, x)
    PROVE  SumFunctionOnSet(usdc', User) <= SumFunctionOnSet(usdc, User)
<1> DEFINE R == User \ {u}
<1>1. /\ usdc \in [User \cup {SettlementAddr} -> Nat]
      /\ usdc' \in [User \cup {SettlementAddr} -> Nat]
      /\ x \in Nat /\ u # a
      /\ usdc'[u] = usdc[u] - x /\ usdc'[a] = usdc[a] + x
      /\ \A w \in User \cup {SettlementAddr} : w \notin {u, a} => usdc'[w] = usdc[w]
  <2>1. usdc \in [User \cup {SettlementAddr} -> Nat] /\ x \in Nat /\ u # a /\ usdc[u] >= x
    BY SettlementAssumption DEF IInv, TypeOK, PayUsdc
  <2>2. usdc' = [usdc EXCEPT ![u] = @ - x, ![a] = @ + x]
    BY DEF PayUsdc
  <2> QED
    BY <2>1, <2>2
<1>2. IsFiniteSet(User) /\ IsFiniteSet(R)
  BY FiniteAssumption, FS_Subset
<1>3. \A w \in User : usdc[w] \in Int /\ usdc'[w] \in Int
  BY <1>1
<1>4. /\ SumFunctionOnSet(usdc, User) = usdc[u] + SumFunctionOnSet(usdc, R)
      /\ SumFunctionOnSet(usdc', User) = usdc'[u] + SumFunctionOnSet(usdc', R)
  BY <1>2, <1>3, SumRemove
<1>5. SumFunctionOnSet(usdc, R) \in Int /\ SumFunctionOnSet(usdc', R) \in Int
  <2>1. \A w \in R : usdc[w] \in Int /\ usdc'[w] \in Int
    BY <1>3
  <2> HIDE DEF R
  <2> QED
    BY <1>2, <2>1, SumOfInts
<1>6. CASE a \notin User
  <2>1. \A w \in R : usdc[w] = usdc'[w] /\ usdc[w] \in Int
    BY <1>1, <1>3, <1>6
  <2> HIDE DEF R
  <2>2. SumFunctionOnSet(usdc, R) = SumFunctionOnSet(usdc', R)
    BY <1>2, <2>1, SumOfSame
  <2> QED
    BY <1>1, <1>4, <1>5, <2>2
<1>7. CASE a \in User
  <2> DEFINE S == R \ {a}
  <2>1. a \in R /\ IsFiniteSet(S) /\ \A w \in R : usdc[w] \in Int /\ usdc'[w] \in Int
    BY <1>1, <1>2, <1>3, <1>7, FS_Subset
  <2>2. \A w \in S : usdc[w] = usdc'[w] /\ usdc[w] \in Int
    BY <1>1, <1>3
  <2> HIDE DEF R
  <2>3. /\ SumFunctionOnSet(usdc, R) = usdc[a] + SumFunctionOnSet(usdc, S)
        /\ SumFunctionOnSet(usdc', R) = usdc'[a] + SumFunctionOnSet(usdc', S)
    BY <1>2, <2>1, SumRemove
  <2> HIDE DEF S
  <2>4. SumFunctionOnSet(usdc, S) = SumFunctionOnSet(usdc', S)
    BY <2>1, <2>2, SumOfSame
  <2>5. SumFunctionOnSet(usdc, S) \in Int
    <3>1. \A w \in S : usdc[w] \in Int
      BY <2>2
    <3> QED
      BY <2>1, <3>1, SumOfInts
  <2> QED
    BY <1>1, <1>4, <2>3, <2>4, <2>5
<1> QED
  BY <1>6, <1>7

LEMMA NoUsdcMade ==
    ASSUME IInv, [Next]_vars
    PROVE  SumFunctionOnSet(usdc', User) <= SumFunctionOnSet(usdc, User)
<1>1. \A f \in [User \cup {SettlementAddr} -> Nat] : SumFunctionOnSet(f, User) \in Int
  BY FiniteAssumption, SumOfInts
<1>2. SumFunctionOnSet(usdc, User) \in Int
  BY <1>1 DEF IInv, TypeOK
<1>3. CASE UNCHANGED usdc
  BY <1>2, <1>3
<1>4. CASE CashStep
  <2>1. ASSUME NEW u \in User, NEW x \in Amount, Approve(u, x) PROVE UNCHANGED usdc
    BY <2>1 DEF Approve
  <2> QED
    BY <1>3, <1>4, <2>1, PayLosesNothing DEF CashStep
<1>5. CASE Settle
  <2>1. PICK P \in (SUBSET Intent) \ {{}} : \E receives \in [P -> Bundle] :
            \E net \in [P -> NetPayment] : Balanced(P, net) /\ Execute(P, receives, net)
    BY <1>5 DEF Settle
  <2>2. PICK net \in [P -> NetPayment] : Balanced(P, net) /\ MovePayments(P, net)
    BY <2>1 DEF Execute
  <2>3. SumFunctionOnSet(usdc', User) = SumFunctionOnSet(usdc, User)
    BY <2>2, NetTypes, MoneyConserved
  <2> QED
    BY <1>2, <2>3
<1> QED
  BY <1>3, <1>4, <1>5 DEF Next, TicketStep, EscrowStep, RegistryStep, TimeStep, vars, cashVars

-----------------------------------------------------------------------------
(* The inductive invariant of the search.  The view is a state the chain   *)
(* was in, every candidate passes the contract's checks on it, and what is *)
(* offered afterwards was such a candidate.                                *)
WellFormed(c) ==
    /\ c.intents \subseteq Intent
    /\ TicketsIn(c.intents, c.receives) \subseteq TokenId
    /\ \A i \in c.intents : c.receives[i] \in Seq(TokenId) /\ c.net[i] \in Int

SearchInv ==
    /\ IInv /\ SolverTypeOK /\ IsFiniteSet(found)
    /\ SumFunctionOnSet(usdc, User) <= SumFunctionOnSet(Funds, User)
    /\ termination = "idle" => found = {}
    /\ termination # "idle" => ViewOK(view)
    /\ \A c \in found : WellFormed(c) /\ ChecksAt(view, c.intents, c.receives, c.net)
    /\ \A c \in proposal : WellFormed(c)

FundsTotal == SumFunctionOnSet(Funds, User)

LEMMA SumsAreInts ==
    /\ FundsTotal \in Int
    /\ IInv => SumFunctionOnSet(usdc, User) \in Int
<1>1. \A u \in User : Funds[u] \in Int
  BY SettlementAssumption
<1>2. IInv => \A u \in User : usdc[u] \in Int
  BY DEF IInv, TypeOK
<1> QED
  BY <1>1, <1>2, FiniteAssumption, SumOfInts DEF FundsTotal

LEMMA SearchInitOK == ASSUME SolverAssumption, SolverInit PROVE SearchInv
<1>1. Init /\ SearchInit
  BY DEF SolverInit
<1>2. IInv
  BY <1>1, InitEstablishes
<1>3. ASSUME NEW u \in User PROVE usdc[u] = Funds[u] /\ usdc[u] \in Int
  <2>1. usdc = [a \in User \cup {SettlementAddr} |-> IF a \in User THEN Funds[a] ELSE 0]
    BY <1>1 DEF Init
  <2>2. Funds[u] \in Nat
    BY SettlementAssumption
  <2>3. usdc[u] = Funds[u]
    BY <2>1
  <2> QED
    BY <2>2, <2>3
<1>4. SumFunctionOnSet(usdc, User) = FundsTotal
  BY <1>3, FiniteAssumption, SumOfSame DEF FundsTotal
<1>5. SumFunctionOnSet(usdc, User) <= FundsTotal
  BY <1>4, SumsAreInts
<1>6. Cardinality({}) = 0 /\ IsFiniteSet({}) /\ MaxCandidates \in Nat
  BY FS_EmptySet DEF SolverAssumption
<1>7. SolverTypeOK
  BY <1>1, <1>6 DEF SearchInit, SolverTypeOK
<1> QED
  BY <1>1, <1>2, <1>5, <1>6, <1>7 DEF SearchInit, SearchInv, FundsTotal

(* One subset has finitely many assignments, hence candidates.             *)
LEMMA CandidatesFinite ==
    ASSUME NEW v, NEW P \in SUBSET Intent, NEW kept,
           kept \subseteq CandidatesOf(v, P, Assignments(v, P))
    PROVE  IsFiniteSet(kept)
<1> DEFINE A == Assignments(v, P)
           Pairs == SUBSET (P \X TokenId)
           g == [to \in A |-> {p \in P \X TokenId : p[2] \in to[p[1]]}]
           B == {a \in A : Validates(v, P, a, Payments(P))}
           C == CandidatesOf(v, P, A)
           h == [to \in B |-> Candidate(P, to)]
<1>1. IsFiniteSet(Pairs)
  <2>1. IsFiniteSet(P) /\ IsFiniteSet(TokenId)
    BY NetTypes, TicketAssumption, FS_Interval DEF TokenId
  <2> QED
    BY <2>1, FS_Product, FS_SUBSET
<1>2. \A to \in A : to \in [P -> SUBSET TokenId]
  BY DEF Assignments, Supply
<1>3. g \in Injection(A, Pairs)
  <2>1. g \in [A -> Pairs]
    BY DEF Pairs
  <2>2. ASSUME NEW to \in A, NEW other \in A, g[to] = g[other] PROVE to = other
    <3>1. ASSUME NEW i \in P, NEW t \in TokenId PROVE t \in to[i] <=> t \in other[i]
      <4>1. <<i, t>> \in g[to] <=> t \in to[i]
        OBVIOUS
      <4>2. <<i, t>> \in g[other] <=> t \in other[i]
        OBVIOUS
      <4> QED
        BY <2>2, <4>1, <4>2
    <3>2. \A i \in P : to[i] = other[i]
      BY <1>2, <3>1
    <3> QED
      BY <1>2, <3>2
  <2> HIDE DEF g, A, Pairs
  <2> QED
    BY <2>1, <2>2 DEF Injection, IsInjective
<1>4. IsFiniteSet(A)
  <2> HIDE DEF g, A, Pairs
  <2> QED
    BY <1>1, <1>3, FS_Injection
<1>5. IsFiniteSet(B)
  <2> HIDE DEF A
  <2> QED
    BY <1>4, FS_Subset
<1>6. h \in Surjection(B, C)
  <2>1. C = {h[to] : to \in B}
    BY DEF CandidatesOf
  <2> HIDE DEF B, C
  <2> QED
    BY <2>1 DEF Surjection
<1>7. IsFiniteSet(C)
  <2> HIDE DEF h, B, C
  <2> QED
    BY <1>5, <1>6, FS_Surjection
<1> QED
  BY <1>7, FS_Subset

(* The candidates kept of one subset fit into the room there is.           *)
LEMMA KeptFit ==
    ASSUME SolverAssumption, SearchInv, NEW kept, IsFiniteSet(kept), Cardinality(kept) <= Room
    PROVE  /\ IsFiniteSet(found \cup kept)
           /\ Cardinality(found \cup kept) <= MaxCandidates
<1>1. IsFiniteSet(found)
  BY DEF SearchInv
<1>2. /\ IsFiniteSet(found \cup kept)
      /\ Cardinality(found \cup kept)
            = Cardinality(found) + Cardinality(kept) - Cardinality(found \cap kept)
  BY <1>1, FS_Union
<1>3. /\ Cardinality(found) \in Nat /\ Cardinality(kept) \in Nat
      /\ Cardinality(found \cap kept) \in Nat
  <2>1. IsFiniteSet(found \cap kept)
    BY <1>1, FS_Intersection
  <2> QED
    BY <1>1, <2>1, FS_CardinalityType
<1>4. MaxCandidates \in Nat
  BY DEF SolverAssumption
<1> QED
  BY <1>2, <1>3, <1>4 DEF Room

LEMMA MinOfTwo ==
    ASSUME NEW a \in Int, NEW b \in Int
    PROVE  Min({a, b}) <= a /\ Min({a, b}) <= b /\ Min({a, b}) \in Int
<1>1. \E x \in {a, b} : \A y \in {a, b} : x <= y
  OBVIOUS
<1> QED
  BY <1>1 DEF Min

(* What the search finds in one subset.                                    *)
LEMMA FoundPass ==
    ASSUME SolverAssumption, SearchInv, termination = "running",
           NEW P \in todo, WorthAssigning(P),
           NEW c \in CandidatesOf(view, P, Assignments(view, P))
    PROVE  WellFormed(c) /\ ChecksAt(view, c.intents, c.receives, c.net)
<1>1. ViewOK(view) /\ P \in SUBSET Intent
  BY SearchableAreRequested DEF SearchInv, SolverTypeOK
<1>2. /\ c.intents = P
      /\ TicketsIn(P, c.receives) \subseteq TokenId
      /\ \A i \in P : c.receives[i] \in Seq(TokenId) /\ c.net[i] \in Int
      /\ ChecksAt(view, P, c.receives, c.net)
  BY <1>1, CandidatesPass
<1> QED
  BY <1>1, <1>2 DEF WellFormed

LEMMA SearchStepPreserves ==
    ASSUME SolverAssumption, SearchInv, SearchStep, UNCHANGED vars
    PROVE  SearchInv'
<1> DEFINE Same == IInv' /\ SumFunctionOnSet(usdc', User) <= FundsTotal
           Good(c) == WellFormed(c) /\ ChecksAt(view, c.intents, c.receives, c.net)
<1>1. Same
  <2>1. IInv /\ [Next]_vars
    BY DEF SearchInv
  <2>2. IInv'
    BY <2>1, NextPreserves
  <2> QED
    BY <2>2 DEF SearchInv, vars, cashVars, FundsTotal
<1>2. ASSUME ReadState PROVE SearchInv'
  <2>1. /\ termination = "idle" /\ view' = ChainState /\ todo' = Subsets(view')
        /\ termination' = "running" /\ UNCHANGED <<found, proposal>>
    BY <1>2 DEF ReadState
  <2>2. ViewOK(view')
    <3>1. SumFunctionOnSet(usdc, User) <= MaxInt
      <4>1. FundsTotal <= MaxInt /\ MaxInt \in Int
        BY SettlementAssumption DEF SolverAssumption, FundsTotal
      <4>2. SumFunctionOnSet(usdc, User) <= FundsTotal
        BY DEF SearchInv, FundsTotal
      <4>3. IInv
        BY DEF SearchInv
      <4> QED
        BY <4>1, <4>2, <4>3, SumsAreInts
    <3>2. view'.meta = meta /\ view'.usdc = usdc
      BY <2>1 DEF ChainState
    <3>3. meta \in [TokenId -> TicketMeta] /\ usdc \in [User \cup {SettlementAddr} -> Nat]
      BY DEF SearchInv, IInv, TypeOK, TicketTypeOK
    <3> QED
      BY <3>1, <3>2, <3>3 DEF ViewOK
  <2>3. todo' \subseteq SUBSET Range(Requested)
    BY <2>1, SearchableAreRequested DEF Subsets
  <2>4. found' = {}
    BY <2>1 DEF SearchInv
  <2>5. SolverTypeOK' /\ IsFiniteSet(found)'
    BY <2>1, <2>3 DEF SearchInv, SolverTypeOK
  <2> QED
    BY <1>1, <2>1, <2>2, <2>4, <2>5 DEF SearchInv, FundsTotal
<1>3. ASSUME termination = "running", todo' \subseteq todo,
             termination' \in {"running", "complete", "timeout", "candidate-limit"},
             UNCHANGED <<view, proposal>>, \A c \in found' : c \in found \/ Good(c),
             IsFiniteSet(found'), Cardinality(found') <= MaxCandidates
      PROVE  SearchInv'
  <2>1. \A c \in found' : Good(c)
    BY <1>3 DEF SearchInv
  <2>2. \A c \in found' : WellFormed(c) /\ ChecksAt(view', c.intents, c.receives, c.net)
    BY <1>3, <2>1
  <2> HIDE DEF Good
  <2>3. /\ ViewOK(view') /\ SolverTypeOK' /\ IsFiniteSet(found)'
        /\ \A c \in proposal' : WellFormed(c)
    BY <1>3 DEF SearchInv, SolverTypeOK
  <2> QED
    BY <1>1, <1>3, <2>2, <2>3 DEF SearchInv, FundsTotal
<1>4. ASSUME NEW P \in todo, Examine(P) PROVE SearchInv'
  <2> DEFINE all == IF WorthAssigning(P) THEN Assignments(view, P) ELSE {}
  <2>1. /\ termination = "running" /\ todo' = todo \ {P}
        /\ UNCHANGED <<view, termination, proposal>>
    BY <1>4 DEF Examine
  <2>2. PICK listed \in kSubset(Min({Cardinality(all), MaxAssignments}), all) :
            \E kept \in kSubset(Min({Cardinality(CandidatesOf(view, P, listed)), Room}),
                                CandidatesOf(view, P, listed)) :
                found' = found \cup kept
    BY <1>4 DEF Examine
  <2>3. PICK kept \in SUBSET CandidatesOf(view, P, listed) :
            /\ found' = found \cup kept
            /\ Cardinality(kept) = Min({Cardinality(CandidatesOf(view, P, listed)), Room})
    BY <2>2 DEF kSubset
  <2>4. listed \subseteq all
    BY DEF kSubset
  <2>r. Room \in Int
    BY FS_CardinalityType DEF SearchInv, Room, SolverAssumption
  <2>f. /\ kept \subseteq CandidatesOf(view, P, Assignments(view, P))
        /\ CandidatesOf(view, P, listed) \subseteq CandidatesOf(view, P, Assignments(view, P))
    BY <2>4 DEF CandidatesOf
  <2>n. /\ IsFiniteSet(kept) /\ IsFiniteSet(CandidatesOf(view, P, listed))
        /\ P \in SUBSET Intent
    BY <2>f, CandidatesFinite, SearchableAreRequested DEF SearchInv, SolverTypeOK
  <2>c. Cardinality(CandidatesOf(view, P, listed)) \in Int
    BY <2>n, FS_CardinalityType
  <2>k. Cardinality(kept) <= Room
    BY <2>3, <2>r, <2>c, MinOfTwo
  <2>5. ASSUME NEW c \in kept PROVE Good(c)
    <3>1. c \in CandidatesOf(view, P, listed)
      OBVIOUS
    <3>2. WorthAssigning(P) /\ c \in CandidatesOf(view, P, Assignments(view, P))
      BY <2>4, <3>1 DEF CandidatesOf
    <3> HIDE DEF Good
    <3> QED
      BY <2>1, <3>2, FoundPass DEF Good
  <2> HIDE DEF Good
  <2>6. \A c \in found' : c \in found \/ Good(c)
    BY <2>3, <2>5
  <2>7. IsFiniteSet(found') /\ Cardinality(found') <= MaxCandidates
    BY <2>3, <2>k, <2>n, KeptFit
  <2> QED
    BY <1>3, <2>1, <2>6, <2>7
<1>5. ASSUME TimeOut PROVE SearchInv'
  <2>1. /\ termination = "running" /\ todo' = {} /\ termination' = "timeout"
        /\ UNCHANGED <<view, proposal>>
    BY <1>5 DEF TimeOut
  <2>2. ASSUME NEW c \in found', c \notin found PROVE Good(c)
    <3>1. PICK P \in todo : /\ WorthAssigning(P)
                            /\ \E kept \in SUBSET CandidatesOf(view, P, Assignments(view, P)) :
                                  found' = found \cup kept
      BY <1>5, <2>2 DEF TimeOut
    <3>2. c \in CandidatesOf(view, P, Assignments(view, P))
      BY <2>2, <3>1
    <3> HIDE DEF Good
    <3> QED
      BY <2>1, <3>1, <3>2, FoundPass DEF Good
  <2>3. IsFiniteSet(found') /\ Cardinality(found') <= MaxCandidates
    <3>1. CASE found' = found
      BY <3>1 DEF SearchInv, SolverTypeOK
    <3>2. ASSUME NEW P \in todo,
                 NEW kept \in SUBSET CandidatesOf(view, P, Assignments(view, P)),
                 Cardinality(kept) <= Min({MaxAssignments, Room}), found' = found \cup kept
          PROVE  IsFiniteSet(found') /\ Cardinality(found') <= MaxCandidates
      <4>1. IsFiniteSet(kept)
        BY CandidatesFinite, SearchableAreRequested DEF SearchInv, SolverTypeOK
      <4>2. Room \in Int /\ MaxAssignments \in Int
        BY FS_CardinalityType DEF SearchInv, Room, SolverAssumption
      <4>c. Cardinality(kept) \in Int
        BY <4>1, FS_CardinalityType
      <4>m. Min({MaxAssignments, Room}) \in Int /\ Min({MaxAssignments, Room}) <= Room
        BY <4>2, MinOfTwo
      <4>3. Cardinality(kept) <= Room
        BY <3>2, <4>2, <4>c, <4>m
      <4> QED
        BY <3>2, <4>1, <4>3, KeptFit
    <3> QED
      BY <1>5, <3>1, <3>2 DEF TimeOut
  <2> HIDE DEF Good
  <2> QED
    BY <1>3, <2>1, <2>2, <2>3
<1>6. ASSUME Finish PROVE SearchInv'
  <2> HIDE DEF Good
  <2>1. /\ termination = "running" /\ todo' = {} /\ UNCHANGED <<view, found, proposal>>
        /\ termination' \in {"candidate-limit", "complete"}
    BY <1>6 DEF Finish
  <2>2. IsFiniteSet(found') /\ Cardinality(found') <= MaxCandidates
    BY <2>1 DEF SearchInv, SolverTypeOK
  <2> QED
    BY <1>3, <2>1, <2>2
<1>7. ASSUME Simulate PROVE SearchInv'
  <2>1. /\ termination' = "idle" /\ found' = {} /\ todo' = todo
        /\ \A c \in proposal' : c \in found
    BY <1>7 DEF Simulate, Chosen
  <2>2. proposal' = {} \/ \E c : proposal' = {c}
    BY <1>7 DEF Simulate
  <2>3. Cardinality(proposal') <= 1
    <3>1. \A c : Cardinality({c}) = 1
      BY FS_Singleton
    <3>2. Cardinality({}) = 0
      BY FS_EmptySet
    <3>3. Cardinality(proposal') \in {0, 1}
      BY <2>2, <3>1, <3>2
    <3> QED
      BY <3>3
  <2>4. IsFiniteSet(found') /\ Cardinality(found') = 0 /\ MaxCandidates \in Nat
    BY <2>1, FS_EmptySet DEF SolverAssumption
  <2>5. SolverTypeOK'
    BY <2>1, <2>3, <2>4 DEF SearchInv, SolverTypeOK
  <2> QED
    BY <1>1, <2>1, <2>4, <2>5 DEF SearchInv, FundsTotal
<1> QED
  BY <1>2, <1>4, <1>5, <1>6, <1>7 DEF SearchStep

LEMMA ChainStepPreserves ==
    ASSUME SearchInv, IInv', UNCHANGED searchVars,
           SumFunctionOnSet(usdc', User) <= SumFunctionOnSet(usdc, User)
    PROVE  SearchInv'
<1>1. \A f \in [User \cup {SettlementAddr} -> Nat] : SumFunctionOnSet(f, User) \in Int
  BY FiniteAssumption, SumOfInts
<1>2. usdc \in [User \cup {SettlementAddr} -> Nat] /\ usdc' \in [User \cup {SettlementAddr} -> Nat]
  BY DEF SearchInv, IInv, TypeOK
<1>3. SumFunctionOnSet(usdc, User) <= FundsTotal
  BY DEF SearchInv, FundsTotal
<1>4. SumFunctionOnSet(usdc', User) <= FundsTotal
  BY <1>1, <1>2, <1>3, SumsAreInts
<1> QED
  BY <1>4 DEF SearchInv, SolverTypeOK, searchVars, FundsTotal

LEMMA SubmitPreserves ==
    ASSUME SolverAssumption, SearchInv, Submit
    PROVE  SearchInv'
<1>1. PICK c \in proposal : Passes(c) /\ Execute(c.intents, c.receives, c.net)
  BY DEF Submit
<1>2. IInv /\ WellFormed(c)
  BY DEF SearchInv
<1>3. /\ IntentsLive(c.intents) /\ CanPay(c.intents, c.net) /\ Balanced(c.intents, c.net)
      /\ c.intents \in SUBSET Intent /\ TicketsIn(c.intents, c.receives) \subseteq TokenId
      /\ \A i \in c.intents : c.net[i] \in Int
  BY <1>1, <1>2 DEF Passes, WellFormed
<1>4. IInv'
  BY <1>1, <1>2, <1>3, ExecutePreserves
<1>5. SumFunctionOnSet(usdc', User) = SumFunctionOnSet(usdc, User)
  BY <1>1, <1>2, <1>3, MoneyConserved DEF Execute
<1>6. SumFunctionOnSet(usdc', User) <= SumFunctionOnSet(usdc, User)
  BY <1>2, <1>5, SumsAreInts
<1> QED
  BY <1>4, <1>6, ChainStepPreserves DEF Submit

LEMMA SolverPreserves ==
    ASSUME SolverAssumption, SearchInv, [SolverNext]_solverVars
    PROVE  SearchInv'
<1>1. CASE SearchStep /\ UNCHANGED vars
  BY <1>1, SearchStepPreserves
<1>2. CASE Submit
  BY <1>2, SubmitPreserves
<1>3. CASE [Next]_vars /\ UNCHANGED searchVars
  <2>1. IInv
    BY DEF SearchInv
  <2> QED
    BY <1>3, <2>1, NextPreserves, NoUsdcMade, ChainStepPreserves
<1> QED
  BY <1>1, <1>2, <1>3 DEF SolverNext, solverVars

LEMMA SearchInvariance ==
    ASSUME SolverAssumption
    PROVE  SolverSpec => []SearchInv
<1>1. SearchInv /\ [SolverNext]_solverVars => SearchInv'
  BY SolverPreserves
<1> QED
  BY <1>1, SearchInitOK, PTL DEF SolverSpec

(* The checks on a view are the contract's, with the view in place of its  *)
(* variables.                                                              *)
LEMMA ChecksAreTheContracts ==
    ASSUME NEW P, NEW receives, NEW net, ChecksAt(view, P, receives, net)
    PROVE  ExchangesAtView(P, receives) /\ PaysAtView(P, net)
<1>1. AtView!TokenId = TokenId /\ AtView!Int256 = Int256
  BY DEF AtView!TokenId, TokenId, AtView!Int256, Int256
<1>2. \A f : AtView!Range(f) = Range(f)
  BY DEF AtView!Range, Range
<1>3. \A f, S : AtView!SumFunctionOnSet(f, S) = SumFunctionOnSet(f, S)
  BY DEF AtView!SumFunctionOnSet, SumFunctionOnSet, AtView!FoldFunctionOnSet,
         FoldFunctionOnSet, AtView!MapThenFoldSet, MapThenFoldSet
<1>4. AtView!IntentsLive(P)
  BY DEF ChecksAt, AtView!IntentsLive
<1>5. AtView!OffersEscrowed(P) /\ AtView!OffersUnused(P)
  BY <1>1, <1>2 DEF ChecksAt, OfferStands, AtView!OffersEscrowed, AtView!OffersUnused
<1>6. AtView!Conserves(P, receives)
  <2>1. \A b : AtView!NoTicketTwice(P, b) <=> NoTicketTwice(P, b)
    BY DEF AtView!NoTicketTwice, NoTicketTwice
  <2>2. \A b : AtView!TicketsIn(P, b) = TicketsIn(P, b)
    BY <1>2 DEF AtView!TicketsIn, TicketsIn
  <2>3. AtView!Offered(P) = Offered(P)
    BY DEF AtView!Offered, Offered
  <2> QED
    BY <2>1, <2>2, <2>3 DEF ChecksAt, Conserves, AtView!Conserves
<1>7. ASSUME NEW i \in P PROVE AtView!Satisfies(i, receives[i])
  <2> DEFINE b == receives[i]
  <2>1. SatisfiesAt(view, i, b)
    BY DEF ChecksAt
  <2>2. AdjacentAt(view, b) => AtView!Adjacent(b)
    BY <1>2 DEF AdjacentAt, AtView!Adjacent
  <2> HIDE DEF b
  <2>3. AtView!Satisfies(i, b)
    BY <1>2, <2>1, <2>2 DEF SatisfiesAt, AtView!Satisfies
  <2> QED
    BY <2>3 DEF b
<1>8. AtView!WithinBudget(P, net) /\ AtView!Balanced(P, net)
  BY <1>3 DEF ChecksAt, WithinBudget, Balanced, AtView!WithinBudget, AtView!Balanced
<1>9. AtView!CanPay(P, net)
  <2>1. \A u \in User : AtView!OwnerNet(P, net, u) = OwnerNet(P, net, u)
    BY <1>3 DEF AtView!OwnerNet, OwnerNet
  <2>2. CanPayAt(view, P, net)
    BY DEF ChecksAt
  <2> SUFFICES ASSUME NEW u \in User
               PROVE  /\ AtView!OwnerNet(P, net, u) \in AtView!Int256
                      /\ AtView!OwnerNet(P, net, u) > 0 =>
                            view.usdc[u] >= AtView!OwnerNet(P, net, u)
                            /\ view.allowance[u] >= AtView!OwnerNet(P, net, u)
    BY DEF AtView!CanPay
  <2> QED
    BY <1>1, <2>1, <2>2 DEF CanPayAt
<1> QED
  BY <1>4, <1>5, <1>6, <1>7, <1>8, <1>9 DEF ExchangesAtView, PaysAtView

(* Whatever is requested and whatever the chain holds at the block of the  *)
(* read: every candidate the search keeps passes V0 to V8 there, and it    *)
(* keeps no more than it may.                                              *)
THEOREM CandidatesAreExecutable ==
    ASSUME SolverAssumption
    PROVE  SolverSpec => [](SolverTypeOK /\ CandidatesExecutable)
<1>1. SearchInv => SolverTypeOK /\ CandidatesExecutable
  BY ChecksAreTheContracts DEF SearchInv, CandidatesExecutable
<1> QED
  BY <1>1, SearchInvariance, PTL

-----------------------------------------------------------------------------
(* What a proposal rests on.  It still passes after a step that leaves     *)
(* this as it is.                                                          *)
Untouched(c) ==
    /\ now' = now
    /\ \A i \in c.intents :
        /\ state'[i] = state[i]
        /\ \A t \in Range(i.offered) :
            /\ depositor'[t] = depositor[t]
            /\ meta'[t] = meta[t]
            /\ t \notin redeemed'
        /\ usdc'[i.owner] >= usdc[i.owner]
        /\ allowance'[i.owner] >= allowance[i.owner]

LEMMA StillPasses ==
    ASSUME IInv, IInv', NEW c, WellFormed(c), Passes(c), Untouched(c)
    PROVE  Passes(c)'
<1> DEFINE P == c.intents
           rec == c.receives
           net == c.net
<1>1. /\ IntentsLive(P) /\ OffersEscrowed(P) /\ OffersUnused(P) /\ Conserves(P, rec)
      /\ \A i \in P : Satisfies(i, rec[i])
      /\ WithinBudget(P, net) /\ Balanced(P, net) /\ CanPay(P, net)
      /\ P \in SUBSET Intent
  BY DEF Passes, WellFormed
<1>2. /\ now' = now
      /\ \A i \in P : /\ state'[i] = state[i]
                      /\ usdc'[i.owner] >= usdc[i.owner]
                      /\ allowance'[i.owner] >= allowance[i.owner]
      /\ \A i \in P : \A t \in Range(i.offered) :
            depositor'[t] = depositor[t] /\ meta'[t] = meta[t] /\ t \notin redeemed'
  BY DEF Untouched
<1> HIDE DEF P, rec, net
<1>3. IntentsLive(P)'
  BY <1>1, <1>2 DEF IntentsLive
<1>4. OffersEscrowed(P)'
  BY <1>1, <1>2 DEF OffersEscrowed
<1>5. OffersUnused(P)'
  BY <1>2 DEF OffersUnused
<1>6. ASSUME NEW i \in P PROVE Satisfies(i, rec[i])'
  <2> DEFINE b == rec[i]
  <2>1. \A t \in Range(b) : meta'[t] = meta[t]
    <3>1. Range(b) \subseteq TicketsIn(P, rec)
      BY DEF TicketsIn
    <3>2. \A t \in TicketsIn(P, Offered(P)) : \E k \in P : t \in Range(k.offered)
      BY DEF TicketsIn, Offered
    <3> QED
      BY <1>1, <1>2, <3>1, <3>2 DEF Conserves
  <2>2. b \in Seq(TokenId)
    BY DEF WellFormed, P, rec
  <2>3. Satisfies(i, b)
    BY <1>1
  <2>4. i.exactCount # 0 => b[1] \in Range(b)
    <3>1. Len(b) = i.exactCount
      BY <2>3 DEF Satisfies
    <3> HIDE DEF b
    <3>2. Len(b) # 0 => 1 \in DOMAIN b
      BY <2>2
    <3> QED
      BY <3>1, <3>2 DEF Range
  <2> HIDE DEF b
  <2>5. {meta'[t].seat : t \in Range(b)} = {meta[t].seat : t \in Range(b)}
    BY <2>1
  <2>6. ASSUME i.exactCount # 0, i.mustBeAdjacent PROVE Adjacent(b)'
    <3>1. Adjacent(b)
      BY <2>3, <2>6 DEF Satisfies
    <3>2. meta'[b[1]] = meta[b[1]]
      BY <2>1, <2>4, <2>6
    <3> QED
      BY <2>1, <2>5, <3>1, <3>2 DEF Adjacent
  <2>7. Satisfies(i, b)'
    BY <2>1, <2>3, <2>4, <2>6 DEF Satisfies
  <2> QED
    BY <2>7 DEF b
<1>7. CanPay(P, net)'
  <2> SUFFICES ASSUME NEW u \in User
               PROVE  /\ OwnerNet(P, net, u) \in Int256
                      /\ OwnerNet(P, net, u) > 0 =>
                            /\ usdc'[u] >= OwnerNet(P, net, u)
                            /\ allowance'[u] >= OwnerNet(P, net, u)
    BY DEF CanPay
  <2>1. /\ OwnerNet(P, net, u) \in Int256
        /\ OwnerNet(P, net, u) > 0 =>
              usdc[u] >= OwnerNet(P, net, u) /\ allowance[u] >= OwnerNet(P, net, u)
    BY <1>1 DEF CanPay
  <2>2. CASE \E i \in P : i.owner = u
    <3>1. usdc'[u] >= usdc[u] /\ allowance'[u] >= allowance[u]
      BY <1>2, <2>2
    <3>2. /\ usdc[u] \in Int /\ usdc'[u] \in Int
          /\ allowance[u] \in Int /\ allowance'[u] \in Int
      BY DEF IInv, TypeOK
    <3>3. OwnerNet(P, net, u) \in Int
      BY <2>1, SettlementAssumption DEF Int256
    <3> QED
      BY <2>1, <3>1, <3>2, <3>3
  <2>3. CASE ~ \E i \in P : i.owner = u
    <3>1. {i \in P : i.owner = u} = {}
      BY <2>3
    <3>2. OwnerNet(P, net, u) = 0
      BY <3>1, SumOfNone DEF OwnerNet
    <3> QED
      BY <2>1, <3>2
  <2> QED
    BY <2>2, <2>3
<1>8. Passes(c)' <=> (/\ IntentsLive(P)' /\ OffersEscrowed(P)' /\ OffersUnused(P)'
                      /\ Conserves(P, rec)
                      /\ \A i \in P : Satisfies(i, rec[i])'
                      /\ WithinBudget(P, net) /\ Balanced(P, net) /\ CanPay(P, net)')
  BY DEF Passes, P, rec, net
<1> QED
  BY <1>1, <1>3, <1>4, <1>5, <1>6, <1>7, <1>8

(* What is offered in a passing proposal is in the escrow, minted, unused. *)
LEMMA OfferedIsHeld ==
    ASSUME IInv, NEW c, WellFormed(c), Passes(c),
           NEW i \in c.intents, NEW t \in Range(i.offered)
    PROVE  /\ i \in Intent /\ i.owner \in User /\ state[i] = "LIVE"
           /\ t \in TokenId /\ depositor[t] = i.owner /\ ownerOf[t] = EscrowAddr
           /\ t < nextTokenId /\ t \notin redeemed
<1>1. i \in Intent /\ i.owner \in User
  BY IntentAssumption DEF WellFormed
<1>2. t \in TokenId /\ depositor[t] = i.owner /\ state[i] = "LIVE"
  BY DEF Passes, OffersEscrowed, IntentsLive
<1>3. ownerOf[t] = EscrowAddr /\ t \notin redeemed
  BY <1>1, <1>2, AccountAssumption DEF IInv, DepositIsBacked
<1>4. ~ t >= nextTokenId
  BY <1>2, <1>3, AccountAssumption DEF IInv, TypeOK, TicketTypeOK
<1>5. t < nextTokenId
  BY <1>2, <1>4, TicketAssumption DEF IInv, TypeOK, TicketTypeOK, TokenId
<1> QED
  BY <1>1, <1>2, <1>3, <1>5

\* The parts of Untouched, for a step of only some contracts.
LEMMA SameMoney ==
    ASSUME IInv, NEW c, WellFormed(c), UNCHANGED cashVars
    PROVE  \A i \in c.intents :
              usdc'[i.owner] >= usdc[i.owner] /\ allowance'[i.owner] >= allowance[i.owner]
<1>1. \A i \in c.intents : i.owner \in User
  BY IntentAssumption DEF WellFormed
<1>2. \A u \in User : usdc[u] \in Nat /\ allowance[u] \in Nat
  BY DEF IInv, TypeOK
<1> QED
  BY <1>1, <1>2 DEF cashVars

LEMMA TicketStepTouches ==
    ASSUME IInv, NEW c, WellFormed(c), Passes(c), TicketStep
    PROVE  Untouched(c)
<1>1. UNCHANGED <<escrowVars, registryVars, cashVars, now>>
  BY DEF TicketStep
<1>2. ASSUME NEW i \in c.intents, NEW t \in Range(i.offered)
      PROVE  meta'[t] = meta[t] /\ t \notin redeemed'
  <2>1. /\ t \in TokenId /\ ownerOf[t] = EscrowAddr /\ t < nextTokenId /\ t \notin redeemed
    BY OfferedIsHeld
  <2>2. meta \in [TokenId -> TicketMeta] /\ nextTokenId \in Nat /\ t \in Nat
    BY <2>1, TicketAssumption DEF IInv, TypeOK, TicketTypeOK, TokenId
  <2>3. ASSUME NEW to \in Account, NEW m \in MintInput, Mint(to, m)
        PROVE  meta'[t] = meta[t] /\ t \notin redeemed'
    BY <2>1, <2>2, <2>3 DEF Mint
  <2>4. ASSUME NEW u \in User, NEW s \in TokenId, Redeem(u, s)
        PROVE  meta'[t] = meta[t] /\ t \notin redeemed'
    BY <2>1, <2>4, AccountAssumption DEF Redeem
  <2>5. ASSUME NEW u \in User, NEW to \in Account, NEW s \in TokenId, TransferFrom(u, to, s)
        PROVE  meta'[t] = meta[t] /\ t \notin redeemed'
    BY <2>1, <2>5 DEF TransferFrom
  <2> QED
    BY <2>3, <2>4, <2>5 DEF TicketStep
<1> QED
  BY <1>1, <1>2, SameMoney DEF Untouched, escrowVars, registryVars

LEMMA EscrowStepTouches ==
    ASSUME IInv, NEW c, WellFormed(c), Passes(c), EscrowStep, ~ OwnDoing(c)
    PROVE  Untouched(c)
<1>1. UNCHANGED <<registryVars, cashVars, now>>
  BY DEF EscrowStep
<1>2. ASSUME NEW i \in c.intents, NEW t \in Range(i.offered)
      PROVE  depositor'[t] = depositor[t] /\ meta'[t] = meta[t] /\ t \notin redeemed'
  <2>1. /\ t \in TokenId /\ ownerOf[t] = EscrowAddr /\ t \notin redeemed
        /\ depositor[t] = i.owner
    BY OfferedIsHeld
  <2>2. ASSUME NEW u \in User, NEW ids \in (SUBSET TokenId) \ {{}}, Deposit(u, ids)
        PROVE  depositor'[t] = depositor[t] /\ meta'[t] = meta[t] /\ t \notin redeemed'
    BY <2>1, <2>2, AccountAssumption DEF Deposit
  <2>3. ASSUME NEW u \in User, NEW ids \in (SUBSET TokenId) \ {{}}, Withdraw(u, ids)
        PROVE  depositor'[t] = depositor[t] /\ meta'[t] = meta[t] /\ t \notin redeemed'
    <3>1. t \notin ids
      <4>1. ASSUME t \in ids PROVE FALSE
        <5>1. u = i.owner
          BY <2>1, <2>3, <4>1 DEF Withdraw
        <5>2. Withdraw(i.owner, ids)
          BY <2>3, <5>1
        <5>3. OwnDoing(c)
          BY <5>2 DEF OwnDoing
        <5> QED
          BY <5>3
      <4> QED
        BY <4>1
    <3> QED
      BY <2>1, <2>3, <3>1 DEF Withdraw
  <2> QED
    BY <2>2, <2>3 DEF EscrowStep
<1> QED
  BY <1>1, <1>2, SameMoney DEF Untouched, registryVars

LEMMA RegistryStepTouches ==
    ASSUME IInv, NEW c, WellFormed(c), Passes(c), RegistryStep, ~ OwnDoing(c)
    PROVE  Untouched(c)
<1>1. UNCHANGED <<ticketVars, escrowVars, cashVars, now>>
  BY DEF RegistryStep
<1>2. ASSUME NEW i \in c.intents PROVE state'[i] = state[i]
  <2>1. i \in Intent /\ state[i] = "LIVE" /\ state \in [Intent -> RegistryState]
    BY DEF WellFormed, Passes, IntentsLive, IInv, TypeOK, RegistryTypeOK
  <2>2. intentOwner[i] = i.owner
    BY <2>1 DEF IInv, NonceNamesOneIntent
  <2>3. ASSUME NEW k \in Intent, Sign(k) \/ Commit(k) PROVE state'[i] = state[i]
    BY <2>1, <2>3 DEF Sign, Commit
  <2>4. ASSUME NEW u \in User, NEW k \in Intent, Revoke(u, k) PROVE state'[i] = state[i]
    <3>1. CASE k # i
      BY <2>1, <2>4, <3>1 DEF Revoke
    <3>2. CASE k = i
      <4>1. Revoke(i.owner, i)
        BY <2>2, <2>4, <3>2 DEF Revoke
      <4>2. state'[i] # state[i]
        BY <2>1, <2>4, <3>2 DEF Revoke
      <4>3. OwnDoing(c)
        BY <2>1, <4>1, <4>2 DEF OwnDoing
      <4> QED
        BY <4>3
    <3> QED
      BY <3>1, <3>2
  <2> QED
    BY <2>3, <2>4 DEF RegistryStep
<1>3. ASSUME NEW i \in c.intents, NEW t \in Range(i.offered) PROVE t \notin redeemed
  BY OfferedIsHeld
<1> QED
  BY <1>1, <1>2, <1>3, SameMoney DEF Untouched, ticketVars, escrowVars

LEMMA CashStepTouches ==
    ASSUME IInv, NEW c, WellFormed(c), Passes(c), CashStep, ~ OwnDoing(c)
    PROVE  Untouched(c)
<1>1. UNCHANGED <<ticketVars, escrowVars, registryVars, now>>
  BY DEF CashStep
<1>2. ASSUME NEW i \in c.intents
      PROVE  usdc'[i.owner] >= usdc[i.owner] /\ allowance'[i.owner] >= allowance[i.owner]
  <2> DEFINE w == i.owner
  <2>1. w \in User
    BY IntentAssumption DEF WellFormed
  <2>2. /\ usdc \in [User \cup {SettlementAddr} -> Nat] /\ allowance \in [User -> Nat]
        /\ usdc' \in [User \cup {SettlementAddr} -> Nat] /\ allowance' \in [User -> Nat]
    <3>1. IInv'
      BY CashStepPreserves
    <3> QED
      BY <3>1 DEF IInv, TypeOK
  <2>3. ~ allowance'[w] < allowance[w]
    BY DEF OwnDoing
  <2>4. allowance'[w] >= allowance[w]
    BY <2>1, <2>2, <2>3
  <2>5. ASSUME NEW u \in User, NEW x \in Amount, Approve(u, x) PROVE usdc'[w] >= usdc[w]
    BY <2>1, <2>2, <2>5 DEF Approve
  <2>6. ASSUME NEW u \in User, NEW a \in User \cup {SettlementAddr}, NEW x \in Amount,
               PayUsdc(u, a, x)
        PROVE  usdc'[w] >= usdc[w]
    <3>1. x \in Nat /\ u # a /\ usdc' = [usdc EXCEPT ![u] = @ - x, ![a] = @ + x]
      BY <2>6, SettlementAssumption DEF PayUsdc
    <3>2. CASE u # w
      BY <2>1, <2>2, <3>1, <3>2
    <3>3. CASE u = w /\ x = 0
      BY <2>1, <2>2, <3>1, <3>3
    <3>4. CASE u = w /\ x # 0
      <4>1. PayUsdc(i.owner, a, x)
        BY <2>6, <3>4
      <4>2. x \in Amount \ {0}
        BY <3>4
      <4>3. OwnDoing(c)
        BY <4>1, <4>2 DEF OwnDoing
      <4> QED
        BY <4>3
    <3> QED
      BY <3>2, <3>3, <3>4
  <2> QED
    BY <2>4, <2>5, <2>6 DEF CashStep
<1>3. ASSUME NEW i \in c.intents, NEW t \in Range(i.offered) PROVE t \notin redeemed
  BY OfferedIsHeld
<1> QED
  BY <1>1, <1>2, <1>3 DEF Untouched, ticketVars, escrowVars, registryVars

(* A settlement, whoever sends it, is seen only by its participants.       *)
LEMMA SettlementTouches ==
    ASSUME IInv, NEW c, WellFormed(c), Passes(c), ~ OwnDoing(c),
           NEW Q \in SUBSET Intent, NEW receives, NEW net,
           IntentsLive(Q), OffersEscrowed(Q), OffersUnused(Q), Conserves(Q, receives),
           Execute(Q, receives, net)
    PROVE  Untouched(c)
<1>1. MarkSettled(Q) /\ MovePayments(Q, net) /\ ReleaseBatch(Recipients(Q, receives))
      /\ UNCHANGED now
  BY DEF Execute
<1>2. ASSUME NEW i \in c.intents, NEW k \in Q PROVE k.owner # i.owner
  <2>1. state[k] = "LIVE" /\ k \in Intent
    BY DEF IntentsLive
  <2>2. state'[k] = "SETTLED"
    BY <1>1, <2>1 DEF MarkSettled
  <2>3. ASSUME k.owner = i.owner PROVE OwnDoing(c)
    BY <2>1, <2>2, <2>3 DEF OwnDoing
  <2> QED
    BY <2>3
<1>3. ASSUME NEW i \in c.intents
      PROVE  /\ state'[i] = state[i]
             /\ usdc'[i.owner] >= usdc[i.owner] /\ allowance'[i.owner] >= allowance[i.owner]
  <2>1. i \in Intent /\ i.owner \in User /\ i \notin Q
    BY <1>2, IntentAssumption DEF WellFormed
  <2>2. {k \in Q : k.owner = i.owner} = {}
    BY <1>2
  <2>3. OwnerNet(Q, net, i.owner) = 0
    BY <2>2, SumOfNone DEF OwnerNet
  <2>4. usdc[i.owner] \in Nat /\ allowance[i.owner] \in Nat
    BY <2>1 DEF IInv, TypeOK
  <2>5. usdc'[i.owner] = usdc[i.owner] - OwnerNet(Q, net, i.owner)
    BY <1>1, <2>1 DEF MovePayments
  <2>6. allowance'[i.owner] = allowance[i.owner]
    BY <1>1, <2>1, <2>3 DEF MovePayments
  <2>7. state'[i] = state[i]
    BY <1>1, <2>1 DEF MarkSettled
  <2> QED
    BY <2>3, <2>4, <2>5, <2>6, <2>7
<1>4. ASSUME NEW i \in c.intents, NEW t \in Range(i.offered)
      PROVE  depositor'[t] = depositor[t] /\ meta'[t] = meta[t] /\ t \notin redeemed'
  <2>1. t \in TokenId /\ depositor[t] = i.owner /\ t \notin redeemed
    BY OfferedIsHeld
  <2>2. t \notin TicketsIn(Q, receives)
    <3>1. ASSUME t \in TicketsIn(Q, receives) PROVE FALSE
      <4>1. t \in TicketsIn(Q, Offered(Q))
        BY <3>1 DEF Conserves
      <4>2. PICK k \in Q : t \in Range(k.offered)
        BY <4>1 DEF TicketsIn, Offered
      <4>3. depositor[t] = k.owner
        BY <4>2 DEF OffersEscrowed
      <4> QED
        BY <1>2, <2>1, <4>3
    <3> QED
      BY <3>1
  <2>3. t \notin DOMAIN Recipients(Q, receives)
    BY <2>2 DEF Recipients
  <2> QED
    BY <1>1, <2>1, <2>3 DEF ReleaseBatch
<1> QED
  BY <1>1, <1>3, <1>4 DEF Untouched

LEMMA StepKeepsPassing ==
    ASSUME SolverAssumption, SearchInv, [SolverNext]_solverVars,
           NEW c \in proposal, Passes(c), ~ OwnDoing(c)
    PROVE  Passes(c)'
<1>1. IInv /\ WellFormed(c)
  BY DEF SearchInv
<1>2. IInv'
  BY SolverPreserves DEF SearchInv
<1>3. CASE UNCHANGED vars
  <2>1. ASSUME NEW i \in c.intents, NEW t \in Range(i.offered) PROVE t \notin redeemed
    BY <1>1, OfferedIsHeld
  <2>2. Untouched(c)
    BY <1>1, <1>3, <2>1, SameMoney
       DEF Untouched, vars, ticketVars, escrowVars, registryVars, cashVars
  <2> QED
    BY <1>1, <1>2, <2>2, StillPasses
<1>4. CASE Submit
  <2>1. PICK d \in proposal : Passes(d) /\ Execute(d.intents, d.receives, d.net)
    BY <1>4 DEF Submit
  <2>2. WellFormed(d)
    BY DEF SearchInv
  <2>3. Untouched(c)
    BY <1>1, <2>1, <2>2, SettlementTouches DEF Passes, WellFormed
  <2> QED
    BY <1>1, <1>2, <2>3, StillPasses
<1>5. CASE Settle
  <2>1. PICK Q \in (SUBSET Intent) \ {{}} :
            /\ IntentsLive(Q) /\ OffersEscrowed(Q) /\ OffersUnused(Q)
            /\ \E receives \in [Q -> Bundle] : \E net \in [Q -> NetPayment] :
                  Conserves(Q, receives) /\ Execute(Q, receives, net)
    BY <1>5 DEF Settle
  <2>2. PICK receives \in [Q -> Bundle] : \E net \in [Q -> NetPayment] :
                  Conserves(Q, receives) /\ Execute(Q, receives, net)
    BY <2>1
  <2>3. PICK net \in [Q -> NetPayment] : Conserves(Q, receives) /\ Execute(Q, receives, net)
    BY <2>2
  <2>4. Untouched(c)
    BY <1>1, <2>1, <2>3, SettlementTouches
  <2> QED
    BY <1>1, <1>2, <2>4, StillPasses
<1>6. CASE TimeStep
  <2>1. now' # now
    BY <1>1, <1>6 DEF TimeStep, Tick, IInv, TypeOK
  <2>2. OwnDoing(c)
    BY <2>1 DEF OwnDoing
  <2> QED
    BY <2>2
<1>7. CASE TicketStep \/ EscrowStep \/ RegistryStep \/ CashStep
  <2>1. Untouched(c)
    BY <1>1, <1>7, TicketStepTouches, EscrowStepTouches, RegistryStepTouches, CashStepTouches
  <2> QED
    BY <1>1, <1>2, <2>1, StillPasses
<1> QED
  BY <1>3, <1>4, <1>5, <1>6, <1>7 DEF SolverNext, Next, solverVars

(* The offered settlement goes stale only through its own participants or  *)
(* the clock, whatever everybody else does on the chain.                   *)
THEOREM OnlyParticipantsBreakIt ==
    ASSUME SolverAssumption
    PROVE  SolverSpec => NobodyElseBreaksIt
<1> DEFINE Kept == \A c \in proposal :
               c \in proposal' /\ Passes(c) /\ ~ Passes(c)' => OwnDoing(c)
<1>1. SearchInv /\ [SolverNext]_solverVars => [Kept]_solverVars
  BY StepKeepsPassing
<1> HIDE DEF Kept
<1>2. SolverSpec => [][Kept]_solverVars
  BY <1>1, SearchInvariance, PTL DEF SolverSpec
<1> QED
  BY <1>2 DEF NobodyElseBreaksIt, Kept

=============================================================================
