------------------------------- MODULE Escrow -------------------------------
(***************************************************************************)
(* The custody contract of src/src/Escrow.sol.  A call handles a batch of  *)
(* tokens in one transaction: it reverts as a whole when one token fails,  *)
(* so a batch is a set of tokens that all satisfy the guard (a token named *)
(* twice fails its second transfer).                                       *)
(* Tokens leave it by safeTransferFrom, which calls a receiver that has    *)
(* code.  Receivers are accounts with keys here: whoever deposited or      *)
(* committed signed for it, and what a contract's onERC721Received may     *)
(* refuse or call back is not modelled.                                    *)
(***************************************************************************)
EXTENDS TicketNFT

VARIABLE depositor   \* who may withdraw a token, NoOne when nobody may

escrowVars == <<depositor>>

EscrowTypeOK == depositor \in [TokenId -> User \cup {NoOne}]

EscrowInit == depositor = [t \in TokenId |-> NoOne]

\* The caller approved the escrow beforehand; transferFrom moves each token
\* out of the caller's own hands, so the caller must hold it.
Deposit(u, ids) ==
    /\ ids \cap redeemed = {}
    /\ \A t \in ids : ownerOf[t] = u
    /\ depositor' = [t \in TokenId |-> IF t \in ids THEN u ELSE depositor[t]]
    /\ ownerOf' = [t \in TokenId |-> IF t \in ids THEN EscrowAddr ELSE ownerOf[t]]
    /\ UNCHANGED <<meta, redeemed, nextTokenId>>

\* Mutated form of Withdraw: whoever asks gets what is deposited.
WithdrawDeposited(u, ids) ==
    /\ \A t \in ids : depositor[t] # NoOne /\ ownerOf[t] = EscrowAddr
    /\ depositor' = [t \in TokenId |-> IF t \in ids THEN NoOne ELSE depositor[t]]
    /\ ownerOf' = [t \in TokenId |-> IF t \in ids THEN u ELSE ownerOf[t]]
    /\ UNCHANGED <<meta, redeemed, nextTokenId>>

\* Depositor-only and immediate; the transfer needs the escrow to hold it, and its
\* receiver takes it.
Withdraw(u, ids) ==
    /\ \A t \in ids : depositor[t] = u /\ ownerOf[t] = EscrowAddr
    /\ depositor' = [t \in TokenId |-> IF t \in ids THEN NoOne ELSE depositor[t]]
    /\ ownerOf' = [t \in TokenId |-> IF t \in ids THEN u ELSE ownerOf[t]]
    /\ UNCHANGED <<meta, redeemed, nextTokenId>>

\* Mutated form of ReleaseBatch: the depositor stays on record.
ReleaseKeepingDepositor(to) ==
    /\ \A t \in DOMAIN to : ownerOf[t] = EscrowAddr
    /\ ownerOf' = [t \in TokenId |-> IF t \in DOMAIN to THEN to[t] ELSE ownerOf[t]]
    /\ UNCHANGED <<meta, redeemed, nextTokenId, depositor>>

\* Only the settlement contract calls this: to[t] is the new holder of each
\* token in its domain, and takes it.  The depositor is cleared, never consulted.
ReleaseBatch(to) ==
    /\ \A t \in DOMAIN to : ownerOf[t] = EscrowAddr
    /\ depositor' = [t \in TokenId |-> IF t \in DOMAIN to THEN NoOne ELSE depositor[t]]
    /\ ownerOf' = [t \in TokenId |-> IF t \in DOMAIN to THEN to[t] ELSE ownerOf[t]]
    /\ UNCHANGED <<meta, redeemed, nextTokenId>>

(* Custody.  Whoever the escrow names as a token's depositor is owed a     *)
(* ticket the escrow really holds and that still opens the gate.  It is    *)
(* what makes withdraw unconditional (Escrow.sol:46-55) and a settlement's *)
(* release (Escrow.sol:59-64) safe, across deposits, withdrawals, plain    *)
(* transfers, redemptions and settlements in any order.                    *)
DepositIsBacked ==
    \A t \in TokenId : depositor[t] # NoOne =>
        ownerOf[t] = EscrowAddr /\ t \notin redeemed

=============================================================================
