------------------------------ MODULE TicketNFT ------------------------------
(***************************************************************************)
(* The ticket token of src/src/TicketNFT.sol: an ERC-721 whose tokens      *)
(* carry an event, a session, a section, a row and a seat, and a status    *)
(* that only ever goes from active to redeemed.                            *)
(*                                                                         *)
(* The base contract (OpenZeppelin's ERC721) is not under src/src: of it   *)
(* the model keeps ownerOf, minting and the holder's plain transferFrom.   *)
(* Who registers issuers is a deployment step and is taken as done.        *)
(*                                                                         *)
(* The addresses every contract of the system knows are declared here too: *)
(* people's accounts, the two contracts that hold something, and the zero  *)
(* address.                                                                *)
(***************************************************************************)
EXTENDS Integers

CONSTANTS
    User,            \* externally owned accounts
    EscrowAddr,      \* the address of the Escrow contract
    SettlementAddr,  \* the address of the Settlement contract
    NoOne            \* the zero address

ASSUME AccountAssumption ==
    /\ EscrowAddr \notin User
    /\ SettlementAddr \notin User
    /\ EscrowAddr # SettlementAddr
    /\ NoOne \notin User \cup {EscrowAddr, SettlementAddr}

CONSTANTS
    MaxTickets,  \* bound: how many tokens are ever minted
    MintInput    \* the metadata an issuer may ask for

\* uint16 identifiers at or above this width have no bit in an intent's mask.
MaskWidth == 256
UInt16 == 0 .. 65535

TicketMeta == [eventId : Nat, session : UInt16, section : UInt16,
               row : UInt16, seat : UInt16]

ASSUME TicketAssumption ==
    /\ MaxTickets \in Nat
    /\ MintInput \subseteq TicketMeta

Account == User \cup {EscrowAddr}
TokenId == 0 .. MaxTickets - 1

\* What the meta mapping answers for a token that was never minted.
NoMeta == [eventId |-> 0, session |-> 0, section |-> 0, row |-> 0, seat |-> 0]

VARIABLES
    ownerOf,      \* the holder of every token, NoOne before its mint
    meta,         \* the metadata of every token
    redeemed,     \* the tokens whose status is REDEEMED
    nextTokenId

ticketVars == <<ownerOf, meta, redeemed, nextTokenId>>

TicketTypeOK ==
    /\ ownerOf \in [TokenId -> Account \cup {NoOne}]
    /\ meta \in [TokenId -> TicketMeta]
    /\ redeemed \subseteq TokenId
    /\ nextTokenId \in 0 .. MaxTickets
    /\ \A t \in TokenId : ownerOf[t] = NoOne <=> t >= nextTokenId

TicketInit ==
    /\ ownerOf = [t \in TokenId |-> NoOne]
    /\ meta = [t \in TokenId |-> NoMeta]
    /\ redeemed = {}
    /\ nextTokenId = 0

\* Mutated form of Mint: ++_nextTokenId for _nextTokenId++.
MintAfterIncrement(to, m) ==
    /\ nextTokenId < MaxTickets
    /\ m.session < MaskWidth
    /\ m.section < MaskWidth
    /\ nextTokenId' = nextTokenId + 1
    /\ ownerOf' = [ownerOf EXCEPT ![nextTokenId + 1] = to]
    /\ meta' = [meta EXCEPT ![nextTokenId + 1] = m]
    /\ UNCHANGED redeemed

\* A registered issuer mints the next token to any account.
Mint(to, m) ==
    /\ nextTokenId < MaxTickets
    /\ m.session < MaskWidth
    /\ m.section < MaskWidth
    /\ nextTokenId' = nextTokenId + 1
    /\ ownerOf' = [ownerOf EXCEPT ![nextTokenId] = to]
    /\ meta' = [meta EXCEPT ![nextTokenId] = m]
    /\ UNCHANGED redeemed

\* The gate opens for the token's current holder, once.
Redeem(u, t) ==
    /\ ownerOf[t] = u
    /\ t \notin redeemed
    /\ redeemed' = redeemed \cup {t}
    /\ UNCHANGED <<ownerOf, meta, nextTokenId>>

\* The holder's own ERC-721 transferFrom, to whatever account it names: also
\* to the escrow, which is then never told.
TransferFrom(u, to, t) ==
    /\ ownerOf[t] = u
    /\ ownerOf' = [ownerOf EXCEPT ![t] = to]
    /\ UNCHANGED <<meta, redeemed, nextTokenId>>

=============================================================================
