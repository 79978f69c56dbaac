--------------------------- MODULE IntentRegistry ---------------------------
(***************************************************************************)
(* The registry of src/src/IntentRegistry.sol: signed intents, each under  *)
(* its EIP-712 hash, in one of four states.                                *)
(*                                                                         *)
(* An intent is a record; two different records have different hashes, so  *)
(* the record stands for its hash.  A mask is the set of the identifiers   *)
(* whose bit it sets.  Intent is a parameter: the intents anybody may ever *)
(* write, including ones that no chain state can satisfy.                  *)
(***************************************************************************)
EXTENDS TicketNFT, Sequences

CONSTANT
    Intent    \* the intents that may be signed

RegistryState == {"NONE", "LIVE", "REVOKED", "SETTLED"}

Nonce == {i.nonce : i \in Intent}

ASSUME IntentAssumption ==
    \A i \in Intent :
        /\ i.owner \in User
        /\ i.offered \in Seq(Nat)
        /\ i.exactCount \in 0 .. 255
        /\ i.maxNetPay \in Int
        /\ i.deadline \in Nat

VARIABLES
    signed,       \* intents their owner has put a signature to, off chain
    state,        \* intent -> RegistryState
    intentOwner,  \* intent -> the account that may revoke it
    usedNonce     \* pairs <<owner, nonce>> that commit has consumed

registryVars == <<signed, state, intentOwner, usedNonce>>

RegistryTypeOK ==
    /\ signed \subseteq Intent
    /\ state \in [Intent -> RegistryState]
    /\ intentOwner \in [Intent -> User \cup {NoOne}]
    /\ usedNonce \subseteq User \X Nonce

RegistryInit ==
    /\ signed = {}
    /\ state = [i \in Intent |-> "NONE"]
    /\ intentOwner = [i \in Intent |-> NoOne]
    /\ usedNonce = {}

\* The owner's wallet signs; the signature then exists for good, and whoever
\* has it may relay it at any later time.
Sign(i) ==
    /\ i \notin signed
    /\ signed' = signed \cup {i}
    /\ UNCHANGED <<state, intentOwner, usedNonce>>

\* Mutated form of Commit: the nonce is recorded and not looked at.
CommitAnyNonce(i) ==
    /\ i.mustBeAdjacent => i.exactCount >= 2
    /\ i \in signed
    /\ state[i] = "NONE"
    /\ usedNonce' = usedNonce \cup {<<i.owner, i.nonce>>}
    /\ state' = [state EXCEPT ![i] = "LIVE"]
    /\ intentOwner' = [intentOwner EXCEPT ![i] = i.owner]
    /\ UNCHANGED signed

\* Permissionless: any relayer, any time after the signature.
Commit(i) ==
    /\ i.mustBeAdjacent => i.exactCount >= 2
    /\ <<i.owner, i.nonce>> \notin usedNonce
    /\ i \in signed
    /\ state[i] = "NONE"
    /\ usedNonce' = usedNonce \cup {<<i.owner, i.nonce>>}
    /\ state' = [state EXCEPT ![i] = "LIVE"]
    /\ intentOwner' = [intentOwner EXCEPT ![i] = i.owner]
    /\ UNCHANGED signed

Revoke(u, i) ==
    /\ intentOwner[i] = u
    /\ state[i] = "LIVE"
    /\ state' = [state EXCEPT ![i] = "REVOKED"]
    /\ UNCHANGED <<signed, intentOwner, usedNonce>>

\* Only the settlement contract calls this, for a set of intents; it does not
\* look at the state it overwrites.
MarkSettled(P) ==
    /\ state' = [i \in Intent |-> IF i \in P THEN "SETTLED" ELSE state[i]]
    /\ UNCHANGED <<signed, intentOwner, usedNonce>>

(* One signature, one intent, one life.  An intent the registry knows was  *)
(* signed by the account that may revoke it, and no two intents of one     *)
(* owner ever live under one nonce: a replaced offer's signature cannot    *)
(* come back beside its replacement (IntentRegistry.sol:112-126).          *)
NonceNamesOneIntent ==
    /\ \A i \in Intent : state[i] # "NONE" => i \in signed /\ intentOwner[i] = i.owner
    /\ \A i, k \in Intent :
        state[i] # "NONE" /\ state[k] # "NONE" /\ i.owner = k.owner /\ i.nonce = k.nonce
            => i = k

(* An intent moves only forward, NONE to LIVE to one of its two ends:      *)
(* markSettled writes unconditionally (IntentRegistry.sol:152-154), so     *)
(* that a revoked or settled intent is never settled again rests on the    *)
(* settlement's own check, in another contract.                            *)
IntentLifecycle ==
    [][\A i \in Intent :
        \/ state'[i] = state[i]
        \/ state[i] = "NONE" /\ state'[i] = "LIVE"
        \/ state[i] = "LIVE" /\ state'[i] \in {"REVOKED", "SETTLED"}]_state

=============================================================================
