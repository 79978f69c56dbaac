------------------------------ MODULE Journal ------------------------------
(***************************************************************************)
(* What the scripts that send batches of transactions share (transact in   *)
(* scripts/arc-live.mjs, settle-arc-ten.mjs, act-*.mjs and seed-*.mjs).  A *)
(* transaction is signed, kept in a journal file under a label, and only   *)
(* then sent; a rerun finds the label and sends the same bytes again.  The *)
(* modules that extend this one say which transactions a script sends, in  *)
(* which order, and what they do on the chain.                             *)
(***************************************************************************)
EXTENDS Integers, SequencesExt

CONSTANTS
    Proc,              \* processes that run a script
    File, FileOf(_),   \* journals, and the one a process writes
    Account,
    MaxFaults,         \* bound: requests that fail
    MaxCrashes         \* bound: processes that die
JournalAssumption ==
    /\ \A p \in Proc : FileOf(p) \in File
    /\ MaxFaults \in Nat /\ MaxCrashes \in Nat

VARIABLES
    nonces,    \* account -> how many of its transactions are mined
    pool,      \* the transactions the network knows and has not mined
    chain,     \* the transactions mined, in order, and whether each succeeded
    journal,   \* file -> its contents
    held,      \* process -> the contents it read or wrote
    phase,     \* process -> how far it is with the step it is at
    req,       \* process -> the transaction of that step
    faults, crashes

netVars == <<nonces, pool, chain>>
runVars == <<journal, held, phase, req, faults, crashes>>
journalVars == <<netVars, runVars>>

NoTx == [none |-> TRUE]
NoFile == [steps |-> <<>>, absent |-> TRUE]

Extend(f, x, y) == (x :> y) @@ f

InitJournal ==
    /\ nonces = [a \in Account |-> 0] /\ pool = {} /\ chain = <<>>
    /\ journal = [f \in File |-> NoFile] /\ held = [p \in Proc |-> NoFile]
    /\ phase = [p \in Proc |-> "off"] /\ req = [p \in Proc |-> NoTx]
    /\ faults = 0 /\ crashes = 0

Steps(p) == held[p].steps
Mined(tx) == \E i \in DOMAIN chain : chain[i].tx = tx
Succeeded(tx) == [tx |-> tx, ok |-> TRUE] \in Range(chain)

\* eth_getTransactionCount of the pending block.
Pending(a) == nonces[a] + Cardinality({tx \in pool : tx.from = a /\ tx.nonce >= nonces[a]})

\* The file is written beside the journal and renamed over it.
Save(p, contents) ==
    /\ held' = [held EXCEPT ![p] = contents]
    /\ journal' = [journal EXCEPT ![FileOf(p)] = contents]

Step(p, phase1) == phase' = [phase EXCEPT ![p] = phase1]

-----------------------------------------------------------------------------
(* One transaction of a script *)

\* A label the journal has: its bytes are used again.
Resume(p, label) ==
    /\ phase[p] = "ready" /\ label \in DOMAIN Steps(p)
    /\ req' = [req EXCEPT ![p] = Steps(p)[label].tx]
    /\ Step(p, "look")
    /\ UNCHANGED <<netVars, journal, held, faults, crashes>>

\* A new one is simulated, then given its nonce and fee.
Prepare(p, tx) ==
    /\ phase[p] = "ready" /\ tx.label \notin DOMAIN Steps(p)
    /\ req' = [req EXCEPT ![p] = tx]
    /\ Step(p, "prepared")
    /\ UNCHANGED <<netVars, journal, held, faults, crashes>>

\* Mutated form of Sign: the bytes are kept with the receipt.
SignUnsaved(p) ==
    /\ phase[p] = "prepared"
    /\ held' = [held EXCEPT ![p].steps = Extend(@, req[p].label, [tx |-> req[p], status |-> "signed"])]
    /\ Step(p, "look")
    /\ UNCHANGED <<netVars, journal, req, faults, crashes>>

\* It is signed, and kept before anybody sees it.
Sign(p) ==
    /\ phase[p] = "prepared"
    /\ Save(p, [held[p] EXCEPT !.steps = Extend(@, req[p].label, [tx |-> req[p], status |-> "signed"])])
    /\ Step(p, "look")
    /\ UNCHANGED <<netVars, req, faults, crashes>>

\* There is no receipt yet.
Look(p) ==
    /\ phase[p] = "look" /\ ~Mined(req[p])
    /\ Step(p, "send")
    /\ UNCHANGED <<netVars, journal, held, req, faults, crashes>>

\* The network takes it, or refuses it and says that it knows it.
Send(p) ==
    /\ phase[p] = "send"
    /\ \/ req[p].nonce >= nonces[req[p].from] /\ pool' = pool \cup {req[p]}
       \/ req[p] \in pool /\ UNCHANGED pool
       \/ Mined(req[p]) /\ UNCHANGED pool
    /\ Step(p, "wait")
    /\ UNCHANGED <<nonces, chain, journal, held, req, faults, crashes>>

\* The receipt, now or after waiting, is kept with the step.
Received(p) ==
    /\ phase[p] \in {"look", "wait"} /\ Mined(req[p])
    /\ LET status == IF Succeeded(req[p]) THEN "success" ELSE "reverted"
       IN  /\ Save(p, [held[p] EXCEPT !.steps[req[p].label].status = status])
           /\ Step(p, IF status = "success" THEN "done" ELSE "failed")
    /\ UNCHANGED <<netVars, req, faults, crashes>>

\* A transaction whose nonce is taken is refused by everybody.
Refused(p) ==
    /\ phase[p] = "send" /\ req[p] \notin pool /\ ~Mined(req[p])
    /\ req[p].nonce < nonces[req[p].from]
    /\ Step(p, "failed")
    /\ UNCHANGED <<netVars, journal, held, req, faults, crashes>>

\* A request fails; what it asked for may have happened.
RequestFails(p) ==
    /\ phase[p] \in {"ready", "prepared", "look", "send", "wait"} /\ faults < MaxFaults
    /\ faults' = faults + 1
    /\ pool' \in {pool} \cup (IF phase[p] = "send" /\ req[p].nonce >= nonces[req[p].from] THEN {pool \cup {req[p]}} ELSE {})
    /\ Step(p, "failed")
    /\ UNCHANGED <<nonces, chain, journal, held, req, crashes>>

\* The process ends: what it held is gone.
Ends(p) ==
    /\ Step(p, "off")
    /\ held' = [held EXCEPT ![p] = NoFile]
    /\ req' = [req EXCEPT ![p] = NoTx]

Dies(p) ==
    /\ phase[p] # "off" /\ crashes < MaxCrashes
    /\ crashes' = crashes + 1
    /\ Ends(p)
    /\ UNCHANGED <<netVars, journal, faults>>

\* The next transaction of an account is mined; another with its nonce never is.
Mine(tx, ok) ==
    /\ tx \in pool /\ tx.nonce = nonces[tx.from]
    /\ nonces' = [nonces EXCEPT ![tx.from] = @ + 1]
    /\ pool' = {t \in pool : t.from # tx.from \/ t.nonce # tx.nonce}
    /\ chain' = Append(chain, [tx |-> tx, ok |-> ok])
    /\ UNCHANGED runVars

-----------------------------------------------------------------------------
(* What the journals promise *)

\* What a file's steps have on the chain.
MinedFor(f, label) == {i \in DOMAIN chain : chain[i].tx.file = f /\ chain[i].tx.label = label}

\* No label of a journal is carried out twice: every rerun sends the bytes that
\* were kept before they were first sent.
OncePerLabel == \A i, j \in DOMAIN chain :
    chain[i].tx.file = chain[j].tx.file /\ chain[i].tx.label = chain[j].tx.label => i = j

\* Every step that was signed is mined or can still be sent.
StepsCanBeSent == \A f \in File : \A l \in DOMAIN journal[f].steps :
    LET tx == journal[f].steps[l].tx IN Mined(tx) \/ tx.nonce >= nonces[tx.from]
=============================================================================
