------------------------------- MODULE Rollout -------------------------------
(***************************************************************************)
(* The deployment of the contracts to the main network                     *)
(* (scripts/mainnet.mjs, scripts/lib/mainnet-deployment.mjs).  Contracts   *)
(* refer to each other by addresses that follow from the deployer's        *)
(* nonces, so a plan fixes the nonce of every step before the first one.   *)
(* A step is signed once, saved, sent, and waited for until enough blocks  *)
(* are on top of it; the manifest is written when all of it was read again *)
(* from the chain.  Blocks may be replaced, transactions lost, processes   *)
(* killed.  The configuration and the compiled contracts do not change,    *)
(* and fees, balances, bytecode and wiring are left out: they follow from  *)
(* which transactions are on the chain.                                    *)
(***************************************************************************)
EXTENDS Integers, SequencesExt, FiniteSetsExt

CONSTANTS
    Steps,          \* how many transactions the plan has
    Confirmations,  \* config.confirmations
    Depth,          \* the most blocks that are ever replaced at a time
    MaxReorgs, MaxLost, MaxKilled, MaxOutside, MaxReverted  \* bounds: how often each happens
RolloutAssumption ==
    /\ {Steps, Confirmations, Depth, MaxReorgs, MaxLost, MaxKilled, MaxOutside, MaxReverted} \subseteq Nat
    /\ Steps >= 1 /\ Confirmations >= 1 /\ Depth < Confirmations

VARIABLES
    chain,    \* the blocks, each the deployer's transactions in it
    reverted, \* the deployment's transactions in them that were reverted
    pool,     \* the transactions that wait to be mined
    sent,     \* the deployment's transactions that ever left the process
    journal,  \* .data/mainnet/journal.json: the first nonce, and the signed steps
    manifest, \* the transactions that deployments/arc-mainnet.json names
    lock,     \* .data/mainnet/deploy.lock is there
    pc, step, \* the process
    head,     \* the block that the verification reads at
    reorgs, lost, killed, outside

netVars == <<chain, reverted, pool, sent, reorgs, lost, outside>>
fileVars == <<journal, manifest>>
runVars == <<lock, pc, step, head, killed>>
vars == <<netVars, fileVars, runVars>>

NoJournal == [none |-> TRUE]

Init ==
    /\ chain = <<>> /\ reverted = {} /\ pool = {} /\ sent = {} /\ journal = NoJournal /\ manifest = <<>>
    /\ lock = FALSE /\ pc = "off" /\ step = 0 /\ head = 0
    /\ reorgs = 0 /\ lost = 0 /\ killed = 0 /\ outside = 0

-----------------------------------------------------------------------------
(* The network *)

Mined == UNION ToSet(chain)
BlockOf(tx) == CHOOSE b \in DOMAIN chain : tx \in chain[b]

\* getTransactionCount with the tag "pending".
PendingCount == CHOOSE n \in 0 .. Cardinality(Mined \cup pool) :
    /\ \A m \in 0 .. n - 1 : \E tx \in Mined \cup pool : tx.nonce = m
    /\ \A tx \in Mined \cup pool : tx.nonce # n

BuriedAt(tx, height) == tx \in Mined /\ height - BlockOf(tx) + 1 >= Confirmations

\* Blocks that nobody waits for are left out.  A step may be reverted although its
\* simulation passed.
Mine ==
    /\ \E txs \in SUBSET pool :
        /\ txs # {} \/ \E tx \in Mined : ~BuriedAt(tx, Len(chain))
        /\ \A tx \in txs : tx.nonce < Cardinality(Mined \cup txs)
        /\ chain' = Append(chain, txs)
        /\ pool' = {tx \in pool \ txs : tx.nonce >= Cardinality(Mined \cup txs)}
        /\ \E bad \in SUBSET {tx \in txs : tx.by = "deploy"} :
            Cardinality(reverted \cup bad) <= MaxReverted /\ reverted' = reverted \cup bad
    /\ UNCHANGED <<sent, fileVars, runVars, reorgs, lost, outside>>

\* The newest blocks are replaced; their transactions wait again, or are lost.
Reorganise == \E d \in 1 .. Depth :
    /\ reorgs < MaxReorgs /\ reorgs' = reorgs + 1 /\ d <= Len(chain)
    /\ LET gone == UNION {chain[b] : b \in Len(chain) - d + 1 .. Len(chain)} IN \E kept \in {{}, gone} :
        /\ pool' = {tx \in pool : \A g \in kept : g.nonce # tx.nonce} \cup kept
        /\ chain' = SubSeq(chain, 1, Len(chain) - d) \o [b \in 1 .. d |-> {}]
        /\ reverted' = reverted \ gone
    /\ UNCHANGED <<sent, fileVars, runVars, lost, outside>>

Lose == \E tx \in pool :
    /\ lost < MaxLost /\ lost' = lost + 1 /\ pool' = pool \ {tx}
    /\ UNCHANGED <<chain, reverted, sent, fileVars, runVars, reorgs, outside>>

\* The deployer's key is used for something else.
Outside ==
    /\ outside < MaxOutside /\ outside' = outside + 1
    /\ pool' = pool \cup {[nonce |-> PendingCount, by |-> "other", id |-> outside]}
    /\ UNCHANGED <<chain, reverted, sent, fileVars, runVars, reorgs, lost>>

-----------------------------------------------------------------------------
(* A run of "deploy" *)

\* Every error ends the run, and the lock is removed.
Throws == pc' = "off" /\ lock' = FALSE /\ UNCHANGED <<step, head>>
GoesTo(where) == pc' = where /\ UNCHANGED <<lock, step, head>>
Only(v) == UNCHANGED v /\ UNCHANGED killed

Begin ==
    /\ pc = "off" /\ ~lock /\ manifest = <<>>
    /\ lock' = TRUE /\ pc' = "load" /\ UNCHANGED <<step, head>>
    /\ Only(<<netVars, fileVars>>)

\* A saved plan is taken up; a new one starts at the next nonce.
Load ==
    /\ pc = "load" /\ pc' = "step" /\ step' = 1
    /\ journal' = IF journal = NoJournal THEN [start |-> PendingCount, saved |-> <<>>] ELSE journal
    /\ Only(<<netVars, manifest, lock, head>>)

Planned(i) == journal.start + i - 1
Saved == step <= Len(journal.saved)
Tx == journal.saved[step]

\* "Concurrent deployer transaction detected; stop and inspect"
CheckNonce ==
    /\ pc = "step"
    /\ IF Saved THEN GoesTo("look") ELSE IF PendingCount = Planned(step) THEN GoesTo("sign") ELSE Throws
    /\ Only(<<netVars, fileVars>>)

\* "Never sign a replacement automatically."
Sign ==
    /\ pc = "sign" /\ GoesTo("look")
    /\ journal' = [journal EXCEPT !.saved = Append(@, [nonce |-> Planned(step), by |-> "deploy", id |-> Cardinality(sent)])]
    /\ Only(<<netVars, manifest>>)

Accepted(tx) == tx.nonce >= Cardinality(Mined) /\ \A p \in pool : p.nonce # tx.nonce

\* Without a receipt it is sent, again if need be; a refusal is an error
\* unless the node knows the transaction.
Send ==
    /\ pc = "look"
    /\ IF Tx \in Mined \cup pool THEN GoesTo("wait") /\ UNCHANGED <<sent, pool>> ELSE
        /\ sent' = sent \cup {Tx}
        /\ IF Accepted(Tx) THEN pool' = pool \cup {Tx} /\ GoesTo("wait") ELSE UNCHANGED pool /\ Throws
    /\ Only(<<chain, reverted, reorgs, lost, outside, fileVars>>)

\* "Reverted ...; do not reset the journal": every later run ends here too.
Confirmed ==
    /\ pc = "wait" /\ BuriedAt(Tx, Len(chain))
    /\ IF Tx \in reverted THEN Throws
       ELSE IF step < Steps THEN step' = step + 1 /\ pc' = "step" /\ UNCHANGED <<lock, head>>
       ELSE step' = 1 /\ pc' = "verify" /\ head' = Len(chain) /\ UNCHANGED lock
    /\ Only(<<netVars, fileVars>>)

TimesOut == pc = "wait" /\ ~BuriedAt(Tx, Len(chain)) /\ Throws /\ Only(<<netVars, fileVars>>)

\* Step by step the chain is asked again, and counted from the block read first.
Verify ==
    /\ pc = "verify"
    /\ IF Tx \in reverted \/ ~BuriedAt(Tx, head) THEN Throws
       ELSE IF step < Steps THEN step' = step + 1 /\ UNCHANGED <<pc, lock, head>>
       ELSE GoesTo("write")
    /\ Only(<<netVars, fileVars>>)

Write ==
    /\ pc = "write" /\ Throws /\ manifest' = journal.saved
    /\ Only(<<netVars, journal>>)

\* A process that is killed leaves the lock.
Killed ==
    /\ pc # "off" /\ killed < MaxKilled /\ killed' = killed + 1
    /\ pc' = "off" /\ UNCHANGED <<netVars, fileVars, lock, step, head>>

\* Only the operator knows that no process runs.
OperatorUnlocks ==
    /\ pc = "off" /\ lock /\ lock' = FALSE
    /\ Only(<<netVars, fileVars, pc, step, head>>)

Run == Begin \/ Load \/ CheckNonce \/ Sign \/ Send \/ Confirmed \/ TimesOut \/ Verify \/ Write
Next == Run \/ Mine \/ Reorganise \/ Lose \/ Outside \/ Killed \/ OperatorUnlocks

Spec == Init /\ [][Next]_vars
FairSpec == Spec /\ WF_vars(Run) /\ WF_vars(Mine) /\ WF_vars(OperatorUnlocks)

-----------------------------------------------------------------------------
(* Properties *)

TypeOK ==
    /\ pc \in {"off", "load", "step", "sign", "look", "wait", "verify", "write"}
    /\ step \in 0 .. Steps /\ pc # "off" => lock /\ reverted \subseteq Mined
    /\ \A a, b \in Mined \cup pool : a.nonce = b.nonce => a = b
    /\ journal # NoJournal => \A i \in DOMAIN journal.saved : journal.saved[i].nonce = Planned(i)

\* What the manifest names stays on the chain as planned and done, although blocks are
\* still replaced (mainnet-deployment.mjs:105, 168).
ManifestLasts == \A i \in DOMAIN manifest : manifest[i] \in Mined \ reverted /\ manifest[i].nonce = Planned(i)

\* No step has a second transaction, however often it was interrupted or lost
\* (mainnet-deployment.mjs:161, "Never sign a replacement automatically").
NoReplacement == \A a, b \in sent : a.nonce = b.nonce => a = b

\* Run again and again, the deployment is completed, unless one of its steps was
\* reverted or the deployer's key was used for something else.
Deployed == manifest # <<>>
Halted == reverted # {} \/ outside > 0
DeployEnds == <>[](Deployed \/ Halted)
=============================================================================
