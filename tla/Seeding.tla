------------------------------ MODULE Seeding ------------------------------
(***************************************************************************)
(* The scripts that put a batch of offers on the market                    *)
(* (scripts/seed-inventory.mjs and seed-circle-inventory.mjs): for every   *)
(* cell tickets are minted, deposited and offered in signed intents.  Each *)
(* batch has a journal, and one lock file keeps the issuer's scripts       *)
(* apart.  A process may fail or die anywhere; the operator runs it again, *)
(* and removes a lock left behind once no process runs.                    *)
(***************************************************************************)
EXTENDS Journal

CONSTANTS
    Issuer, Nobody,
    Cell, OwnerOf(_),  \* the cells of a batch in order, and who owns their tickets
    Size, Bundles,     \* tickets in an offer, and offers of a cell
    Fee,               \* fee ceilings a transaction may have
    MaxFees,           \* what the steps of one batch may cost together
    Stalls,            \* whether a process may stop between reading and locking
    MaxClaims,         \* bound: transactions the claim service sends as issuer
    MaxTrades,         \* bound: offers that others settle
    MaxNow             \* bound: 1 if the sessions' cutoff may come within the hour
SeedingAssumption ==
    /\ Issuer \in Account /\ Nobody \notin Proc \cup Account
    /\ \A c \in Range(Cell) : OwnerOf(c) \in Account
    /\ {Size, Bundles} \subseteq Nat \ {0} /\ Fee \subseteq Nat
    /\ {MaxFees, MaxClaims, MaxTrades, MaxNow} \subseteq Nat /\ Stalls \in BOOLEAN

VARIABLES
    tickets,   \* the tickets minted: owner, whether in escrow, by which transaction
    approved, funded,  \* accounts that let the escrow move tickets, that can pay gas
    used, live,        \* the intent nonces taken, and the live intents
    lock, at,          \* who holds the lock file; the item a process is at
    published,         \* file -> a manifest of the whole batch is written
    claims, trades,
    now        \* 0: the cutoff is more than an hour away, 1: it is not

marketVars == <<tickets, approved, funded, used, live>>
localVars == <<lock, at, published>>
othersVars == <<claims, trades, now>>
vars == <<journalVars, marketVars, localVars, othersVars>>

-----------------------------------------------------------------------------
(* The plan of a batch *)

Seats == 1 .. Size * Bundles
Label(kind, cell, n, who) == [do |-> kind, cell |-> cell, n |-> n, who |-> who]

\* Participants other than the issuer are given gas first.
Funding == SetToSeq({Label("fund", 0, 0, a) : a \in {OwnerOf(c) : c \in Range(Cell)} \ {Issuer}})

Items(c) ==
    [n \in Seats |-> Label("mint", c, n, OwnerOf(c))]
    \o << Label("approve", 0, 0, OwnerOf(c)), Label("deposit", c, 0, OwnerOf(c)) >>
    \o [b \in 1 .. Bundles |-> Label("commit", c, b, OwnerOf(c))]

Program == Funding \o FlattenSeq([i \in DOMAIN Cell |-> Items(Cell[i])])
Labels == Range(Program)
Item(p) == Program[at[p]]

\* A deposit and an approval are sent by the owner, the rest by the issuer.
Sender(l) == IF l.do \in {"approve", "deposit"} THEN l.who ELSE Issuer

NewBatch == [steps |-> <<>>, absent |-> FALSE, tickets |-> <<>>, offers |-> <<>>]

Init ==
    /\ InitJournal
    /\ tickets = <<>> /\ approved = {} /\ funded = {Issuer} /\ used = {} /\ live = {}
    /\ lock = Nobody /\ at = [p \in Proc |-> 1] /\ published = [f \in File |-> FALSE]
    /\ claims = 0 /\ trades = 0 /\ now = 0

Kept(p) == held[p].tickets
Offers(p) == held[p].offers
CellIds(p, c) == {Kept(p)[l] : l \in {k \in DOMAIN Kept(p) : k.cell = c}}
Bundle(p, c, b) == {Kept(p)[Label("mint", c, n, OwnerOf(c))] : n \in (b - 1) * Size + 1 .. b * Size}

-----------------------------------------------------------------------------
(* The chain *)

\* What a transaction carries: the tickets it moves and the intent it commits.
Args(p, l) == [to |-> l.who,
    ids |-> CASE l.do = "deposit" -> CellIds(p, l.cell)
              [] l.do = "commit" -> Offers(p)[l].ids
              [] OTHER -> {},
    nonce |-> IF l.do = "commit" THEN Offers(p)[l].nonce ELSE 0]

Intent(tx) == [owner |-> tx.args.to, ids |-> tx.args.ids, nonce |-> tx.args.nonce]

Works(tx) ==
    /\ tx.from \in funded
    /\ tx.label.do = "deposit" => /\ tx.from \in approved
                                  /\ \A i \in tx.args.ids : tickets[i].owner = tx.from /\ ~tickets[i].escrowed
    /\ tx.label.do = "commit" => <<tx.args.to, tx.args.nonce>> \notin used

Effect(tx) ==
    LET does(kind) == Works(tx) /\ tx.label.do = kind
    IN  /\ tickets' = IF does("mint") THEN Append(tickets, [owner |-> tx.args.to, escrowed |-> FALSE, by |-> tx])
                      ELSE IF does("deposit") THEN [i \in DOMAIN tickets |-> IF i \in tx.args.ids THEN [tickets[i] EXCEPT !.escrowed = TRUE] ELSE tickets[i]]
                      ELSE tickets
        /\ approved' = approved \cup (IF does("approve") THEN {tx.from} ELSE {})
        /\ funded' = funded \cup (IF does("fund") THEN {tx.args.to} ELSE {})
        /\ used' = used \cup (IF does("commit") THEN {<<tx.args.to, tx.args.nonce>>} ELSE {})
        /\ live' = live \cup (IF does("commit") THEN {Intent(tx)} ELSE {})

NetworkMines == \E tx \in pool :
    /\ Mine(tx, Works(tx)) /\ Effect(tx)
    /\ UNCHANGED <<localVars, othersVars>>

\* Others settle an offer; its tickets leave the escrow.
OthersTrade == \E o \in live :
    /\ trades < MaxTrades /\ trades' = trades + 1
    /\ live' = live \ {o}
    /\ tickets' = [i \in DOMAIN tickets |-> IF i \in o.ids THEN [tickets[i] EXCEPT !.escrowed = FALSE, !.owner = Nobody] ELSE tickets[i]]
    /\ UNCHANGED <<journalVars, approved, funded, used, localVars, claims, now>>

\* The claim service mints with the issuer's key (SigningJob); its lease is in
\* the store and it does not look at the lock file.
ClaimService ==
    /\ claims < MaxClaims /\ claims' = claims + 1
    /\ nonces' = [nonces EXCEPT ![Issuer] = @ + 1]
    /\ pool' = {t \in pool : t.from # Issuer \/ t.nonce # nonces[Issuer]}
    /\ UNCHANGED <<chain, runVars, marketVars, localVars, trades, now>>

CutoffComes ==
    /\ now < MaxNow /\ now' = now + 1
    /\ UNCHANGED <<journalVars, marketVars, localVars, claims, trades>>

-----------------------------------------------------------------------------
(* A run *)

\* The journal and the time are read while the configuration is checked.
Read(p) ==
    /\ phase[p] = "off" /\ ~published[FileOf(p)]
    /\ held' = [held EXCEPT ![p] = journal[FileOf(p)]]
    /\ Step(p, IF now = 0 THEN "locking" ELSE "late")
    /\ UNCHANGED <<netVars, journal, req, faults, crashes, marketVars, localVars, othersVars>>

\* The lock file is made, and the journal of a new batch.
Locks(p) ==
    /\ phase[p] = "locking" /\ lock = Nobody
    /\ lock' = p /\ at' = [at EXCEPT ![p] = 1]
    /\ IF held[p].absent THEN Save(p, NewBatch) ELSE UNCHANGED <<held, journal>>
    /\ Step(p, "ready")
    /\ UNCHANGED <<netVars, req, faults, crashes, marketVars, published, othersVars>>

\* With the cutoff near a run sends nothing: it ends, before it has the lock or with it.
TooLate(p) ==
    /\ phase[p] = "late"
    /\ \/ Ends(p) /\ UNCHANGED lock
       \/ lock = Nobody /\ lock' = p /\ Step(p, "failed") /\ UNCHANGED <<held, req>>
    /\ UNCHANGED <<netVars, journal, faults, crashes, marketVars, at, published, othersVars>>

Busy(p) ==
    /\ phase[p] = "locking" /\ lock # Nobody
    /\ Ends(p)
    /\ UNCHANGED <<netVars, journal, faults, crashes, marketVars, localVars, othersVars>>

AtItem(p) == phase[p] = "ready" /\ at[p] <= Len(Program)
StepSucceeded(p, l) == l \in DOMAIN Steps(p) /\ Steps(p)[l].status = "success"

\* Mutated form of Satisfied: a deposit that was signed is taken as made.
SatisfiedBySigning(p) == LET l == Item(p) IN
    CASE l.do = "fund" -> l \notin DOMAIN Steps(p) /\ l.who \in funded
      [] l.do = "mint" -> l \in DOMAIN Kept(p)
      [] l.do = "approve" -> l.who \in approved
      [] OTHER -> l \in DOMAIN Steps(p)

\* What the journal or the chain shows to be done is passed over.
Satisfied(p) == LET l == Item(p) IN
    CASE l.do = "fund" -> l \notin DOMAIN Steps(p) /\ l.who \in funded
      [] l.do = "mint" -> l \in DOMAIN Kept(p)
      [] l.do = "approve" -> l.who \in approved
      [] OTHER -> StepSucceeded(p, l)

NextItem(p) == at' = [at EXCEPT ![p] = @ + 1]

PassOver(p) ==
    /\ AtItem(p) /\ Satisfied(p) /\ NextItem(p)
    /\ UNCHANGED <<journalVars, marketVars, lock, published, othersVars>>

FreshNonce(owner) == CHOOSE n \in 0 .. Cardinality(used) :
    /\ <<owner, n>> \notin used
    /\ \A m \in 0 .. n - 1 : <<owner, m>> \in used

\* The intent of a bundle is kept before it is signed and committed.
Draft(p) == LET l == Item(p) IN
    /\ AtItem(p) /\ l.do = "commit" /\ ~Satisfied(p) /\ l \notin DOMAIN Offers(p)
    /\ Save(p, [held[p] EXCEPT !.offers = Extend(@, l,
            [owner |-> l.who, ids |-> Bundle(p, l.cell, l.n), nonce |-> FreshNonce(l.who)])])
    /\ UNCHANGED <<netVars, phase, req, faults, crashes, marketVars, localVars, othersVars>>

NeedsStep(p) == AtItem(p) /\ ~Satisfied(p) /\ (Item(p).do = "commit" => Item(p) \in DOMAIN Offers(p))

Again(p) ==
    /\ NeedsStep(p) /\ Resume(p, Item(p))
    /\ UNCHANGED <<marketVars, localVars, othersVars>>

Transaction(p, fee) == LET l == Item(p) IN
    [file |-> FileOf(p), label |-> l, from |-> Sender(l), nonce |-> Pending(Sender(l)), fee |-> fee, args |-> Args(p, l)]

Spent(p) == MapThenSumSet(LAMBDA l : Steps(p)[l].tx.fee, DOMAIN Steps(p))

\* A new step must work on the chain as it is, and stay within the ceiling.
Request(p) == \E fee \in Fee :
    /\ NeedsStep(p) /\ Works(Transaction(p, fee)) /\ Spent(p) + fee <= MaxFees
    /\ Prepare(p, Transaction(p, fee))
    /\ UNCHANGED <<marketVars, localVars, othersVars>>

Declined(p) == \E fee \in Fee :
    /\ NeedsStep(p) /\ Item(p) \notin DOMAIN Steps(p)
    /\ ~Works(Transaction(p, fee)) \/ Spent(p) + fee > MaxFees
    /\ Step(p, "failed")
    /\ UNCHANGED <<netVars, journal, held, req, faults, crashes, marketVars, localVars, othersVars>>

Transact(p) ==
    /\ \/ Sign(p) \/ Look(p) \/ Send(p) \/ Received(p) \/ Refused(p) \/ RequestFails(p)
    /\ UNCHANGED <<marketVars, localVars, othersVars>>

\* The ticket that a mint's receipt names is kept.
Done(p) ==
    /\ phase[p] = "done" /\ NextItem(p) /\ Step(p, "ready")
    /\ IF req[p].label.do = "mint"
       THEN Save(p, [held[p] EXCEPT !.tickets = Extend(@, req[p].label, CHOOSE i \in DOMAIN tickets : tickets[i].by = req[p])])
       ELSE UNCHANGED <<held, journal>>
    /\ UNCHANGED <<netVars, req, faults, crashes, marketVars, lock, published, othersVars>>

\* At the end the batch is checked at one block, and its manifest written.
Available(p, l) == LET o == Offers(p)[l] IN
    o \in live /\ \A i \in o.ids : tickets[i].escrowed /\ tickets[i].owner = o.owner

Finishes(p) ==
    /\ phase[p] = "ready" /\ at[p] > Len(Program)
    /\ published' = [published EXCEPT ![FileOf(p)] = \A l \in DOMAIN Offers(p) : Available(p, l)]
    /\ Step(p, "failed")
    /\ UNCHANGED <<netVars, journal, held, req, faults, crashes, marketVars, lock, at, othersVars>>

\* From reading its journal to making the lock a process waits for nothing.  Unless
\* it Stalls there, no other comes to its end meanwhile.
Starting == {p \in Proc : phase[p] \in {"locking", "late"}}

\* However a run ends, it removes the lock.
Stops(p) ==
    /\ phase[p] = "failed" /\ (Stalls \/ Starting = {})
    /\ Ends(p) /\ lock' = Nobody
    /\ UNCHANGED <<netVars, journal, faults, crashes, marketVars, at, published, othersVars>>

\* A process that dies leaves it.
ProcessDies(p) == Dies(p) /\ UNCHANGED <<marketVars, localVars, othersVars>>

OperatorUnlocks ==
    /\ lock # Nobody /\ \A p \in Proc \ (IF Stalls THEN Starting ELSE {}) : phase[p] = "off"
    /\ lock' = Nobody
    /\ UNCHANGED <<journalVars, marketVars, at, published, othersVars>>

Runs(p) ==
    \/ Read(p) \/ Locks(p) \/ TooLate(p) \/ Busy(p) \/ PassOver(p) \/ Draft(p) \/ Again(p) \/ Request(p)
    \/ Declined(p) \/ Transact(p) \/ Done(p) \/ Finishes(p) \/ Stops(p)

Next ==
    \/ \E p \in Proc : Runs(p) \/ ProcessDies(p)
    \/ NetworkMines \/ OthersTrade \/ ClaimService \/ CutoffComes \/ OperatorUnlocks

Spec == Init /\ [][Next]_vars

\* Requests and files answer, transactions are mined, the operator runs the
\* script again and removes a lock left behind.
FairSpec ==
    /\ Spec /\ SF_vars(OperatorUnlocks) /\ WF_vars(NetworkMines)
    /\ \A p \in Proc : WF_vars(Runs(p))

-----------------------------------------------------------------------------
(* Properties *)

TypeOK ==
    /\ phase \in [Proc -> {"off", "locking", "late", "ready", "prepared", "look", "send", "wait", "done", "failed"}]
    /\ lock \in Proc \cup {Nobody} /\ at \in [Proc -> 1 .. Len(Program) + 1]
    /\ \A f \in File : DOMAIN journal[f].steps \subseteq Labels
    /\ \A p \in Proc : phase[p] \in {"ready", "prepared", "look", "send", "wait", "done"} => ~held[p].absent
    /\ approved \cup funded \subseteq Account

\* What a batch's transactions may cost on the chain stays within its ceiling,
\* over all runs (seed-inventory.mjs:106).
WithinCeiling == \A f \in File :
    MapThenSumSet(LAMBDA i : chain[i].tx.fee, {i \in DOMAIN chain : chain[i].tx.file = f}) <= MaxFees

\* A live intent offers tickets that its owner has in escrow: no batch commits
\* before its deposit is made, however it was interrupted (seed-inventory.mjs:146).
OffersBacked == \A o \in live : \A i \in o.ids :
    i \in DOMAIN tickets /\ tickets[i].escrowed /\ tickets[i].owner = o.owner

\* No two intents kept for one owner share a nonce: only one could be committed
\* (seed-inventory.mjs:151).
NoncesApart == \A f \in File : journal[f].absent \/ \A k, l \in DOMAIN journal[f].offers :
    journal[f].offers[k].owner = journal[f].offers[l].owner
        /\ journal[f].offers[k].nonce = journal[f].offers[l].nonce => k = l

\* A manifest of the whole batch is written only when every ticket and offer of
\* the plan was made, once (seed-inventory.mjs:199, seed-circle-inventory.mjs:148).
WholeBatch == \A f \in File : published[f] =>
    \A l \in Labels : l.do \in {"mint", "deposit", "commit"} => Cardinality(MinedFor(f, l)) = 1

\* Run again often enough, a batch is completed: all of it is made, and published unless
\* others took an offer before that, or the cutoff came too near.
AllPublished == \A f \in File : published[f]
AllMade == \A f \in File : \A l \in Labels :
    l.do \in {"mint", "deposit", "commit"} => \E i \in MinedFor(f, l) : chain[i].ok
Completed == AllPublished \/ (AllMade /\ trades > 0) \/ now > 0
BatchEnds == <>Completed
=============================================================================
