------------------------------- MODULE Scenes -------------------------------
(***************************************************************************)
(* The scripted demonstrations (scripts/act-one.mjs, act-two.mjs and       *)
(* act-three.mjs with lib/act-one-proof.mjs and lib/act-three-proof.mjs).  *)
(* A plan names the tickets and intents of a scene before they exist; the  *)
(* script mints, deposits and commits them, has the backend find an        *)
(* exchange, and settles it, or in the third scene sends an altered one    *)
(* that must be refused.  What happened is audited at the block before and *)
(* the block of the transaction and written to a public record, after      *)
(* which a run audits and sends nothing.  Amounts of money are left out.   *)
(***************************************************************************)
EXTENDS Journal, FiniteSets, SequencesExt

-----------------------------------------------------------------------------
(* The three plans: who takes part, who gives what, who wants what, and in *)
(* which order a scene is set up.                                          *)

Label(kind, n) == [do |-> kind, n |-> n]
Final == Label("settle", 0)

-----------------------------------------------------------------------------
(* The scenes.  Parties are accounts 1, 2, ...; tickets are numbered in the *)
(* order they are planned in; a party accepts one of the sets it wants.     *)

ActOne == [
    accounts |-> 3, offers |-> <<{1, 2}, {3, 4}, {5, 6}>>,
    wants |-> <<{{3, 4}}, {{5, 6}}, {{1, 2}}>>,
    pays |-> {1}, ends |-> {}, skips |-> FALSE, attack |-> FALSE, expires |-> TRUE]

ActTwo == [
    accounts |-> 4, offers |-> <<{}, {1, 2}, {3, 4}, {5, 6}>>,
    wants |-> <<{{1, 2}}, {{3, 4}}, {{5, 6}}, {{}}>>,
    pays |-> {1, 2, 3}, ends |-> {1, 4}, skips |-> TRUE, attack |-> FALSE, expires |-> TRUE]

Pairs == {{1, 2}, {2, 3}, {3, 4}}
ActThree == [
    accounts |-> 4, offers |-> <<{}, {1, 2, 3, 4}, {}>>,
    wants |-> <<Pairs, {{}}, Pairs>>,
    pays |-> {1, 3}, ends |-> {}, skips |-> TRUE, attack |-> TRUE, expires |-> FALSE]

Acts == <<ActOne, ActTwo, ActThree>>

-----------------------------------------------------------------------------
(* How a scene is set up *)

\* Mutated form of Setup: an offer is committed before its tickets are deposited.
SetupCommitFirst(act, i) ==
    << Label("commit", i) >>
    \o (IF act.offers[i] = {} THEN <<>> ELSE << Label("approve", i), Label("deposit", i) >>)
    \o (IF i \in act.pays THEN << Label("allow", i) >> ELSE <<>>)

Setup(act, i) ==
    (IF act.offers[i] = {} THEN <<>> ELSE << Label("approve", i), Label("deposit", i) >>)
    \o (IF i \in act.pays THEN << Label("allow", i) >> ELSE <<>>)
    \o << Label("commit", i) >>

Planned(act) == UNION Range(act.offers)

SetupOf(act, i) == IF i \in DOMAIN act.offers THEN Setup(act, i) ELSE <<>>

\* Gas for everybody, the tickets, and what every party sets up.
ProgramOf(act) ==
    [m \in 1 .. act.accounts - 1 |-> Label("gas", m + 1)]
    \o [k \in 1 .. Cardinality(Planned(act)) |-> Label("mint", k)]
    \o SetupOf(act, 1) \o SetupOf(act, 2) \o SetupOf(act, 3) \o SetupOf(act, 4)

-----------------------------------------------------------------------------
(* Who may get what when the intents of some parties are exchanged *)

Exchanges(act, parties) ==
    {a \in [parties -> UNION {act.wants[i] : i \in parties}] :
        /\ \A i \in parties : a[i] \in act.wants[i]
        /\ \A i, j \in parties : i # j => a[i] \cap a[j] = {}
        /\ UNION Range(a) = UNION {act.offers[i] : i \in parties}}

\* Without either end of the chain nothing may be found.
Closed(act) == \A e \in act.ends : \A some \in SUBSET (DOMAIN act.offers \ {e}) \ {{}} : Exchanges(act, some) = {}

-----------------------------------------------------------------------------
CONSTANTS
    Act,           \* 1, 2 or 3: the scene that is played
    Strangers,     \* accounts for whom others mint
    MaxOutside,    \* bound: mints and settlements by others, and blocks of a later time
    Times          \* bound: 0 is before a plan's deadline, 1 is at it, 2 is after it
ScenesAssumption == Act \in 1 .. 3 /\ MaxOutside \in Nat /\ 0 \in Times /\ Times \subseteq 0 .. 2 /\ Strangers \subseteq Account /\ Account \subseteq Nat

VARIABLES
    blocks,        \* what the contracts held after every block
    inclusion,     \* the block of each transaction of chain, and what came of it
    at,            \* process -> the item it is at
    record,        \* the public record
    outside

worldVars == <<blocks, inclusion, outside>>
sceneVars == <<at, record>>
vars == <<journalVars, worldVars, sceneVars>>

-----------------------------------------------------------------------------
(* The scene *)

Scene == Acts[Act]
Party == DOMAIN Scene.offers
Tickets == Planned(Scene)
Holder(k) == CHOOSE i \in Party : k \in Scene.offers[i]
Program == ProgramOf(Scene)
Allocations == Exchanges(Scene, Party)

Item(p) == LET items == Program IN IF at[p] <= Len(items) THEN items[at[p]] ELSE Final

\* Account 1 mints, commits and settles; the altered proposal comes from one
\* that has no part in the scene.
Sender(l) ==
    CASE l.do \in {"approve", "deposit", "allow"} -> l.n
      [] l = Final /\ Scene.attack -> Scene.accounts
      [] OTHER -> 1

-----------------------------------------------------------------------------
(* The contracts *)

NoTrade == [i \in Party |-> {}]

Id(first, k) == first + k - 1
Deposited(m, first, k) ==
    /\ Id(first, k) \in DOMAIN m.tickets
    /\ m.tickets[Id(first, k)].escrowed /\ m.tickets[Id(first, k)].to = Holder(k)

\* The first of settle's checks that fails.
Problem(m, first, alloc) ==
    CASE \E i \in Party : m.state[i] # "live" -> "not live"
      [] m.time > 1 -> "expired"
      [] \E k \in Tickets : ~Deposited(m, first, k) -> "not escrowed"
      [] \E i \in Party : alloc[i] \notin Scene.wants[i] \/ \E k \in alloc[i] : m.tickets[Id(first, k)].by # k -> "seats"
      [] ~(Scene.pays \subseteq m.allowed) -> "no capacity"
      [] OTHER -> "ok"

Reason(m, tx) == LET d == tx.label.do IN
    CASE tx.from \notin m.funded -> "no gas"
      [] d = "deposit" /\ (tx.from \notin m.approved \/ \E k \in Scene.offers[tx.label.n] : LET i == Id(tx.first, k) IN
            i \notin DOMAIN m.tickets \/ m.tickets[i].to # tx.from \/ m.tickets[i].escrowed) -> "not the owner's"
      [] d = "commit" /\ m.state[tx.label.n] # "none" -> "used"
      [] d = "settle" -> Problem(m, tx.first, tx.alloc)
      [] OTHER -> "ok"

Minted(m, who, k) == [m EXCEPT !.tickets = Append(@, [to |-> who, escrowed |-> FALSE, by |-> k])]

Settled(m, first, alloc) == [m EXCEPT
    !.state = [i \in Party |-> "settled"],
    !.tickets = [t \in DOMAIN @ |->
        IF \E k \in Tickets : t = Id(first, k)
        THEN [@[t] EXCEPT !.escrowed = FALSE, !.to = CHOOSE i \in Party : t - first + 1 \in alloc[i]]
        ELSE @[t]]]

Effect(m, tx) == LET n == tx.label.n IN
    IF Reason(m, tx) # "ok" THEN m ELSE
    CASE tx.label.do = "gas" -> [m EXCEPT !.funded = @ \cup {n}]
      [] tx.label.do = "mint" -> Minted(m, Holder(n), n)
      [] tx.label.do = "approve" -> [m EXCEPT !.approved = @ \cup {n}]
      [] tx.label.do = "deposit" -> [m EXCEPT !.tickets = [t \in DOMAIN @ |->
            IF \E k \in Scene.offers[n] : t = Id(tx.first, k) THEN [@[t] EXCEPT !.escrowed = TRUE] ELSE @[t]]]
      [] tx.label.do = "allow" -> [m EXCEPT !.allowed = @ \cup {n}]
      [] tx.label.do = "commit" -> [m EXCEPT !.state[n] = "live"]
      [] OTHER -> Settled(m, tx.first, tx.alloc)

market == blocks[Len(blocks)]

Init ==
    /\ InitJournal
    /\ blocks = << [tickets |-> <<>>, funded |-> {1}, approved |-> {}, allowed |-> {}, state |-> [i \in Party |-> "none"], time |-> 0] >>
    /\ inclusion = <<>> /\ outside = 0
    /\ at = [p \in Proc |-> 1] /\ record = NoTx

\* What others may make of the contracts: another ticket, or the settlement.
Tradable(m, f) == ~journal[f].absent /\ \A i \in Party : m.state[i] = "live"
Others(m, f) ==
    {Minted(m, a, 0) : a \in Strangers}
    \cup IF ~Tradable(m, f) THEN {} ELSE
        {Settled(m, journal[f].plan, a) : a \in {b \in Allocations : Problem(m, journal[f].plan, b) = "ok"}}

\* The next block may be one of a later time: a plan's deadline comes.
NextBlock(f) == {[market EXCEPT !.time = t] : t \in {u \in Times : u >= market.time /\ (journal[f].absent => u = 0)}}

Count(m, m1) == IF m = m1 THEN 0 ELSE 1

\* A block holds a transaction and, before or after it, somebody else's act.
NetworkMines == \E tx \in pool : \E m0 \in NextBlock(tx.file) :
    \E m1 \in {m0} \cup Others(m0, tx.file) : \E m3 \in {Effect(m1, tx)} \cup Others(Effect(m1, tx), tx.file) :
        /\ outside' = outside + Count(market, m0) + Count(m0, m1) + Count(Effect(m1, tx), m3) /\ outside' <= MaxOutside
        /\ Mine(tx, Reason(m1, tx) = "ok")
        /\ blocks' = Append(blocks, m3)
        /\ inclusion' = Append(inclusion, [block |-> Len(blocks) + 1, why |-> Reason(m1, tx)])
        /\ UNCHANGED sceneVars

\* Or none of the scripts' transactions.
OthersAct == \E f \in File : \E m0 \in NextBlock(f) : \E m \in {m0} \cup Others(m0, f) :
    /\ m # market /\ outside' = outside + Count(market, m0) + Count(m0, m) /\ outside' <= MaxOutside
    /\ blocks' = Append(blocks, m)
    /\ UNCHANGED <<journalVars, inclusion, sceneVars>>

-----------------------------------------------------------------------------
(* A run *)

StepSucceeded(j, l) == l \in DOMAIN j.steps /\ j.steps[l].status = "success"
Prepared(j) == Scene.skips /\ \A i \in Party : StepSucceeded(j, Label("commit", i))

\* From its deadline on the first two scenes refuse a plan that they have not settled.
Expired(j) == Scene.expires /\ ~j.absent /\ Final \notin DOMAIN j.steps /\ market.time > 0

\* With a public record there is nothing left to send; a run of an expired plan ends.
Begin(p) == LET j == journal[FileOf(p)] IN
    /\ phase[p] = "off" /\ record = NoTx /\ ~Expired(j)
    /\ held' = [held EXCEPT ![p] = j]
    /\ at' = [at EXCEPT ![p] = IF Final \in DOMAIN j.steps THEN Len(Program) + 2
                               ELSE IF Prepared(j) THEN Len(Program) + 1 ELSE 1]
    /\ Step(p, "ready")
    /\ UNCHANGED <<netVars, journal, req, faults, crashes, worldVars, record>>

\* The plan counts on the next ticket numbers.
MakePlan(p) ==
    /\ phase[p] = "ready" /\ held[p].absent
    /\ Save(p, [steps |-> <<>>, absent |-> FALSE, plan |-> Len(market.tickets) + 1, evidence |-> NoTrade])
    /\ UNCHANGED <<netVars, phase, req, faults, crashes, worldVars, sceneVars>>

AtItem(p) == phase[p] = "ready" /\ ~held[p].absent /\ at[p] # Len(Program) + 1

\* Balances, approvals and allowances are looked up; the rest is asked of the journal.
Satisfied(p, l) ==
    CASE l.do = "gas" -> l.n \in market.funded
      [] l.do = "approve" -> l.n \in market.approved
      [] l.do = "allow" -> l.n \in market.allowed
      [] OTHER -> FALSE

NextItem(p) == at' = [at EXCEPT ![p] = @ + 1]

PassOver(p, l) ==
    /\ Satisfied(p, l) /\ NextItem(p)
    /\ UNCHANGED <<journalVars, worldVars, record>>

Again(p, l) ==
    /\ ~Satisfied(p, l) /\ Resume(p, l)
    /\ UNCHANGED <<worldVars, sceneVars>>

\* In the third scene the buyers' pairs are mixed.
Buyers == {i \in Party : Scene.wants[i] # {{}}}
Altered(alloc) ==
    IF ~Scene.attack THEN alloc
    ELSE [i \in Party |-> IF i \notin Buyers THEN alloc[i]
                          ELSE IF \A j \in Buyers : i <= j THEN {1, 3} ELSE {2, 4}]

\* Nothing but who gets which of the tickets is altered.
InspectAttack(good, bad) ==
    /\ good # bad /\ UNION Range(bad) = UNION Range(good)
    /\ \A i \in Party : Cardinality(bad[i]) = Cardinality(good[i])

Transaction(p, l) ==
    [file |-> FileOf(p), label |-> l, from |-> Sender(l), nonce |-> Pending(Sender(l)),
     first |-> held[p].plan, alloc |-> IF l = Final THEN Altered(held[p].evidence) ELSE NoTrade]

\* What a simulation and a receipt must say.
Wanted(tx, why) == IF tx.label = Final /\ Scene.attack THEN why = "seats" ELSE why = "ok"

InPlace(p, l) == l.do = "mint" => Len(market.tickets) + 1 = Id(held[p].plan, l.n)

CanBeSigned(p, l) == InPlace(p, l) /\ Wanted(Transaction(p, l), Reason(market, Transaction(p, l)))

Request(p, l) ==
    /\ ~Satisfied(p, l) /\ CanBeSigned(p, l) /\ Prepare(p, Transaction(p, l))
    /\ UNCHANGED <<worldVars, sceneVars>>

Declined(p, l) ==
    /\ ~Satisfied(p, l) /\ l \notin DOMAIN Steps(p) /\ ~CanBeSigned(p, l)
    /\ Step(p, "failed")
    /\ UNCHANGED <<netVars, journal, held, req, faults, crashes, worldVars, sceneVars>>

TakesItem(p) ==
    /\ AtItem(p)
    /\ \E l \in {Item(p)} : PassOver(p, l) \/ Again(p, l) \/ Request(p, l) \/ Declined(p, l)

Transact(p) ==
    /\ \/ Sign(p) \/ Look(p) \/ Send(p) \/ Refused(p) \/ RequestFails(p)
    /\ UNCHANGED <<worldVars, sceneVars>>

Status(tx) == IF Succeeded(tx) THEN "success" ELSE "reverted"

\* A receipt that is not the expected one ends the run and is not kept.
Confirmed(p) ==
    /\ phase[p] \in {"look", "wait"} /\ Mined(req[p])
    /\ Status(req[p]) = IF req[p].label = Final /\ Scene.attack THEN "reverted" ELSE "success"
    /\ Save(p, [held[p] EXCEPT !.steps[req[p].label].status = Status(req[p])])
    /\ NextItem(p) /\ Step(p, IF req[p].label = Final THEN "audit" ELSE "ready")
    /\ UNCHANGED <<netVars, req, faults, crashes, worldVars, record>>

Unexpected(p) ==
    /\ phase[p] \in {"look", "wait"} /\ Mined(req[p])
    /\ Status(req[p]) # IF req[p].label = Final /\ Scene.attack THEN "reverted" ELSE "success"
    /\ Step(p, "failed")
    /\ UNCHANGED <<netVars, journal, held, req, faults, crashes, worldVars, sceneVars>>

EndsNeeded == Closed(Scene)

Found(p) == {a \in Allocations :
    /\ Problem(market, held[p].plan, a) = "ok"
    /\ Scene.attack => InspectAttack(a, Altered(a)) /\ Problem(market, held[p].plan, Altered(a)) = "seats"}

\* It is looked for until a transaction was signed.
ToSolve(p) == phase[p] = "ready" /\ ~held[p].absent /\ at[p] = Len(Program) + 1

\* With --prepare-only the run stops there.
Solve(p, stop) ==
    /\ ToSolve(p) /\ EndsNeeded
    /\ \E a \in Found(p) : Save(p, [held[p] EXCEPT !.evidence = a])
    /\ at' = [at EXCEPT ![p] = Len(Program) + 2]
    /\ Step(p, IF stop THEN "failed" ELSE "ready")
    /\ UNCHANGED <<netVars, req, faults, crashes, worldVars, record>>

NothingFound(p) ==
    /\ ToSolve(p) /\ (Found(p) = {} \/ ~EndsNeeded)
    /\ Step(p, "failed")
    /\ UNCHANGED <<netVars, journal, held, req, faults, crashes, worldVars, sceneVars>>

\* The blocks before and with a transaction, as its audit reads them.
BlockOf(tx) == inclusion[CHOOSE i \in DOMAIN chain : chain[i].tx = tx].block

\* The transaction succeeded and carried what was simulated.
ReceiptShows(tx, evidence) == Succeeded(tx) /\ tx.alloc = evidence

SettlementShown(tx) == LET before == blocks[BlockOf(tx) - 1]  after == blocks[BlockOf(tx)] IN
    /\ \A i \in Party : before.state[i] = "live" /\ after.state[i] = "settled"
    /\ \A k \in Tickets : LET t == after.tickets[Id(tx.first, k)] IN
        Deposited(before, tx.first, k) /\ ~t.escrowed /\ k \in tx.alloc[t.to]

RejectionShown(tx, control) == LET before == blocks[BlockOf(tx) - 1]  after == blocks[BlockOf(tx)] IN
    /\ ~Succeeded(tx) /\ InspectAttack(control, tx.alloc)
    /\ Problem(before, tx.first, control) = "ok" /\ Problem(before, tx.first, tx.alloc) = "seats"
    /\ \A i \in Party : before.state[i] = "live" /\ after.state[i] = "live"
    /\ \A k \in Tickets : Deposited(before, tx.first, k) /\ Deposited(after, tx.first, k)
    /\ before.allowed = after.allowed

Shown(p) == IF Scene.attack THEN RejectionShown(req[p], held[p].evidence)
            ELSE ReceiptShows(req[p], held[p].evidence) /\ SettlementShown(req[p])

Audit(p) ==
    /\ phase[p] = "audit"
    /\ record' = IF Shown(p) THEN req[p] ELSE record
    /\ Step(p, "failed")
    /\ UNCHANGED <<netVars, journal, held, req, faults, crashes, worldVars, at>>

\* The receipt is confirmed by the backend and read again; either may fail.
AuditFails(p) ==
    /\ phase[p] = "audit" /\ faults < MaxFaults /\ faults' = faults + 1
    /\ Step(p, "failed")
    /\ UNCHANGED <<netVars, journal, held, req, crashes, worldVars, sceneVars>>

Stops(p) ==
    /\ phase[p] = "failed" /\ Ends(p)
    /\ UNCHANGED <<netVars, journal, faults, crashes, worldVars, sceneVars>>

ProcessDies(p) == Dies(p) /\ UNCHANGED <<worldVars, sceneVars>>

Runs(p) ==
    \/ Begin(p) \/ MakePlan(p) \/ TakesItem(p) \/ Transact(p)
    \/ Confirmed(p) \/ Unexpected(p) \/ (\E stop \in BOOLEAN : Solve(p, stop)) \/ NothingFound(p) \/ Audit(p) \/ AuditFails(p) \/ Stops(p)

Next ==
    \/ \E p \in Proc : Runs(p) \/ ProcessDies(p)
    \/ NetworkMines \/ OthersAct

Spec == Init /\ [][Next]_vars

\* Requests answer, transactions are mined, and the operator runs the script
\* again and again, not only with --prepare-only.
FairSpec ==
    /\ Spec /\ WF_vars(NetworkMines)
    /\ \A p \in Proc : WF_vars(Runs(p)) /\ SF_vars(Solve(p, FALSE))

-----------------------------------------------------------------------------
(* Properties *)

TypeOK ==
    /\ phase \in [Proc -> {"off", "ready", "prepared", "look", "send", "wait", "audit", "failed"}]
    /\ at \in [Proc -> 1 .. Len(Program) + 3]
    /\ \A f \in File : journal[f].absent \/ DOMAIN journal[f].steps \subseteq Range(Program) \cup {Final}
    /\ Len(inclusion) = Len(chain) /\ \A i \in DOMAIN inclusion : inclusion[i].block \in 2 .. Len(blocks)

\* An intent of a scene is live only while its tickets are in escrow, although
\* its hash names tickets that did not exist when it was planned and others may
\* mint meanwhile (act-one.mjs:119, 127).
OffersBacked == \A f \in File : journal[f].absent \/ \A i \in Party :
    market.state[i] = "live" => \A k \in Scene.offers[i] : Deposited(market, journal[f].plan, k)

\* A recorded rejection was one for the seats: nothing else in its block can have
\* caused it (act-three-proof.mjs:84-108), but that the deadline passed with it, which
\* the block before does not show and a receipt does not say.
RejectedForSeats == record # NoTx =>
    \E i \in DOMAIN chain : chain[i].tx = record /\ inclusion[i].why \in
        {"seats"} \cup (IF blocks[inclusion[i].block - 1].time < 2 THEN {"expired"} ELSE {})

\* The tickets a scene mints are the planned ones (the assertion "Ticket
\* inventory changed during setup", act-one.mjs:119).
MintsPlanned == \A f \in File : \A l \in DOMAIN journal[f].steps :
    l.do = "mint" /\ journal[f].steps[l].status = "success" =>
        market.tickets[Id(journal[f].plan, l.n)].by = l.n

\* If nobody interferes, a scene that is run again is recorded in the end, or its
\* deadline has come.
Recorded == record # NoTx
SceneEnds == <>(Recorded \/ outside > 0)
=============================================================================
