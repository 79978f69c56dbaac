------------------------------- MODULE Rounds -------------------------------
(***************************************************************************)
(* The repeated settlements of the same tickets by the same wallets        *)
(* (scripts/settle-arc-ten.mjs), with the receipt route that confirms them *)
(* (app/api/evidence/[id]/receipt).  Round after round every wallet offers *)
(* what it has for what the next one has; the backend searches, the        *)
(* operator settles and has it confirmed.  One more round is left for      *)
(* visitors.  The script has one journal and no lock: one run at a time.   *)
(* Every wallet has one ticket here, and everything is event 1; amounts    *)
(* and what the solver tries (Solver) are left out.                        *)
(***************************************************************************)
EXTENDS Journal

CONSTANTS
    Parties,        \* how many wallets: 1 is the operator
    Planned,           \* how many rounds are settled
    Seeded,         \* whether the intents of the deployment are still live
    MaxTrades       \* bound: exchanges that somebody else settles
RoundsAssumption ==
    /\ Parties \in Nat \ {0, 1} /\ Planned \in Nat \ {0} /\ MaxTrades \in Nat
    /\ Seeded \in BOOLEAN /\ Account = 1 .. Parties

VARIABLES
    tickets,        \* number -> who has it, and whether it is in escrow
    state,          \* the intents ever committed -> "live" or "settled"
    allowed,        \* wallets whose payment is allowed
    at,             \* the round, what is done in it, and the wallet it is done for
    files,          \* the rounds that have a file under deployments/settlements
    ready,          \* the intents that deployments/demo-ready.json names
    trades

marketVars == <<tickets, state, allowed>>
scriptVars == <<at, files, ready>>
vars == <<journalVars, marketVars, scriptVars, trades>>

Party == 1 .. Parties
Neighbour(i) == (i % Parties) + 1
Group(has, nonce) == {[owner |-> i, gives |-> has[i], wants |-> has[Neighbour(i)], nonce |-> nonce[i]] : i \in Party}
Seed == Group([i \in Party |-> i], [i \in Party |-> 0])

Init ==
    /\ InitJournal
    /\ tickets = [i \in Party |-> [owner |-> i, escrowed |-> Seeded]]
    /\ state = IF Seeded THEN [x \in Seed |-> "live"] ELSE <<>>
    /\ allowed = IF Seeded THEN Party ELSE {}
    /\ at = [round |-> 1, do |-> "record", n |-> 1] /\ files = {} /\ ready = {} /\ trades = 0

-----------------------------------------------------------------------------
(* The chain *)

StateOf(x) == IF x \in DOMAIN state THEN state[x] ELSE "none"
UsedNonce(i, n) == \E x \in DOMAIN state : x.owner = i /\ x.nonce = n
Executable(xs) ==
    /\ \A x \in xs : StateOf(x) = "live" /\ x.owner \in allowed
    /\ \A x \in xs : tickets[x.gives] = [owner |-> x.owner, escrowed |-> TRUE]

Works(tx) ==
    CASE tx.label.do = "deposit" -> \A x \in tx.args : tickets[x.gives] = [owner |-> x.owner, escrowed |-> FALSE]
      [] tx.label.do = "commit" -> \A x \in tx.args : ~UsedNonce(x.owner, x.nonce)
      [] tx.label.do = "settle" -> Executable(tx.args)
      [] OTHER -> TRUE

SettledState(xs) == [x \in DOMAIN state |-> IF x \in xs THEN "settled" ELSE state[x]]
SettledTickets(xs) == [id \in DOMAIN tickets |->
    IF \E x \in xs : x.wants = id THEN [owner |-> (CHOOSE x \in xs : x.wants = id).owner, escrowed |-> FALSE] ELSE tickets[id]]

Effect(tx) == LET does(kind) == Works(tx) /\ tx.label.do = kind IN
    /\ tickets' = IF does("settle") THEN SettledTickets(tx.args)
                  ELSE [id \in DOMAIN tickets |-> IF does("deposit") /\ \E x \in tx.args : x.gives = id
                                                  THEN [tickets[id] EXCEPT !.escrowed = TRUE] ELSE tickets[id]]
    /\ state' = IF does("settle") THEN SettledState(tx.args)
                ELSE (IF does("commit") THEN [x \in tx.args |-> "live"] ELSE <<>>) @@ state
    /\ allowed' = allowed \cup (IF does("allow") THEN {tx.from} ELSE {})

NetworkMines == \E tx \in pool :
    /\ Mine(tx, Works(tx)) /\ Effect(tx)
    /\ UNCHANGED <<scriptVars, trades>>

KeptRounds == UNION {Range(journal[f].rounds) : f \in {g \in File : ~journal[g].absent}}

\* Anybody may settle what can be executed.
OthersTrade == \E r \in KeptRounds : LET xs == r.intents IN
    /\ Executable(xs) /\ trades < MaxTrades /\ trades' = trades + 1
    /\ state' = SettledState(xs) /\ tickets' = SettledTickets(xs)
    /\ UNCHANGED <<journalVars, allowed, scriptVars>>

-----------------------------------------------------------------------------
(* A round *)

Round(p) == held[p].rounds[at.round]
Goes(where) == at' = [at EXCEPT !.do = where, !.n = 1]
Fails(p) == Step(p, "failed") /\ UNCHANGED <<journal, held, scriptVars>>
Idle == UNCHANGED <<netVars, req, faults, crashes, marketVars, trades>>

Begin(p) ==
    /\ phase[p] = "off" /\ Step(p, "ready")
    /\ held' = [held EXCEPT ![p] = IF journal[FileOf(p)].absent THEN [steps |-> <<>>, absent |-> FALSE, rounds |-> <<>>] ELSE journal[FileOf(p)]]
    /\ at' = [round |-> 1, do |-> "record", n |-> 1]
    /\ UNCHANGED <<netVars, journal, req, faults, crashes, marketVars, files, ready, trades>>

Keep(p, round) == Save(p, [held[p] EXCEPT !.rounds = Extend(@, at.round, round)])
FreshNonce(i) == CHOOSE n \in at.round - 1 .. at.round + Cardinality(DOMAIN state) :
    ~UsedNonce(i, n) /\ \A m \in at.round - 1 .. n - 1 : UsedNonce(i, m)
NewRound(intents, existing) == [intents |-> intents, existing |-> existing, prepared |-> FALSE, evidence |-> "none", confirmed |-> NoTx]

\* The intents of a round are kept before anything is sent for them.
MakeRecord(p) ==
    /\ phase[p] = "ready" /\ at.do = "record"
    /\ LET has == [i \in Party |-> {id \in DOMAIN tickets : tickets[id] = [owner |-> i, escrowed |-> FALSE]}]
           seed == at.round = 1 /\ Seeded /\ \A x \in Seed : StateOf(x) = "live"
       IN  IF at.round \in DOMAIN held[p].rounds THEN Goes("prepare") /\ UNCHANGED <<journal, held, phase, files, ready>>
           ELSE IF seed \/ \A i \in Party : Cardinality(has[i]) = 1
           THEN /\ Keep(p, NewRound(IF seed THEN Seed
                    ELSE Group([i \in Party |-> CHOOSE id \in has[i] : TRUE], [i \in Party |-> FreshNonce(i)]), seed))
                /\ Goes("prepare") /\ UNCHANGED <<phase, files, ready>>
           ELSE Fails(p)
    /\ Idle

Prepared(p) == Round(p).existing \/ Round(p).prepared \/ at.n > 3 * Parties

KeepPrepared(p) ==
    /\ phase[p] = "ready" /\ at.do = "prepare" /\ Prepared(p)
    /\ Keep(p, [Round(p) EXCEPT !.prepared = TRUE])
    /\ Goes(IF at.round > Planned THEN "publish" ELSE IF Round(p).confirmed # NoTx THEN "file" ELSE "solve")
    /\ Idle /\ UNCHANGED <<phase, files, ready>>

-----------------------------------------------------------------------------
(* The transactions of a round *)

Wallet == ((at.n - 1) \div 3) + 1
Do == IF at.do = "settle" THEN "settle" ELSE <<"deposit", "allow", "commit">>[((at.n - 1) % 3) + 1]
Label == [round |-> at.round, do |-> Do, of |-> IF at.do = "settle" THEN 1 ELSE Wallet]
Sender == IF Do \in {"deposit", "allow"} THEN Wallet ELSE 1
Transaction(p) == [file |-> FileOf(p), label |-> Label, from |-> Sender, nonce |-> Pending(Sender),
    args |-> IF Do = "settle" THEN Round(p).intents ELSE {x \in Round(p).intents : x.owner = Wallet}]

AtTransaction(p) == phase[p] = "ready" /\ (at.do = "settle" \/ (at.do = "prepare" /\ ~Prepared(p)))

\* A step the journal has is looked up again; a new one is simulated first.
Transact(p) ==
    /\ \/ AtTransaction(p) /\ Resume(p, Label)
       \/ AtTransaction(p) /\ Works(Transaction(p)) /\ Prepare(p, Transaction(p))
       \/ Sign(p) \/ Look(p) \/ Send(p) \/ Refused(p) \/ RequestFails(p)
    /\ UNCHANGED <<marketVars, scriptVars, trades>>

Declined(p) ==
    /\ AtTransaction(p) /\ Label \notin DOMAIN Steps(p) /\ ~Works(Transaction(p)) /\ Fails(p)
    /\ Idle

Confirmed(p) ==
    /\ phase[p] \in {"look", "wait"} /\ Succeeded(req[p])
    /\ Save(p, [held[p] EXCEPT !.steps[req[p].label].status = "success"])
    /\ IF at.do = "settle" THEN Goes("confirm") ELSE at' = [at EXCEPT !.n = @ + 1]
    /\ Step(p, "ready") /\ UNCHANGED <<netVars, req, faults, crashes, marketVars, files, ready, trades>>

\* A step that was reverted stays in the journal, without its receipt.
Reverted(p) ==
    /\ phase[p] \in {"look", "wait"} /\ Mined(req[p]) /\ ~Succeeded(req[p]) /\ Fails(p)
    /\ Idle

\* The search is repeated until its settlement is signed.
Solve(p) ==
    /\ phase[p] = "ready" /\ at.do = "solve"
    /\ LET signed == [round |-> at.round, do |-> "settle", of |-> 1] \in DOMAIN Steps(p)
           found == IF Round(p).evidence # "none" /\ signed THEN Round(p).evidence
                    ELSE IF Executable(Round(p).intents) THEN "found" ELSE "nothing"
       IN  /\ Keep(p, [Round(p) EXCEPT !.evidence = found])
           /\ IF found = "found" THEN Goes("settle") /\ UNCHANGED phase ELSE Step(p, "failed") /\ UNCHANGED at
    /\ Idle /\ UNCHANGED <<files, ready>>

\* The tickets must be with their receivers still when it is confirmed, and the
\* route looks at the transaction itself.
Confirm(p) == LET tx == Steps(p)[[round |-> at.round, do |-> "settle", of |-> 1]].tx IN
    /\ phase[p] = "ready" /\ at.do = "confirm"
    /\ IF /\ \A x \in Round(p).intents : StateOf(x) = "settled" /\ tickets[x.wants].owner = x.owner
          /\ Succeeded(tx) /\ tx.args = Round(p).intents
       THEN Keep(p, [Round(p) EXCEPT !.confirmed = tx]) /\ Goes("file") /\ UNCHANGED <<phase, files, ready>>
       ELSE Fails(p)
    /\ Idle

WriteFile(p) ==
    /\ phase[p] = "ready" /\ at.do = "file" /\ files' = files \cup {at.round}
    /\ at' = [round |-> at.round + 1, do |-> "record", n |-> 1]
    /\ Idle /\ UNCHANGED <<journal, held, phase, ready>>

Publish(p) ==
    /\ phase[p] = "ready" /\ at.do = "publish" /\ ready' = Round(p).intents
    /\ Step(p, "failed")
    /\ Idle /\ UNCHANGED <<journal, held, at, files>>

Stops(p) == phase[p] = "failed" /\ Ends(p) /\ UNCHANGED <<netVars, journal, faults, crashes, marketVars, scriptVars, trades>>
ProcessDies(p) == Dies(p) /\ UNCHANGED <<marketVars, scriptVars, trades>>

Run(p) ==
    \/ Begin(p) \/ MakeRecord(p) \/ KeepPrepared(p) \/ Transact(p) \/ Declined(p) \/ Confirmed(p) \/ Reverted(p)
    \/ Solve(p) \/ Confirm(p) \/ WriteFile(p) \/ Publish(p) \/ Stops(p)
Next == (\E p \in Proc : Run(p) \/ ProcessDies(p)) \/ NetworkMines \/ OthersTrade

Spec == Init /\ [][Next]_vars
FairSpec == Spec /\ (\A p \in Proc : WF_vars(Run(p))) /\ WF_vars(NetworkMines)

-----------------------------------------------------------------------------
(* Properties *)

TypeOK ==
    /\ phase \in [Proc -> {"off", "ready", "prepared", "look", "send", "wait", "failed"}]
    /\ at.do \in {"record", "prepare", "solve", "settle", "confirm", "file", "publish"}
    /\ at.round \in 1 .. Planned + 1 /\ at.n \in 1 .. 3 * Parties + 1
    /\ files \subseteq 1 .. Planned
    /\ \A r \in KeptRounds : r.prepared => r.intents \subseteq DOMAIN state

\* Run again and again, all rounds are settled, confirmed and filed, and the
\* demonstration gets its round, unless somebody else settled one of them: the
\* script confirms only its own transaction.
AllSettled == files = 1 .. Planned /\ ready # {}
RoundsEnd == <>(AllSettled \/ trades > 0)

\* When the script publishes the round it leaves for the demonstration, that
\* round is live (settle-arc-ten.mjs:145, "Round 11 is LIVE for the demo").
LeavesRoundLive == \A p \in Proc :
    at.do = "publish" /\ phase[p] = "ready" => \A x \in Round(p).intents : StateOf(x) = "live"
=============================================================================
