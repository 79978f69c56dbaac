------------------------------ MODULE DemoSeed ------------------------------
(***************************************************************************)
(* Preparing the shared demonstration (scripts/prepare-demo.mjs,           *)
(* script/SeedDemo.s.sol, scripts/lib/demo-state.mjs).  A plan file is     *)
(* written; a forge script works out from the chain which transactions are *)
(* still missing and sends them one by one; when solver and simulation     *)
(* pass, the manifest is replaced and the plan removed.  A run that fails  *)
(* or is killed is followed by another, which resumes from the chain.      *)
(* Every wallet has one ticket here; gas and amounts are left out, and a   *)
(* transaction is mined or lost before the next run starts.                *)
(***************************************************************************)
EXTENDS Integers, SequencesExt

CONSTANTS
    Parties,       \* how many wallets: 1 is the operator
    Seeded,        \* whether the deployment was seeded with tickets and intents
    Life, Spare,   \* how long a plan's intents last, and what must be left of them
    Margin,        \* a plan that has no more than this left is not resumed (an hour)
    MaxNow, MaxFails, MaxTrades  \* bounds: time, runs that end early, settlements
DemoSeedAssumption ==
    /\ {Parties, Life, Spare, Margin, MaxNow, MaxFails, MaxTrades} \subseteq Nat /\ Parties >= 2
    /\ Life > Spare /\ Spare > Margin /\ Seeded \in BOOLEAN

VARIABLES
    tickets,       \* number -> who has it, and whether it is in escrow
    state,         \* the intents ever committed -> "live", "revoked" or "settled"
    approved,      \* wallets that let the escrow move their tickets
    allowed,       \* whether the operator's payment is allowed
    now, trades,
    manifest,      \* the intents that deployments/demo-ready.json names
    plan,          \* .data/demo-seed-plan.json
    phase, queue,  \* the run, and the transactions forge has still to send
    fails,
    cleared        \* history: the intents of the plans the operator cleared

chainVars == <<tickets, state, approved, allowed>>
fileVars == <<manifest, plan>>
vars == <<chainVars, fileVars, now, trades, phase, queue, fails, cleared>>

Party == 1 .. Parties
NoPlan == [none |-> TRUE]

-----------------------------------------------------------------------------
(* Plans and intents *)

\* Everybody wants the ticket of the next.
Intent(pl, i) == [owner |-> i, gives |-> pl.ids[i], wants |-> pl.ids[(i % Parties) + 1], nonce |-> pl.nonces[i], deadline |-> pl.deadline]
Intents(pl) == {Intent(pl, i) : i \in Party}

FirstSeed == [ids |-> [i \in Party |-> i], nonces |-> [i \in Party |-> 0], deadline |-> 1]

Init ==
    /\ tickets = IF Seeded THEN [i \in Party |-> [owner |-> i, escrowed |-> TRUE]] ELSE <<>>
    /\ state = IF Seeded THEN [x \in Intents(FirstSeed) |-> "live"] ELSE <<>>
    /\ approved = IF Seeded THEN Party ELSE {}
    /\ allowed = Seeded /\ now = 0 /\ trades = 0
    /\ manifest = {} /\ plan = NoPlan /\ phase = "off" /\ queue = <<>> /\ fails = 0 /\ cleared = {}

StateOf(x) == IF x \in DOMAIN state THEN state[x] ELSE "none"
UsedNonce(i, n) == \E x \in DOMAIN state : x.owner = i /\ x.nonce = n
FreshNonce(i) == CHOOSE n \in 0 .. Cardinality(DOMAIN state) : ~UsedNonce(i, n) /\ \A m \in 0 .. n - 1 : UsedNonce(i, m)

Deposited(id, i) == id \in DOMAIN tickets /\ tickets[id].escrowed /\ tickets[id].owner = i
Executable(xs) ==
    /\ allowed
    /\ \A x \in xs : StateOf(x) = "live" /\ x.deadline >= now /\ Deposited(x.gives, x.owner)

\* The solver finds the exchange of all, and its simulation passes.
Ready(xs) == xs # {} /\ Executable(xs)

Old == IF manifest # {} THEN manifest ELSE IF Seeded THEN Intents(FirstSeed) ELSE {}

-----------------------------------------------------------------------------
(* A run *)

Ends == phase' = "off" /\ queue' = <<>>

Good == Ready(manifest) /\ \A x \in manifest : x.deadline > now + Spare

\* Nothing to do: a plan that the manifest carries out already is removed.
Reuses ==
    /\ phase = "off" /\ Good /\ plan # NoPlan
    /\ plan' = IF Intents(plan) = manifest THEN NoPlan ELSE plan
    /\ UNCHANGED <<chainVars, manifest, now, trades, phase, queue, fails, cleared>>

Begins ==
    /\ phase = "off" /\ ~Good
    /\ phase' = "planning"
    /\ UNCHANGED <<chainVars, fileVars, now, trades, queue, fails, cleared>>

\* "Pending seed plan expired": up to an hour before its intents' deadline.
GivenUp(pl) == pl.deadline <= now + Margin

Resumes ==
    /\ phase = "planning" /\ plan # NoPlan
    /\ IF ~GivenUp(plan) THEN phase' = "forge" /\ UNCHANGED queue ELSE Ends
    /\ UNCHANGED <<chainVars, fileVars, now, trades, fails, cleared>>

\* The old tickets are used again by whoever has them now; without any, new
\* ones are planned.
Pool == {x.gives : x \in Old}
Has(i) == {id \in Pool : tickets[id].owner = i}

MakePlan ==
    /\ phase = "planning" /\ plan = NoPlan
    /\ IF \A i \in Party : Pool = {} \/ Cardinality(Has(i)) = 1
       THEN /\ plan' = [ids |-> [i \in Party |-> IF Pool = {} THEN Len(tickets) + i ELSE CHOOSE id \in Has(i) : TRUE],
                        nonces |-> [i \in Party |-> FreshNonce(i)],
                        previous |-> Old, deadline |-> now + Life, mintNew |-> Pool = {}]
            /\ phase' = "forge" /\ UNCHANGED queue
       ELSE Ends /\ UNCHANGED plan
    /\ UNCHANGED <<chainVars, manifest, now, trades, fails, cleared>>

-----------------------------------------------------------------------------
(* The forge script *)

Tx(kind, x) == [do |-> kind, arg |-> x]
When(cond, tx) == IF cond THEN <<tx>> ELSE <<>>

Usable ==
    /\ plan.deadline > now
    /\ \A i \in Party : LET id == plan.ids[i] IN
        IF id \in DOMAIN tickets THEN tickets[id].owner = i ELSE plan.mintNew
    /\ \A x \in Intents(plan) :
        /\ StateOf(x) \in {"none", "live"}
        /\ StateOf(x) = "none" => ~UsedNonce(x.owner, x.nonce)

Mints == FlattenSeq([i \in Party |-> When(plan.ids[i] \notin DOMAIN tickets, Tx("mint", i))])
Revokes == SetToSeq({Tx("revoke", x) : x \in {y \in plan.previous : StateOf(y) = "live"}})


Missing(i) ==
    When(i \notin approved, Tx("approve", i))
    \o When(~Deposited(plan.ids[i], i), Tx("deposit", [id |-> plan.ids[i], by |-> i]))
    \o When(i = 1 /\ ~allowed, Tx("allow", i))
    \o When(StateOf(Intent(plan, i)) = "none", Tx("commit", Intent(plan, i)))

Transactions == Mints \o Revokes \o FlattenSeq([i \in Party |-> Missing(i)])

\* The whole script is simulated before anything is sent.
ForgeSimulates ==
    /\ phase = "forge"
    /\ IF Usable THEN queue' = Transactions /\ phase' = "send" ELSE Ends
    /\ UNCHANGED <<chainVars, fileVars, now, trades, fails, cleared>>

Works(tx) ==
    CASE tx.do = "deposit" -> tx.arg.by \in approved /\ tickets[tx.arg.id].owner = tx.arg.by /\ ~tickets[tx.arg.id].escrowed
      [] tx.do = "commit" -> ~UsedNonce(tx.arg.owner, tx.arg.nonce)
      [] tx.do = "revoke" -> StateOf(tx.arg) = "live"
      [] OTHER -> TRUE

ForgeSends ==
    /\ phase = "send" /\ queue # <<>>
    /\ LET tx == Head(queue) IN IF ~Works(tx) THEN Ends /\ UNCHANGED chainVars ELSE
        /\ tickets' = CASE tx.do = "mint" -> Append(tickets, [owner |-> tx.arg, escrowed |-> FALSE])
                        [] tx.do = "deposit" -> [tickets EXCEPT ![tx.arg.id].escrowed = TRUE]
                        [] OTHER -> tickets
        /\ state' = CASE tx.do = "commit" -> (tx.arg :> "live") @@ state
                      [] tx.do = "revoke" -> [state EXCEPT ![tx.arg] = "revoked"]
                      [] OTHER -> state
        /\ approved' = IF tx.do = "approve" THEN approved \cup {tx.arg} ELSE approved
        /\ allowed' = (allowed \/ tx.do = "allow")
        /\ queue' = Tail(queue) /\ UNCHANGED phase
    /\ UNCHANGED <<fileVars, now, trades, fails, cleared>>

-----------------------------------------------------------------------------
(* The end of a run *)

Publishes ==
    /\ phase = "send" /\ queue = <<>>
    /\ IF Ready(Intents(plan)) THEN manifest' = Intents(plan) /\ phase' = "unlink" /\ UNCHANGED queue
       ELSE Ends /\ UNCHANGED manifest
    /\ UNCHANGED <<chainVars, plan, now, trades, fails, cleared>>

Unlinks ==
    /\ phase = "unlink" /\ plan' = NoPlan /\ Ends
    /\ UNCHANGED <<chainVars, manifest, now, trades, fails, cleared>>

\* A request fails or the process is killed, forge's included.
Fails ==
    /\ phase # "off" /\ fails < MaxFails /\ fails' = fails + 1 /\ Ends
    /\ UNCHANGED <<chainVars, fileVars, now, trades, cleared>>

\* The message about an expired plan tells the operator to inspect and clear it;
\* nothing revokes what was committed of it.
OperatorClears ==
    /\ phase = "off" /\ plan # NoPlan /\ GivenUp(plan) /\ plan' = NoPlan
    /\ cleared' = cleared \cup Intents(plan)
    /\ UNCHANGED <<chainVars, manifest, now, trades, phase, queue, fails>>

-----------------------------------------------------------------------------
(* The others *)

\* Live intents, one of every wallet, that exchange their tickets; of one plan or of
\* several.
Exchanges == {xs \in kSubset(Parties, {x \in DOMAIN state : state[x] = "live"}) :
    {x.owner : x \in xs} = Party /\ {x.gives : x \in xs} = {x.wants : x \in xs}}

\* Anybody may settle an exchange that can be executed.
Trade == \E xs \in Exchanges :
    /\ Executable(xs) /\ trades < MaxTrades /\ trades' = trades + 1
    /\ state' = [x \in DOMAIN state |-> IF x \in xs THEN "settled" ELSE state[x]]
    /\ tickets' = [id \in DOMAIN tickets |->
        IF \E x \in xs : x.wants = id THEN [owner |-> (CHOOSE x \in xs : x.wants = id).owner, escrowed |-> FALSE] ELSE tickets[id]]
    /\ UNCHANGED <<approved, allowed, fileVars, now, phase, queue, fails, cleared>>

Tick == now < MaxNow /\ now' = now + 1 /\ UNCHANGED <<chainVars, fileVars, trades, phase, queue, fails, cleared>>

Run == Reuses \/ Begins \/ Resumes \/ MakePlan \/ ForgeSimulates \/ ForgeSends \/ Publishes \/ Unlinks
Next == Run \/ Fails \/ OperatorClears \/ Trade \/ Tick

Spec == Init /\ [][Next]_vars
FairSpec == Spec /\ WF_vars(Run) /\ SF_vars(OperatorClears)

-----------------------------------------------------------------------------
(* Properties *)

TypeOK ==
    /\ phase \in {"off", "planning", "forge", "send", "unlink"}
    /\ \A id \in DOMAIN tickets : tickets[id].owner \in Party /\ tickets[id].escrowed \in BOOLEAN
    /\ Range(state) \subseteq {"live", "revoked", "settled"}
    /\ approved \subseteq Party /\ manifest \subseteq DOMAIN state
    /\ phase \in {"forge", "send"} => plan # NoPlan
    /\ phase = "unlink" => plan # NoPlan /\ manifest = Intents(plan)

\* No ticket is offered by two live intents: before new ones are committed the old are
\* revoked, over any number of interrupted runs (SeedDemo.s.sol:135-145).  Intents of
\* a plan that the operator cleared are excepted: nothing revokes them, and they may be
\* live for another hour (prepare-demo.mjs:73).
OfferedOnce == \A x, y \in DOMAIN state \ cleared :
    x # y /\ state[x] = "live" /\ state[y] = "live" => x.gives # y.gives

\* Every live intent of the wallets is known to the files, so that a later run can use
\* or revoke it (prepare-demo.mjs:99, 118-120), with the same exception.
NoneForgotten == \A x \in DOMAIN state \ cleared :
    state[x] = "live" => x \in Old \/ (plan # NoPlan /\ x \in Intents(plan))

\* A plan that is called expired is over: none of its intents can be settled any more
\* (prepare-demo.mjs:73, "Pending seed plan expired").  This does not hold in the last
\* hour.
ExpiredIsOver == \A x \in cleared : StateOf(x) = "live" => x.deadline < now

\* A saved plan can be carried out ("then rerun this command to resume",
\* prepare-demo.mjs:112).  This does not hold once its tickets were traded.
Resumable == plan # NoPlan /\ phase = "off" => \A x \in Intents(plan) : StateOf(x) \in {"none", "live"}

\* Run again and again, the demonstration is ready again and again, unless others
\* settled an exchange with the tickets of a saved plan: this plan cannot be carried out
\* any more, and keeps every run from making another one (SeedDemo.s.sol:92, 131).
DemoSet == Good /\ plan = NoPlan
Overtaken == plan # NoPlan /\ \E i \in Party : LET id == plan.ids[i] IN
    id \in DOMAIN tickets /\ tickets[id].owner # i
DemoReady == []<>(DemoSet \/ Overtaken)
=============================================================================
