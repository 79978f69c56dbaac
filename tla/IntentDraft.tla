---------------------------- MODULE IntentDraft ----------------------------
(***************************************************************************)
(* Drafting an intent in the browser (src/component/market/                *)
(* IntentBuilder.tsx with sign, custody and depositSelected of             *)
(* Market.tsx): two steps of controls, tickets offered from a snapshot of  *)
(* the market, a payment limit derived from them, and the transactions the *)
(* draft ends in, each after reads of the chain.  Meanwhile the wallet may *)
(* switch accounts, time passes, and the same account acts elsewhere.      *)
(***************************************************************************)
EXTENDS Integers, FiniteSets, FiniteSetsExt

CONSTANTS
    Account, Nobody,   \* wallets; no wallet is connected
    Ticket,
    First(_),          \* who holds a ticket at first
    Section, Price(_), \* sections, and the reference price of each
    Place(_),          \* the section of a ticket
    Session, Cutoff(_),\* sessions, and when swapping for each closes
    MaxCount,          \* at most so many tickets are wanted
    MaxNow,            \* bound: time
    MaxNonce,          \* bound: nonces
    MaxOutside,        \* bound: steps of others
    MaxEdits           \* bound: edits and account switches
DraftAssumption ==
    /\ Nobody \notin Account /\ Ticket # {} /\ Section # {} /\ Session # {}
    /\ MaxCount >= 2 /\ {MaxNow, MaxNonce, MaxOutside, MaxEdits} \subseteq Nat

Nonce == 0 .. MaxNonce
\* The payment limits of the drafts.
NoIntent == [owner |-> Nobody]
NoJob == [op |-> ""]

VARIABLES
    custody,       \* ticket -> its holder and whether it is in escrow
    used,          \* the nonces taken, with their owners
    recorded,      \* those of them the index knows
    approvals,     \* who lets the escrow move tickets
    allowance,     \* account -> what the settlement may charge
    now,
    account,       \* the wallet that is selected
    seen,          \* the market snapshot: custody, recorded nonces, time
    indexing,      \* a confirmed write is waited for
    draft, prepared, step, reached,   \* the builder
    job,           \* the action under way
    outside, edits,
    disturbed,     \* others did something since the action began
    wasted         \* a transaction was sent that the chain refuses or that cannot trade

chainVars == <<custody, used, recorded, approvals, allowance, now>>
pageVars == <<account, seen, indexing>>
builderVars == <<draft, prepared, step, reached>>
vars == <<chainVars, pageVars, builderVars, job, outside, edits, disturbed, wasted>>

Snapshot == [custody |-> custody, recorded |-> recorded, now |-> now]
Least(S) == CHOOSE x \in S : \A y \in S : x <= y

\* initialIntent: two seats next to each other, in the first session and section.
NewDraft == [offered |-> {}, count |-> 2, adjacent |-> TRUE,
             session |-> Least(Session), section |-> Least(Section)]

Init ==
    /\ custody = [t \in Ticket |-> [holder |-> First(t), escrowed |-> FALSE]]
    /\ used \in {{}, Account \X {0}} /\ recorded = {}
    /\ approvals = {} /\ allowance = [a \in Account |-> 0]
    /\ now = 0
    /\ account \in Account \cup {Nobody}
    /\ seen = Snapshot /\ indexing = FALSE
    /\ draft = NewDraft
    /\ prepared = NoIntent /\ step = 1 /\ reached = 1
    /\ job = NoJob /\ outside = 0 /\ edits = 0
    /\ disturbed = FALSE /\ wasted = FALSE

-----------------------------------------------------------------------------
(* What the page derives *)

busy == job # NoJob \/ indexing
Positions == IF account = Nobody THEN {} ELSE {t \in Ticket : seen.custody[t].holder = account}

\* The nonce after the largest the index has recorded for an account.
NextRecorded(a) == Max({0} \cup {n + 1 : n \in {m \in Nonce : <<a, m>> \in seen.recorded}})

\* The intent that was prepared for this account, else the draft.
Saved ==
    IF prepared # NoIntent /\ prepared.owner = account THEN prepared
    ELSE [draft |-> draft, owner |-> account]

Offered == Saved.draft.offered \cap Positions

\* The payment that the reference prices give.
Quote == Price(Saved.draft.section) * Saved.draft.count - MapThenSumSet(LAMBDA t : Price(Place(t)), Offered)

Intent == [draft |-> [Saved.draft EXCEPT !.offered = Offered], owner |-> Saved.owner]
ToDeposit == {t \in Offered : ~seen.custody[t].escrowed}
TimingUnavailable == Cutoff(Intent.draft.session) <= seen.now

-----------------------------------------------------------------------------
(* The controls *)

On(n) == step = n /\ edits < MaxEdits

\* An edit drops what was prepared from the draft before it.
Update(d) ==
    /\ draft' = d
    /\ prepared' = NoIntent
    /\ edits' = edits + 1
    /\ UNCHANGED <<chainVars, pageVars, step, reached, job, outside, disturbed, wasted>>

Fewer ==
    /\ On(1) /\ Intent.draft.count > 1
    /\ Update([draft EXCEPT !.count = Intent.draft.count - 1,
                            !.adjacent = IF Intent.draft.count = 2 THEN FALSE ELSE draft.adjacent])

More ==
    /\ On(1) /\ Intent.draft.count < MaxCount
    /\ Update([draft EXCEPT !.count = Intent.draft.count + 1,
                            !.adjacent = IF Intent.draft.count = 1 THEN TRUE ELSE draft.adjacent])

\* Seats are next to each other only when there are two.
Adjacent ==
    /\ On(1)
    /\ LET on == ~Intent.draft.adjacent IN
       Update([draft EXCEPT !.adjacent = on, !.count = IF on /\ Intent.draft.count < 2 THEN 2 ELSE draft.count])

ChooseSession(s) == On(1) /\ s # Intent.draft.session /\ Update([draft EXCEPT !.session = s])
ChooseSection(s) == On(1) /\ s # Intent.draft.section /\ Update([draft EXCEPT !.section = s])

Toggle(t) ==
    /\ On(2) /\ ~busy /\ t \in Positions
    /\ Update([draft EXCEPT !.offered = IF t \in Offered THEN Offered \ {t} ELSE Offered \cup {t}])

Go(n) ==
    /\ \/ ~busy /\ n <= reached /\ step # n
       \/ step = 1 /\ n = 2 /\ ~TimingUnavailable
    /\ step' = n
    /\ reached' = IF n > reached THEN n ELSE reached
    /\ UNCHANGED <<chainVars, pageVars, draft, prepared, job, outside, edits, disturbed, wasted>>

\* The builder is mounted anew.
Anew == draft' = NewDraft /\ prepared' = NoIntent /\ step' = 1 /\ reached' = 1

\* The page shows another view and comes back; an action goes on without it.
Leave ==
    /\ edits < MaxEdits
    /\ Anew
    /\ edits' = edits + 1
    /\ job' = IF job = NoJob THEN NoJob ELSE [job EXCEPT !.builder = FALSE]
    /\ UNCHANGED <<chainVars, pageVars, outside, disturbed, wasted>>

\* The wallet is on another account: nothing of the old one stays selected.
Switch(a) ==
    /\ a # account /\ edits < MaxEdits
    /\ account' = a
    /\ draft' = [draft EXCEPT !.offered = {}]
    /\ prepared' = NoIntent
    /\ edits' = edits + 1
    /\ UNCHANGED <<chainVars, seen, indexing, step, reached, job, outside, disturbed, wasted>>

-----------------------------------------------------------------------------
(* Actions on the chain *)

Start(op, stage, intent, todo) ==
    /\ ~busy /\ account # Nobody
    /\ job' = [op |-> op, by |-> account, stage |-> stage, intent |-> intent, todo |-> todo,
               pending |-> {}, nonce |-> 0, builder |-> TRUE, from |-> NextRecorded(account)]
    /\ disturbed' = FALSE
    /\ UNCHANGED <<chainVars, pageVars, builderVars, outside, edits, wasted>>

At(op, stage) == job # NoJob /\ job.op = op /\ job.stage = stage
To(stage) == job' = [job EXCEPT !.stage = stage]

\* The action ends with an error: a refusal in the wallet, a failed check or call.
Fails ==
    /\ job # NoJob /\ job.stage # "read back"
    /\ job' = NoJob /\ disturbed' = FALSE
    /\ UNCHANGED <<chainVars, pageVars, builderVars, outside, edits, wasted>>

Sign ==
    /\ step = 2 /\ Offered # {} /\ ToDeposit = {} /\ ~TimingUnavailable
    /\ Start("sign", "timing", [draft |-> Intent.draft, owner |-> account, pay |-> Quote], Offered)

Deposit ==
    /\ step = 2 /\ ToDeposit # {}
    /\ Start("batch", "custody", NoIntent, Offered)

\* The button next to one ticket.
Custody(t) ==
    /\ step = 2 /\ t \in Positions
    /\ IF seen.custody[t].escrowed THEN Start("withdraw", "send", NoIntent, {t})
                                   ELSE Start("deposit", "approve", NoIntent, {t})

Quiet == UNCHANGED <<pageVars, builderVars, outside, edits, disturbed>>

\* The chain's clock is before the cutoff of the session.
TimingRead ==
    /\ At("sign", "timing") /\ now < Cutoff(job.intent.draft.session)
    /\ To("custody")
    /\ UNCHANGED <<chainVars, wasted>> /\ Quiet

Held(t, a) == custody[t].escrowed /\ custody[t].holder = a

\* Mutated form of CustodyOf: any escrowed ticket will do.
CustodyOfAnybody(t) == custody[t].escrowed

\* The depositor of an offered ticket is the signer.
CustodyOf(t) == Held(t, job.by)

CustodyRead(t) ==
    /\ At("sign", "custody") /\ t \in job.todo /\ CustodyOf(t)
    /\ job' = [job EXCEPT !.todo = @ \ {t}, !.stage = IF job.todo = {t} THEN "nonce" ELSE @]
    /\ UNCHANGED <<chainVars, wasted>> /\ Quiet

\* The recorded nonce, or when it is taken another that is not.
Fresh(n) ==
    /\ <<job.by, n>> \notin used
    /\ n # job.from => <<job.by, job.from>> \in used

NonceRead(n) ==
    /\ At("sign", "nonce") /\ Fresh(n)
    /\ job' = [job EXCEPT !.nonce = n, !.stage = "allowance"]
    /\ UNCHANGED <<chainVars, wasted>> /\ Quiet

\* The builder that asked, if it is still there, is told what is signed.
Ready ==
    /\ prepared' = IF job.builder THEN [draft |-> job.intent.draft, owner |-> job.by] ELSE prepared
    /\ To("commit")

AllowanceRead ==
    /\ At("sign", "allowance")
    /\ IF allowance[job.by] >= job.intent.pay THEN Ready ELSE To("pay") /\ UNCHANGED prepared
    /\ UNCHANGED <<chainVars, pageVars, draft, step, reached, outside, edits, disturbed, wasted>>

\* The payment is approved: its receipt counts at once, its index later.
PayApproved ==
    /\ At("sign", "pay")
    /\ allowance' = [allowance EXCEPT ![job.by] = job.intent.pay]
    /\ indexing' = TRUE
    /\ Ready
    /\ UNCHANGED <<custody, used, recorded, approvals, now, account, seen, draft, step, reached,
                   outside, edits, disturbed, wasted>>

\* IntentRegistry.commit takes it.
Accepts(i, a, n) == <<a, n>> \notin used /\ (i.adjacent => i.count >= 2)
\* The pool has it, and the settlement can charge it.
CanTrade(i, a, pay) ==
    now <= Cutoff(i.session) /\ (\A t \in i.offered : Held(t, a)) /\ allowance[a] >= pay

Commit ==
    /\ At("sign", "commit")
    /\ LET i == job.intent.draft IN
       /\ wasted' = (wasted \/ (~disturbed /\ ~(Accepts(i, job.by, job.nonce) /\ CanTrade(i, job.by, job.intent.pay))))
       /\ IF Accepts(i, job.by, job.nonce)
          THEN used' = used \cup {<<job.by, job.nonce>>} /\ recorded' = recorded \cup {<<job.by, job.nonce>>}
               /\ indexing' = TRUE /\ To("read back")
          ELSE job' = NoJob /\ UNCHANGED <<used, recorded, indexing>>
    /\ UNCHANGED <<custody, approvals, allowance, now, account, seen, builderVars, outside, edits, disturbed>>

\* A ticket in the signer's own hands.
Free(t) == custody[t] = [holder |-> job.by, escrowed |-> FALSE]

\* A ticket that is deposited already is left out of the batch.
DepositRead(t) ==
    /\ At("batch", "custody") /\ t \in job.todo
    /\ \/ Held(t, job.by) /\ job' = [job EXCEPT !.todo = @ \ {t}]
       \/ Free(t) /\ job' = [job EXCEPT !.todo = @ \ {t}, !.pending = @ \cup {t}]
    /\ UNCHANGED <<chainVars, wasted>> /\ Quiet

\* All are read: nothing is left to deposit, or the rest is sent.
DepositChecked ==
    /\ At("batch", "custody") /\ job.todo = {}
    /\ IF job.pending = {} THEN To("read back") ELSE job' = [job EXCEPT !.stage = "approve", !.todo = job.pending]
    /\ UNCHANGED <<chainVars, wasted>> /\ Quiet

TicketsApproved ==
    /\ job # NoJob /\ job.stage = "approve"
    /\ approvals' = approvals \cup {job.by}
    /\ indexing' = (indexing \/ job.by \notin approvals)
    /\ To("send")
    /\ UNCHANGED <<custody, used, recorded, allowance, now, account, seen, builderVars, outside, edits, disturbed, wasted>>

\* Escrow.deposit and Escrow.withdraw take all the tickets or none.
Takes(t) == custody[t] = [holder |-> job.by, escrowed |-> job.op = "withdraw"]

Moved ==
    /\ job # NoJob /\ job.stage = "send"
    /\ wasted' = (wasted \/ (job.op = "batch" /\ ~disturbed /\ \E t \in job.todo : ~Takes(t)))
    /\ IF \A t \in job.todo : Takes(t)
       THEN /\ custody' = [t \in Ticket |-> IF t \in job.todo
                               THEN [custody[t] EXCEPT !.escrowed = ~@] ELSE custody[t]]
            /\ indexing' = TRUE /\ To("read back")
       ELSE job' = NoJob /\ UNCHANGED <<custody, indexing>>
    /\ UNCHANGED <<used, recorded, approvals, allowance, now, account, seen, builderVars, outside, edits, disturbed>>

\* A committed intent opens the matching view, and the builder is gone.
\* The write is read back, or the read fails and the index stays waited for.
ReadBack ==
    /\ job # NoJob /\ job.stage = "read back"
    /\ \/ seen' = Snapshot /\ indexing' = FALSE
       \/ UNCHANGED <<seen, indexing>>
    /\ IF job.op = "sign" THEN Anew ELSE UNCHANGED builderVars
    /\ job' = NoJob /\ disturbed' = FALSE
    /\ UNCHANGED <<chainVars, account, outside, edits, wasted>>

-----------------------------------------------------------------------------
Refresh ==
    /\ seen' = Snapshot /\ indexing' = FALSE /\ <<seen', indexing'>> # <<seen, indexing>>
    /\ UNCHANGED <<chainVars, account, builderVars, job, outside, edits, disturbed, wasted>>

(* Others: time, the same account in another tab, a settlement. *)

Outside == outside < MaxOutside /\ outside' = outside + 1 /\ disturbed' = (job # NoJob)

Passes ==
    /\ Outside /\ now < MaxNow /\ now' = now + 1
    /\ UNCHANGED <<custody, used, recorded, approvals, allowance, pageVars, builderVars, job, edits, wasted>>

Moves(t) ==
    /\ Outside
    /\ \E a \in Account, e \in BOOLEAN : custody' = [custody EXCEPT ![t] = [holder |-> a, escrowed |-> e]]
    /\ UNCHANGED <<used, recorded, approvals, allowance, now, pageVars, builderVars, job, edits, wasted>>

\* A nonce is taken; of a revoked or settled intent the index keeps no record.
Takes1(a, n) ==
    /\ Outside /\ <<a, n>> \notin used
    /\ used' = used \cup {<<a, n>>}
    /\ recorded' \in {recorded, recorded \cup {<<a, n>>}}
    /\ UNCHANGED <<custody, approvals, allowance, now, pageVars, builderVars, job, edits, wasted>>

Next ==
    \/ Fewer \/ More \/ Adjacent
    \/ \E s \in Session : ChooseSession(s)
    \/ \E s \in Section : ChooseSection(s)
    \/ \E t \in Ticket : Toggle(t) \/ Custody(t) \/ CustodyRead(t) \/ DepositRead(t) \/ Moves(t)
    \/ Go(1) \/ Go(2) \/ Leave
    \/ \E a \in Account \cup {Nobody} : Switch(a)
    \/ Sign \/ Deposit \/ Fails
    \/ TimingRead \/ AllowanceRead \/ PayApproved \/ Commit
    \/ \E n \in Nonce : NonceRead(n)
    \/ DepositChecked \/ TicketsApproved \/ Moved \/ ReadBack
    \/ Refresh \/ Passes
    \/ \E a \in Account, n \in Nonce : Takes1(a, n)

Spec == Init /\ [][Next]_vars

-----------------------------------------------------------------------------
Draft == [offered : SUBSET Ticket, count : 1 .. MaxCount, adjacent : BOOLEAN,
          session : Session, section : Section]

TypeOK ==
    /\ draft \in Draft
    /\ prepared = NoIntent \/ prepared \in [draft : Draft, owner : Account]
    /\ step \in 1 .. 2 /\ reached \in step .. 2
    /\ job # NoJob => job.by \in Account

(* A transaction of the page is one the chain takes and, for an intent, one *)
(* that can trade, unless somebody else acted while the page checked: the   *)
(* snapshot it was drafted from may be stale in any way                     *)
(* (Market.tsx:382-408, 358-381).                                           *)
NothingWasted == ~wasted

(* What the builder shows is of the account that is connected: its tickets, *)
(* its prepared intent, even when an action of the account before goes on   *)
(* after the switch (IntentBuilder.tsx:66-76, 90-92).                       *)
ShownIsOwn ==
    /\ Saved.owner = account
    /\ account = Nobody => Offered = {}
    /\ \A t \in Offered : seen.custody[t].holder = account

(* No edit is lost to an intent that was prepared before or beside it: what *)
(* is shown and signed next has every condition of the draft                *)
(* (IntentBuilder.tsx:74-79).                                               *)
NoEditLost ==
    prepared # NoIntent /\ prepared.owner = account =>
        [prepared.draft EXCEPT !.offered = {}] = [draft EXCEPT !.offered = {}]

=============================================================================
