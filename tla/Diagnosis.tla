----------------------------- MODULE Diagnosis -----------------------------
(***************************************************************************)
(* Why an intent has no settlement (src/server/agent/diagnose.ts), and     *)
(* what would happen had it been signed otherwise (agent/what-if.ts), both *)
(* at one block of a chain that moves on.                                  *)
(*                                                                         *)
(* The bounded search (server/solve-hypothetical.ts) stands here for what  *)
(* module Solver checks of it: it answers with some exchange that settle   *)
(* would take, or with none at all.                                        *)
(***************************************************************************)
EXTENDS Integers, Sequences, FiniteSets, FiniteSetsExt, Functions

CONSTANTS
    Owner, TokenId,
    Place,            \* token -> where its seat is
    Intent,           \* the intents that are ever committed
    Start,            \* the first block: stages and funds
    Money,            \* bound: what an owner may have approved and hold
    Payment,          \* bound: what an exchange may ask of one intent
    Cap,              \* configuration: BUDGET_CAP_USDC
    GroupCap,         \* configuration: GROUP_SEARCH_CAP
    MaxParticipants,  \* configuration: the largest exchange looked for
    Question,         \* bound: the sets of changes a what-if asks for
    MaxBlock          \* bound: how many blocks there are

VARIABLES
    blocks,    \* every block: the stage of each intent, what each owner can pay
    asked,     \* the intent the request is about
    phase,     \* how far the diagnosis has come
    snapshot,  \* the block of the snapshot
    capacity,  \* the funds that were read
    evidence,  \* status, exchange, supply, demand
    todo,      \* single changes not tried yet
    tried,     \* change -> the exchange found, or NoExchange
    whatIf     \* the changes of the last what-if and its exchange

vars == <<blocks, asked, phase, snapshot, capacity, evidence, todo, tried, whatIf>>

Stage == {"NONE", "LIVE", "EXCLUDED", "REVOKED", "SETTLED"}
NoExchange == [with |-> {}, receives |-> {}, pays |-> 0]
Nothing == [status |-> "NONE", exchange |-> NoExchange, blockedAt |-> "none", unwanted |-> {}]
NoWhatIf == [changes |-> {}, exchange |-> NoExchange]

Init ==
    /\ blocks \in {<<b>> : b \in Start}
    /\ asked \in Intent
    /\ phase = "begin"
    /\ snapshot = 0
    /\ capacity = <<>>
    /\ evidence = Nothing
    /\ todo = {}
    /\ tried = <<>>
    /\ whatIf = NoWhatIf

-----------------------------------------------------------------------------
(* What settle takes, for an intent that need not be committed. *)

Adjoining(S) ==
    LET row(t) == <<Place[t].session, Place[t].section, Place[t].row>>
    IN  /\ Cardinality({row(t) : t \in S}) <= 1
        /\ \A t, u \in S : t # u => Place[t].seat # Place[u].seat
        /\ \A t, u \in S : Place[t].seat - Place[u].seat < Cardinality(S)

InMasks(i, t) ==
    /\ Place[t].eventId = i.eventId
    /\ Place[t].session \in i.sessionMask
    /\ Place[t].section \in i.sectionMask

Accepts(i, S) ==
    /\ Cardinality(S) = i.exactCount
    /\ \A t \in S : InMasks(i, t)
    /\ i.mustShareSession => Cardinality({Place[t].session : t \in S}) <= 1
    /\ i.mustShareSection => Cardinality({Place[t].section : t \in S}) <= 1
    /\ i.mustBeAdjacent => Adjoining(S)

Supply(P) == UNION {i.offered : i \in P}

\* Who may get what, when all of P exchange everything they offer.
Assignments(P) ==
    IF \E i, k \in P : i # k /\ i.offered \cap k.offered # {} THEN {}
    ELSE {to \in [P -> SUBSET Supply(P)] :
            /\ UNION Range(to) = Supply(P)
            /\ \A i, k \in P : i # k => to[i] \cap to[k] = {}
            /\ \A i \in P : Accepts(i, to[i])}

Affordable(P, net, funds) ==
    /\ \A i \in P : net[i] <= i.maxNetPay
    /\ SumFunctionOnSet(net, P) = 0
    /\ \A u \in {i.owner : i \in P} :
        LET owed == SumFunctionOnSet(net, {i \in P : i.owner = u})
        IN  owed <= 0 \/ owed <= funds[u]

\* A ticket moves to or from the owner of i.
Moves(i, P, to) ==
    \E k \in P : \E t \in to[k] :
        \E o \in P : t \in o.offered /\ o.owner # k.owner /\ i.owner \in {o.owner, k.owner}

\* The exchanges of i with others of a pool, as far as i is concerned.
Exchanges(i, pool, funds) ==
    UNION {
        LET P == with \cup {i}
            nets == {n \in [P -> Payment] : Affordable(P, n, funds)}
        IN  {[with |-> with, receives |-> to[i], pays |-> n[i]] :
                to \in {a \in Assignments(P) : Moves(i, P, a)}, n \in nets} :
        with \in {w \in SUBSET pool :
            Cardinality(w) \in 1 .. MaxParticipants - 1 /\ \E k \in w : k.owner # i.owner}}

-----------------------------------------------------------------------------
(* The snapshot and what is read with it. *)

LiveAt(b) == {i \in Intent : blocks[b].stage[i] = "LIVE"}

\* readCapacity names the block.
FundsAt(b) == blocks[b].funds

\* getIntentById at the block of the snapshot.
StageAt(i, b) == blocks[b].stage[i]

\* The search over the pool with i in the place of the intent asked about.
MayFind(i) == {NoExchange} \cup Exchanges(i, LiveAt(snapshot) \ {asked}, capacity)

-----------------------------------------------------------------------------
(* Necessary conditions: supply and demand. *)

OfferedByOthers == Supply({k \in LiveAt(snapshot) : k.owner # asked.owner})

\* What is left of that after each filter, in order.
Funnel ==
    LET event == {t \in OfferedByOthers : Place[t].eventId = asked.eventId}
        session == {t \in event : Place[t].session \in asked.sessionMask}
        section == {t \in session : Place[t].section \in asked.sectionMask}
    IN  <<[stage |-> "offeredByOthers", left |-> OfferedByOthers],
          [stage |-> "eventId", left |-> event],
          [stage |-> "session", left |-> session],
          [stage |-> "section", left |-> section]>>

Acceptable == Funnel[4].left

LargestGroup(searched) ==
    Max({0} \cup {n \in 1 .. Min({asked.exactCount, Cardinality(searched)}) :
        \E bundle \in kSubset(n, searched) : Accepts([asked EXCEPT !.exactCount = n], bundle)})

\* Mutated form of BlockedAt: the tickets left out of the group search are forgotten.
BlockedAtTruncated(searched) ==
    LET empty == {n \in DOMAIN Funnel : Funnel[n].left = {}}
    IN  IF empty # {} THEN Funnel[Min(empty)].stage
        ELSE IF LargestGroup(searched) < asked.exactCount THEN "cohesiveGroup" ELSE "none"

\* The first stage that leaves nothing, or no group that is large enough.
BlockedAt(searched) ==
    LET empty == {n \in DOMAIN Funnel : Funnel[n].left = {}}
    IN  IF empty # {} THEN Funnel[Min(empty)].stage
        ELSE IF searched = Acceptable /\ LargestGroup(searched) < asked.exactCount
        THEN "cohesiveGroup" ELSE "none"

Wants(k, t) == k.owner # asked.owner /\ k.exactCount > 0 /\ InMasks(k, t)

Unwanted == {t \in asked.offered : ~ \E k \in LiveAt(snapshot) : Wants(k, t)}

-----------------------------------------------------------------------------
(* Conditions changed one at a time, or as a what-if asks. *)

Change(field, id) == [field |-> field, id |-> id]

\* The intent asked about, with a set of changes applied to it.
Varied(changes) ==
    LET kept(field) == \A c \in changes : c.field # field
        ids(field) == {c.id : c \in {d \in changes : d.field = field}}
    IN  [asked EXCEPT
            !.maxNetPay = IF kept("maxNetPay") THEN @ ELSE Cap,
            !.mustBeAdjacent = (@ /\ kept("dropAdjacent")) \/ ~kept("addAdjacent"),
            !.mustShareSection = @ /\ kept("mustShareSection"),
            !.mustShareSession = @ /\ kept("mustShareSession"),
            !.sectionMask = @ \cup ids("section"),
            !.sessionMask = @ \cup ids("session")]

\* Classes on offer that the masks leave out.
Missing(field, mask) ==
    {Change(field, Place[t][field]) : t \in {u \in OfferedByOthers :
        Place[u].eventId = asked.eventId /\ Place[u][field] \notin mask}}

Relaxations ==
    {c \in {Change("maxNetPay", 0), Change("dropAdjacent", 0),
            Change("mustShareSection", 0), Change("mustShareSession", 0)} :
        \/ c.field = "maxNetPay" /\ asked.maxNetPay < Cap
        \/ c.field = "dropAdjacent" /\ asked.mustBeAdjacent
        \/ c.field = "mustShareSection" /\ asked.mustShareSection
        \/ c.field = "mustShareSession" /\ asked.mustShareSession}
    \cup Missing("section", asked.sectionMask) \cup Missing("session", asked.sessionMask)

\* A higher limit is a cause only if the exchange found needs it.
Binding(c) == c.field = "maxNetPay" => tried[c].pays > asked.maxNetPay

\* smallestWorkingChange: of the changes that worked, one that costs least.
Recommended ==
    LET worked == {c \in DOMAIN tried : tried[c] # NoExchange /\ Binding(c)}
    IN  {c \in worked : \A d \in worked : tried[c].pays <= tried[d].pays}

-----------------------------------------------------------------------------
TakeSnapshot ==
    /\ phase = "begin"
    /\ snapshot' \in 1 .. Len(blocks)
    /\ phase' = "locate"
    /\ UNCHANGED <<blocks, asked, capacity, evidence, todo, tried, whatIf>>

Answer(e) == evidence' = e /\ phase' = "done"

\* Live, or named among the excluded; both lists are of the snapshot.
Locate ==
    /\ phase = "locate"
    /\ CASE asked \in LiveAt(snapshot) -> phase' = "funds" /\ UNCHANGED evidence
         [] blocks[snapshot].stage[asked] = "EXCLUDED" ->
                Answer([Nothing EXCEPT !.status = "EXCLUDED"])
         [] OTHER -> phase' = "look up" /\ UNCHANGED evidence
    /\ UNCHANGED <<blocks, asked, snapshot, capacity, todo, tried, whatIf>>

\* Neither: what became of it, at the same block.
LookUp ==
    /\ phase = "look up"
    /\ LET stage == StageAt(asked, snapshot)
       IN  Answer([Nothing EXCEPT !.status =
                IF stage \in {"REVOKED", "SETTLED"} THEN stage ELSE "UNKNOWN"])
    /\ UNCHANGED <<blocks, asked, snapshot, capacity, todo, tried, whatIf>>

ReadFunds ==
    /\ phase = "funds"
    /\ capacity' = FundsAt(snapshot)
    /\ phase' = "baseline"
    /\ UNCHANGED <<blocks, asked, snapshot, evidence, todo, tried, whatIf>>

\* A historical read that fails fails the request; nothing else is substituted.
ReadFails ==
    /\ phase \in {"begin", "look up", "funds"}
    /\ phase' = "failed"
    /\ UNCHANGED <<blocks, asked, snapshot, capacity, evidence, todo, tried, whatIf>>

\* The pool as committed; without an exchange, supply, demand and relaxations.
Baseline ==
    /\ phase = "baseline"
    /\ \E x \in MayFind(asked) :
        IF x # NoExchange
        THEN /\ Answer([Nothing EXCEPT !.status = "SETTLEABLE", !.exchange = x])
             /\ UNCHANGED todo
        ELSE /\ \E searched \in kSubset(Min({GroupCap, Cardinality(Acceptable)}), Acceptable) :
                    evidence' = [status |-> "NOT_FOUND", exchange |-> x,
                        blockedAt |-> IF asked.exactCount = 0 THEN "none" ELSE BlockedAt(searched),
                        unwanted |-> Unwanted]
             /\ todo' = Relaxations
             /\ phase' = "relax"
    /\ UNCHANGED <<blocks, asked, snapshot, capacity, tried, whatIf>>

\* One change after another; their order makes no difference.
Relax ==
    /\ phase = "relax" /\ todo # {}
    /\ LET c == CHOOSE d \in todo : TRUE
       IN  /\ \E x \in MayFind(Varied({c})) :
                tried' = [d \in DOMAIN tried \cup {c} |-> IF d = c THEN x ELSE tried[d]]
           /\ todo' = todo \ {c}
    /\ UNCHANGED <<blocks, asked, phase, snapshot, capacity, evidence, whatIf>>

Finish ==
    /\ phase = "relax" /\ todo = {}
    /\ phase' = "done"
    /\ UNCHANGED <<blocks, asked, snapshot, capacity, evidence, todo, tried, whatIf>>

\* The registry refuses adjacency for fewer than two.
Signable(i) == i.mustBeAdjacent => i.exactCount >= 2

\* A what-if on the snapshot and funds of the same request.
AskWhatIf(changes) ==
    /\ phase = "done" /\ capacity # <<>> /\ whatIf = NoWhatIf
    /\ Signable(Varied(changes))
    /\ \E x \in MayFind(Varied(changes)) :
        whatIf' = [changes |-> changes, exchange |-> x]
    /\ UNCHANGED <<blocks, asked, phase, snapshot, capacity, evidence, todo, tried>>

\* Committed, withdrawn from or brought back to the escrow, revoked, settled;
\* a block may hold several of these.
Follows == {<<"NONE", s>> : s \in Stage \ {"NONE"}}
    \cup {<<"LIVE", "EXCLUDED">>, <<"EXCLUDED", "LIVE">>}
    \cup {"LIVE", "EXCLUDED"} \X {"REVOKED", "SETTLED"}

\* The chain moves on.
Mine ==
    /\ Len(blocks) < MaxBlock
    /\ LET last == blocks[Len(blocks)] IN
        \/ \E i \in Intent, s \in Stage :
            /\ <<last.stage[i], s>> \in Follows
            /\ blocks' = Append(blocks, [last EXCEPT !.stage[i] = s])
        \/ \E u \in Owner : \E x \in Money \ {last.funds[u]} :
            blocks' = Append(blocks, [last EXCEPT !.funds[u] = x])
    /\ UNCHANGED <<asked, phase, snapshot, capacity, evidence, todo, tried, whatIf>>

Next ==
    \/ TakeSnapshot \/ Locate \/ LookUp \/ ReadFunds \/ ReadFails
    \/ Baseline \/ Relax \/ Finish
    \/ \E changes \in Question : AskWhatIf(changes)
    \/ Mine

Spec == Init /\ [][Next]_vars

-----------------------------------------------------------------------------
TypeOK ==
    /\ Len(blocks) \in 1 .. MaxBlock
    /\ phase \in {"begin", "locate", "look up", "funds", "baseline", "relax", "done", "failed"}
    /\ snapshot \in 0 .. Len(blocks)
    /\ evidence.status \in Stage \cup {"SETTLEABLE", "NOT_FOUND", "UNKNOWN"}
    /\ \A c \in DOMAIN tried : tried[c].with \subseteq Intent

\* The exchange x could be settled at the block of the snapshot, had i been
\* committed in place of the intent asked about.
Settles(i, x) ==
    x \in Exchanges(i, LiveAt(snapshot) \ {asked}, blocks[snapshot].funds)

(* Everything an answer says holds at the one block it names, whatever the *)
(* chain did while the answer was put together: tickets, intents and       *)
(* payments are never of two different blocks (tools.ts:92-98,             *)
(* diagnose.ts:286-304, solve-hypothetical.ts:38, 58-60).                  *)
OneBlock ==
    /\ evidence.status = "SETTLEABLE" => Settles(asked, evidence.exchange)
    /\ evidence.status \in {"EXCLUDED", "REVOKED", "SETTLED"} =>
          blocks[snapshot].stage[asked] = evidence.status
    /\ evidence.status = "UNKNOWN" => blocks[snapshot].stage[asked] = "NONE"
    /\ \A c \in DOMAIN tried : tried[c] # NoExchange => Settles(Varied({c}), tried[c])
    /\ whatIf.exchange # NoExchange => Settles(Varied(whatIf.changes), whatIf.exchange)

(* A shortfall is one: where it is reported, no payments whatever bring    *)
(* about an exchange in which the intent gets only tickets of others       *)
(* (diagnose.ts:86-92); a search that was cut off reports none.            *)
ShortfallOfOthers ==
    evidence.blockedAt # "none" =>
        \A with \in SUBSET {k \in LiveAt(snapshot) : k.owner # asked.owner} :
            Cardinality(with) < MaxParticipants =>
                \A to \in Assignments(with \cup {asked}) : to[asked] \cap asked.offered # {}

(* A ticket reported as unwanted goes to nobody else in any exchange, even *)
(* if the owner changed every condition of its own (diagnose.ts:205-228).  *)
NobodyTakesIt ==
    LET any == [asked EXCEPT !.mustBeAdjacent = FALSE, !.mustShareSection = FALSE,
            !.mustShareSession = FALSE,
            !.sessionMask = {Place[t].session : t \in TokenId},
            !.sectionMask = {Place[t].section : t \in TokenId}]
    IN  \A t \in evidence.unwanted : \A with \in SUBSET (LiveAt(snapshot) \ {asked}) :
            Cardinality(with) < MaxParticipants =>
                \A to \in Assignments(with \cup {any}) :
                    \A k \in with : t \in to[k] => k.owner = asked.owner

(* The change that is recommended is needed for the exchange it is         *)
(* recommended with, as far as the budget goes: nobody is told to pay more *)
(* for what the signed limit already allows (diagnose.ts:48-56, 340-346).  *)
NotTheBudget ==
    phase = "done" => \A c \in Recommended :
        c.field = "maxNetPay" => ~Settles(asked, tried[c])

(* What a hypothetical finds could be signed: commit would not refuse it   *)
(* (what-if.ts:105-110).                                                   *)
CouldBeSigned ==
    whatIf # NoWhatIf =>
        LET i == Varied(whatIf.changes) IN i.mustBeAdjacent => i.exactCount \in 2 .. 4

(* "A proven supply shortfall" (diagnose.ts:87): nothing settles that only *)
(* a higher budget was tried for.                                          *)
ShortfallProven ==
    evidence.blockedAt # "none" /\ Change("maxNetPay", 0) \in DOMAIN tried =>
        tried[Change("maxNetPay", 0)] = NoExchange

(* "If the answer is nobody, ... relaxing the owner's own conditions       *)
(* cannot help" (diagnose.ts:208-209), and the answer says so              *)
(* (template.ts:101-104).                                                  *)
OwnConditionsCannotHelp ==
    asked.offered # {} /\ evidence.unwanted = asked.offered =>
        \A c \in DOMAIN tried : tried[c] = NoExchange

=============================================================================
