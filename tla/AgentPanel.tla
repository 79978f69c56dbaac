----------------------------- MODULE AgentPanel -----------------------------
(***************************************************************************)
(* The agent's drawer (src/component/market/AgentDrawer.tsx): a diagnosis  *)
(* is fetched whenever the intent, or what the market store says of the    *)
(* user's own transactions, changes; questions are asked by the user.      *)
(* Answers come in any order, or never.                                    *)
(*                                                                         *)
(* An effect runs with the change that causes it: React runs the effects   *)
(* of a store's update before it handles anything else.                    *)
(***************************************************************************)
EXTENDS Integers, FiniteSets

CONSTANTS
    Intent,
    NoIntent,
    MaxBlock,      \* bound: blocks of the index
    MaxRevision,   \* bound: transactions of the user
    MaxRequests    \* bound: requests of the drawer
PanelAssumption == NoIntent \notin Intent /\ {MaxBlock, MaxRevision, MaxRequests} \subseteq Nat

VARIABLES
    indexed,    \* newest block the server can answer from
    floor, indexing, revision,      \* the market store
    open, selected,
    requests,   \* all requests so far
    active,     \* the one whose answer is wanted, or 0
    aborted,
    ended,      \* those answered or failed; an aborted one may have been answered already
    answer, held, phase             \* the drawer's tagged state

storeVars == <<floor, indexing, revision>>
vars == <<indexed, storeVars, open, selected, requests, active, aborted, ended, answer, held, phase>>

Block == 0 .. MaxBlock
None == [hash |-> NoIntent, revision |-> 0, by |-> 0, block |-> 0]
NoPhase == [hash |-> NoIntent, revision |-> 0, value |-> "idle"]
Tagged == [hash : Intent \cup {NoIntent}, revision : 0 .. MaxRevision, by : 0 .. MaxRequests, block : Block]
SentRequest == [kind : {"diagnose", "ask"}, hash : Intent, revision : 0 .. MaxRevision, min : Block]
Sent == 1 .. Cardinality(DOMAIN requests)
Latest == Cardinality(DOMAIN requests)

Init ==
    /\ indexed = 0
    /\ floor = 0 /\ indexing = FALSE /\ revision = 0
    /\ open = FALSE /\ selected = NoIntent
    /\ requests = << >> /\ active = 0 /\ aborted = {} /\ ended = {}
    /\ answer = None /\ held = None /\ phase = NoPhase

-----------------------------------------------------------------------------
\* Mutated form of ForThis: any snapshot that is new enough.
ForThisIntent(d) ==
    IF d.hash = selected /\ d.hash # NoIntent /\ ~indexing THEN d ELSE None

\* What may be shown: of this intent, of this revision, at the floor or above.
ForThis(d) ==
    IF /\ d.hash = selected /\ d.hash # NoIntent
       /\ d.revision = revision /\ ~indexing /\ d.block >= floor
    THEN d ELSE None

Shown == ForThis(answer)
Evidence == IF Shown # None THEN Shown ELSE ForThis(held)

Current == phase.hash = selected /\ phase.revision = revision /\ ~indexing /\ selected # NoIntent
State == IF Current THEN phase.value ELSE "idle"

\* A request goes out; the one before is aborted.
Send(r) ==
    /\ requests' = [n \in 1 .. Latest + 1 |-> IF n = Latest + 1 THEN r ELSE requests[n]]
    /\ active' = Latest + 1
    /\ aborted' = aborted \cup ({active} \ {0})

\* The effect: the drawer's request is aborted, and the diagnosis of what is
\* selected now is asked for.
Effect ==
    IF open' /\ selected' # NoIntent /\ ~indexing'
    THEN Send([kind |-> "diagnose", hash |-> selected', revision |-> revision', min |-> floor'])
    ELSE aborted' = aborted \cup ({active} \ {0}) /\ UNCHANGED <<requests, active>>

More == Latest < MaxRequests

-----------------------------------------------------------------------------
\* The page opens the drawer on an intent, moves it, or closes it.
Show(i) ==
    /\ More /\ (~open \/ selected # i)
    /\ open' = TRUE /\ selected' = i
    /\ UNCHANGED storeVars
    /\ Effect
    /\ UNCHANGED <<indexed, ended, answer, held, phase>>

Close ==
    /\ open
    /\ open' = FALSE
    /\ UNCHANGED <<selected, storeVars>>
    /\ Effect
    /\ UNCHANGED <<indexed, ended, answer, held, phase>>

\* A transaction of the user: the floor rises before anything is read.  A
\* changed budget moves the drawer to the intent that replaces its own.
RequireBlock ==
    /\ revision < MaxRevision
    /\ \E b \in floor .. MaxBlock : floor' = b
    /\ indexing' = TRUE
    /\ revision' = revision + 1
    /\ selected' \in IF selected = NoIntent THEN {NoIntent} ELSE {selected} \cup Intent \cup {NoIntent}
    /\ UNCHANGED open
    /\ Effect
    /\ UNCHANGED <<indexed, ended, answer, held, phase>>

\* The market has been read at the floor.
Refreshed ==
    /\ More /\ indexing /\ indexed >= floor
    /\ indexing' = FALSE
    /\ UNCHANGED <<floor, revision, open, selected>>
    /\ Effect
    /\ UNCHANGED <<indexed, ended, answer, held, phase>>

Ask ==
    /\ More /\ open /\ selected # NoIntent /\ ~indexing /\ State # "asking"
    /\ Send([kind |-> "ask", hash |-> selected, revision |-> revision,
             min |-> IF Evidence.block > floor THEN Evidence.block ELSE floor])
    /\ phase' = [hash |-> selected, revision |-> revision, value |-> "asking"]
    /\ answer' = None /\ held' = None
    /\ UNCHANGED <<indexed, storeVars, open, selected, ended>>

\* Is an answer still wanted?
Wanted(n) == n \notin aborted /\ active = n /\ requests[n].revision = revision

Phase(n, v) == [hash |-> requests[n].hash, revision |-> requests[n].revision, value |-> v]

\* An answer at block b arrives: it is of the intent, or it is refused.
Arrives(n, b) ==
    LET r == requests[n]
        d == [hash |-> r.hash, revision |-> r.revision, by |-> n, block |-> b]
    IN
    /\ n \notin ended
    /\ ended' = ended \cup {n}
    /\ CASE ~Wanted(n) -> UNCHANGED <<answer, held, phase>>
         [] Wanted(n) /\ b < r.min ->
              /\ phase' = Phase(n, "error")
              /\ IF r.kind = "diagnose" THEN answer' = None /\ held' = None
                                         ELSE UNCHANGED <<answer, held>>
         [] Wanted(n) /\ b >= r.min /\ r.kind = "diagnose" ->
              held' = d /\ phase' = Phase(n, "idle") /\ UNCHANGED answer
         [] OTHER ->
              answer' = d /\ phase' = Phase(n, "answered") /\ UNCHANGED held
    /\ UNCHANGED <<indexed, storeVars, open, selected, requests, active, aborted>>

\* A request fails, or its answer is none.
Fails(n) ==
    /\ n \notin ended
    /\ ended' = ended \cup {n}
    /\ IF Wanted(n)
       THEN /\ phase' = Phase(n, "error")
            /\ IF requests[n].kind = "diagnose" THEN answer' = None /\ held' = None
                                                 ELSE UNCHANGED <<answer, held>>
       ELSE UNCHANGED <<answer, held, phase>>
    /\ UNCHANGED <<indexed, storeVars, open, selected, requests, active, aborted>>

Index ==
    /\ indexed < MaxBlock
    /\ indexed' = indexed + 1
    /\ UNCHANGED <<storeVars, open, selected, requests, active, aborted, ended, answer, held, phase>>

Next ==
    \/ \E i \in Intent : Show(i)
    \/ Close \/ RequireBlock \/ Refreshed \/ Ask \/ Index
    \/ \E n \in Sent : Fails(n) \/ \E b \in 0 .. indexed : Arrives(n, b)

Spec == Init /\ [][Next]_vars

RequestEnds(n) == n \in Sent /\ (Fails(n) \/ \E b \in 0 .. indexed : Arrives(n, b))

\* Every request ends, with an answer or without.
FairSpec ==
    /\ Spec
    /\ \A n \in 1 .. MaxRequests :
          WF_vars(RequestEnds(n))

-----------------------------------------------------------------------------
TypeOK ==
    /\ indexed \in Block /\ floor \in Block /\ revision \in 0 .. MaxRevision
    /\ \A n \in Sent : requests[n] \in SentRequest
    /\ active \in Sent \cup {0} /\ aborted \subseteq Sent /\ ended \subseteq Sent
    /\ {answer, held} \subseteq Tagged
    /\ open => selected \in Intent \cup {NoIntent}

(* What the drawer shows was asked for after the user's last transaction   *)
(* and about the selected intent, and is of a block that holds the         *)
(* transaction, whatever arrives late and however often the drawer moved   *)
(* in between (AgentDrawer.tsx:75-78, indexing.spec.ts:85 "receipt floor   *)
(* survives errors, stale responses, agent hash changes and reload").      *)
ReadAfterWrite ==
    Evidence # None =>
        LET r == requests[Evidence.by] IN
        /\ r.revision = revision /\ r.hash = selected
        /\ Evidence.block >= floor /\ Evidence.block >= r.min

(* An answer on screen answers the last question asked, and while a        *)
(* question is under way nothing answers an earlier one                    *)
(* (AgentDrawer.tsx:134-137, 146).                                         *)
AnswerToLast ==
    /\ Shown # None => \A n \in Sent : n > Shown.by => requests[n].kind = "diagnose"
    /\ State = "asking" => Shown = None

(* The drawer never stays at a question: its inputs come back, though the  *)
(* question was aborted by a move, a close or a transaction                *)
(* (AgentDrawer.tsx:113, 161-163, 190-206).                                *)
AskingEnds == open /\ State = "asking" ~> ~(open /\ State = "asking")

=============================================================================
