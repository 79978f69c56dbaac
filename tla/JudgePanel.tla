----------------------------- MODULE JudgePanel -----------------------------
(***************************************************************************)
(* The judge's controls (src/component/market/JudgeControls.tsx with       *)
(* operate, applyJudgeBudget and revokeJudgeIntent of Market.tsx): a list  *)
(* of live demo intents, one selected, a budget typed for it, and actions  *)
(* the server carries out on the chain.  A changed budget is a new intent. *)
(*                                                                         *)
(* The list is loaded by two requests, the session and then the pool; the  *)
(* answer of one may arrive long after it was made.                        *)
(***************************************************************************)
EXTENDS Integers, Sequences, FiniteSets

CONSTANTS
    First,         \* the intents there are at first
    MaxHash,       \* bound: intents; each change makes the next one
    Budget,        \* what a judge may type
    Gone,          \* stands for no budget: the intent is revoked
    MaxBlock,      \* bound: blocks
    MaxLoads       \* bound: loads of the list
JudgeAssumption ==
    /\ Gone \notin Budget
    /\ First \subseteq 1 .. MaxHash /\ First # {}
    /\ {MaxHash, MaxBlock, MaxLoads} \subseteq Nat

Hash == 1 .. MaxHash
NoHash == 0

VARIABLES
    chain,         \* block -> the live intents
    limit,         \* intent -> its signed budget
    made,          \* how many intents there were so far
    jobs,          \* the actions the server has begun
    session,       \* is this browser signed in, at the server
    floor, indexing, revision,   \* the market store
    access, pool, pending, hash, edited,
                   \* the panel: signed in, lists, selection, typed budget
    running,       \* the action under way, or ""
    request,       \* what it asks of the server
    leaving,       \* whether a sign-out is under way
    loads,         \* the loads of the list so far
    typed,         \* the budgets typed so far, each for an intent
    followed,      \* the intent the last change made, until it is gone or the judge picks another
    signedOut      \* a sign-out was confirmed, and no sign-in was made since

storeVars == <<floor, indexing, revision>>
worldVars == <<chain, limit, made, jobs, session>>
panelVars == <<access, pool, pending, hash, edited>>
ghostVars == <<typed, followed, signedOut>>
vars == <<worldVars, storeVars, panelVars, running, request, leaving, loads, ghostVars>>

NoEdit == <<NoHash, 0>>
NoRequest == [hash |-> NoHash, value |-> Gone]
Live == chain[Len(chain)]

\* stage: session asked or answered, pool asked or answered, over.
Load(select, byRun) ==
    [stage |-> "session?", revision |-> revision, floor |-> floor, select |-> select,
     run |-> byRun, said |-> FALSE, pool |-> {}, jobs |-> {}]
Over == [stage |-> "over"]
Loading == {n \in DOMAIN loads : loads[n].stage # "over"}
More == Len(loads) < MaxLoads

Init ==
    /\ chain = <<First>> /\ limit = [h \in Hash |-> 0]
    /\ made = Cardinality(First)
    /\ jobs = {} /\ session \in BOOLEAN
    /\ floor = 1 /\ indexing = FALSE /\ revision = 0
    /\ access = FALSE /\ pool = {} /\ pending = {} /\ hash = NoHash /\ edited = NoEdit
    /\ running = "" /\ request = NoRequest /\ leaving = "no"
    /\ loads = <<[stage |-> "session?", revision |-> 0, floor |-> 1, select |-> NoHash,
                  run |-> FALSE, said |-> FALSE, pool |-> {}, jobs |-> {}]>>
    /\ typed = {} /\ followed = NoHash /\ signedOut = FALSE

-----------------------------------------------------------------------------
(* Loading the list *)

\* No receipt was noted since the load began.
IsCurrent(n) == loads[n].revision = revision
Becomes(n, l) == loads' = [loads EXCEPT ![n] = l]

\* Mutated form of End: only a load that is read through releases the controls.
EndOfPool(n) ==
    /\ Becomes(n, Over)
    /\ running' = IF loads[n].run /\ loads[n].stage = "pool" THEN "" ELSE running

\* A load ends, and the action that waits for it.
End(n) ==
    /\ Becomes(n, Over)
    /\ running' = IF loads[n].run THEN "" ELSE running

Unfinished == {j \in jobs : ~j.done}

SessionAnswered(n) ==
    /\ loads[n].stage = "session?"
    /\ Becomes(n, [loads[n] EXCEPT !.stage = "session", !.said = session])
    /\ UNCHANGED <<worldVars, storeVars, panelVars, running, request, leaving, ghostVars>>

SessionRead(n) ==
    /\ loads[n].stage = "session"
    /\ CASE ~IsCurrent(n) -> End(n) /\ UNCHANGED <<access, pool, pending>>
         [] IsCurrent(n) /\ ~loads[n].said -> access' = FALSE /\ pool' = {} /\ pending' = {} /\ End(n)
         [] OTHER -> /\ access' = TRUE
                     /\ Becomes(n, [loads[n] EXCEPT !.stage = "pool?"])
                     /\ UNCHANGED <<pool, pending, running>>
    /\ UNCHANGED <<worldVars, storeVars, hash, edited, request, leaving, ghostVars>>

\* The pool at some block that is new enough, for a judge who is signed in.
PoolAnswered(n) ==
    /\ loads[n].stage = "pool?"
    /\ \E b \in loads[n].floor .. Len(chain) :
        Becomes(n, [loads[n] EXCEPT !.stage = "pool", !.said = session,
                                    !.pool = IF session THEN chain[b] ELSE {},
                                    !.jobs = IF session THEN Unfinished ELSE {}])
    /\ UNCHANGED <<worldVars, storeVars, panelVars, running, request, leaving, ghostVars>>

\* The selection stays while it is live; else it is the first of the list.
Selection(n) ==
    LET next == IF loads[n].select # NoHash THEN loads[n].select ELSE hash IN
    IF next \in loads[n].pool THEN {next}
    ELSE IF loads[n].pool = {} THEN {NoHash} ELSE loads[n].pool

PoolRead(n) ==
    /\ loads[n].stage = "pool"
    /\ IF IsCurrent(n)
       THEN /\ pool' = loads[n].pool
            /\ IF loads[n].said
               THEN pending' = loads[n].jobs /\ hash' \in Selection(n)
               ELSE UNCHANGED <<pending, hash>>
       ELSE UNCHANGED <<pool, pending, hash>>
    /\ followed' = IF followed # NoHash /\ pool' = loads[n].pool /\ followed \notin pool' THEN NoHash ELSE followed
    /\ End(n)
    /\ UNCHANGED <<worldVars, storeVars, access, edited, request, leaving, typed, signedOut>>

LoadFails(n) ==
    /\ n \in Loading
    /\ pool' = IF IsCurrent(n) THEN {} ELSE pool
    /\ End(n)
    /\ UNCHANGED <<worldVars, storeVars, access, pending, hash, edited, request, leaving, ghostVars>>

-----------------------------------------------------------------------------
(* The judge *)

Locked == running # "" \/ indexing
Selected == IF hash \in pool THEN hash ELSE NoHash

\* The budget in the field: what was typed for this intent, else its own.
Shown == IF edited # NoEdit /\ edited[1] = Selected THEN edited[2] ELSE limit[Selected]

SignIn ==
    /\ ~access /\ ~Locked /\ More
    /\ session' = TRUE
    /\ running' = "login"
    /\ loads' = Append(loads, Load(NoHash, TRUE))
    /\ signedOut' = FALSE
    /\ UNCHANGED <<chain, limit, made, jobs, storeVars, panelVars, request, leaving, typed, followed>>

Pick(h) ==
    /\ access /\ ~Locked /\ h \in pool \ {hash}
    /\ hash' = h
    /\ followed' = NoHash
    /\ UNCHANGED <<worldVars, storeVars, access, pool, pending, edited, running, request, leaving, loads, typed, signedOut>>

Type(v) ==
    /\ access /\ ~Locked /\ Selected # NoHash
    /\ edited' = <<Selected, v>> /\ edited' # edited
    /\ typed' = typed \cup {edited'}
    /\ UNCHANGED <<worldVars, storeVars, access, pool, pending, hash, running, request, leaving, loads, followed, signedOut>>

Apply ==
    /\ access /\ ~Locked /\ More /\ Selected # NoHash
    /\ Shown # limit[Selected]
    /\ running' = "apply"
    /\ request' = [hash |-> Selected, value |-> Shown]
    /\ UNCHANGED <<worldVars, storeVars, panelVars, leaving, loads, ghostVars>>

Revoke ==
    /\ access /\ ~Locked /\ More /\ Selected # NoHash
    /\ running' = "revoke"
    /\ request' = [hash |-> Selected, value |-> Gone]
    /\ UNCHANGED <<worldVars, storeVars, panelVars, leaving, loads, ghostVars>>

\* An action that was begun and not finished is asked for again.
Resume(j) ==
    /\ access /\ ~Locked /\ More /\ j \in pending
    /\ running' = "resume"
    /\ request' = [hash |-> j.hash, value |-> j.value]
    /\ UNCHANGED <<worldVars, storeVars, panelVars, leaving, loads, ghostVars>>

\* After an action the list is loaded, or, while the index is waited for, the
\* selection moves at once.
Reload(select) ==
    IF indexing'
    THEN /\ running' = ""
         /\ hash' = IF select # NoHash THEN select ELSE hash
         /\ UNCHANGED loads
    ELSE loads' = Append(loads, [Load(select, TRUE) EXCEPT !.revision = revision', !.floor = floor'])
         /\ UNCHANGED <<running, hash>>

-----------------------------------------------------------------------------
(* The server *)

Asked == {j \in jobs : j.hash = request.hash /\ j.value = request.value}
Job(next, done) ==
    [hash |-> request.hash, value |-> request.value, next |-> next, done |-> done, block |-> Len(chain) + 1]

\* The action was carried out before, wholly or its revocation: nothing more
\* happens now, and what was confirmed is told again.
Kept == Asked # {} /\ UNCHANGED <<chain, limit, made, jobs>>

\* Revoked before, the replacement is committed now.
Replaced ==
    \E j \in Asked :
        /\ ~j.done /\ Len(chain) < MaxBlock
        /\ chain' = Append(chain, Live \cup {j.next})
        /\ jobs' = (jobs \ {j}) \cup {[j EXCEPT !.done = TRUE, !.block = Len(chain) + 1]}
        /\ UNCHANGED <<limit, made>>

\* Begun: the intent is revoked, and its replacement committed with it or not.
Begun ==
    /\ Asked = {} /\ request.hash \in Live /\ Len(chain) < MaxBlock
    /\ \/ /\ request.value = Gone
          /\ chain' = Append(chain, Live \ {request.hash})
          /\ jobs' = jobs \cup {Job(NoHash, TRUE)}
          /\ UNCHANGED <<limit, made>>
       \/ /\ request.value # Gone /\ made < MaxHash
          /\ made' = made + 1
          /\ limit' = [limit EXCEPT ![made + 1] = request.value]
          /\ \E done \in BOOLEAN :
                /\ jobs' = jobs \cup {Job(made + 1, done)}
                /\ chain' = Append(chain, IF done THEN (Live \ {request.hash}) \cup {made + 1}
                                                 ELSE Live \ {request.hash})

\* noteReceipt: the floor rises before anything is read.
Note(b) ==
    /\ floor' = IF b > floor THEN b ELSE floor
    /\ indexing' = TRUE
    /\ revision' = revision + 1

\* The server acts and its answer arrives: a result, or an error that tells the
\* revocation was confirmed.
Carried ==
    /\ request # NoRequest /\ session /\ revision < MaxBlock
    /\ Kept \/ Replaced \/ Begun
    /\ \E j \in jobs' :
        /\ j.hash = request.hash /\ j.value = request.value
        /\ Note(j.block)
        /\ IF j.done
           THEN edited' = NoEdit /\ followed' = j.next /\ Reload(j.next)
           ELSE UNCHANGED edited /\ followed' = NoHash /\ Reload(NoHash)
    /\ request' = NoRequest
    /\ UNCHANGED <<session, access, pool, pending, leaving, typed, signedOut>>

\* The server refuses or fails, or acts and its answer is lost.
Refused ==
    /\ request # NoRequest /\ More
    /\ \/ UNCHANGED <<chain, limit, made, jobs>>
       \/ session /\ (Replaced \/ Begun)
    /\ request' = NoRequest
    /\ UNCHANGED storeVars
    /\ Reload(NoHash)
    /\ UNCHANGED <<session, access, pool, pending, edited, leaving, ghostVars>>

\* Signing out: asked, done at the server, confirmed.
SignOut ==
    /\ access /\ ~Locked /\ leaving = "no"
    /\ leaving' = "asked"
    /\ UNCHANGED <<worldVars, storeVars, panelVars, running, request, loads, ghostVars>>

LeftServer ==
    /\ leaving = "asked"
    /\ leaving' = "left"
    /\ session' = FALSE
    /\ UNCHANGED <<chain, limit, made, jobs, storeVars, panelVars, running, request, loads, ghostVars>>

SignedOut ==
    /\ leaving = "left"
    /\ leaving' = "no"
    /\ access' = FALSE /\ pool' = {} /\ pending' = {}
    /\ signedOut' = ~session
    /\ UNCHANGED <<worldVars, storeVars, hash, edited, running, request, loads, typed, followed>>

-----------------------------------------------------------------------------
\* The market has been read at the floor, and the panel loads its list.
Refreshed ==
    /\ indexing /\ More
    /\ indexing' = FALSE
    /\ loads' = Append(loads, Load(NoHash, FALSE))
    /\ UNCHANGED <<worldVars, floor, revision, panelVars, running, request, leaving, ghostVars>>

\* Somebody else revokes or settles an intent.
Other(h) ==
    /\ Len(chain) < MaxBlock /\ h \in Live
    /\ chain' = Append(chain, Live \ {h})
    /\ UNCHANGED <<limit, made, jobs, session, storeVars, panelVars, running, request, leaving, loads, ghostVars>>

LoadStep(n) ==
    SessionAnswered(n) \/ SessionRead(n) \/ PoolAnswered(n) \/ PoolRead(n) \/ LoadFails(n)

Next ==
    \/ \E n \in Loading : LoadStep(n)
    \/ SignIn \/ Apply \/ Revoke \/ Carried \/ Refused \/ SignOut \/ LeftServer \/ SignedOut \/ Refreshed
    \/ \E h \in Hash : Pick(h) \/ Other(h)
    \/ \E v \in Budget : Type(v)
    \/ \E j \in pending : Resume(j)

Spec == Init /\ [][Next]_vars

LoadEnds(n) == n \in Loading /\ LoadStep(n)
ActionEnds == Refused \/ Carried

\* Requests end: the loads, the actions.
FairSpec ==
    /\ Spec
    /\ \A n \in 1 .. MaxLoads : WF_vars(LoadEnds(n))
    /\ WF_vars(ActionEnds)

-----------------------------------------------------------------------------
TypeOK ==
    /\ \A b \in DOMAIN chain : chain[b] \subseteq 1 .. made
    /\ pool \subseteq 1 .. made /\ hash \in 0 .. made
    /\ floor \in 1 .. Len(chain) /\ revision \in 0 .. MaxBlock
    /\ running \in {"", "login", "apply", "revoke", "resume"}
    /\ request # NoRequest => running \in {"apply", "revoke", "resume"}
    /\ pending \subseteq {j \in [hash : 1 .. made, value : Budget, next : 1 .. made,
                                 done : {FALSE}, block : DOMAIN chain] : TRUE}
    /\ \A n \in Loading : loads[n].floor <= floor

(* The budget a judge applies to an intent was typed for that very intent, *)
(* though the selection moves under the field when a list arrives          *)
(* (JudgeControls.tsx:50-53, 93).                                          *)
TypedForIt == request.value # Gone => <<request.hash, request.value>> \in typed

(* After a budget change the selection is the intent that replaced the old *)
(* one whenever the list holds it, whichever lists arrive in between       *)
(* (JudgeControls.tsx:14-16 "The selection below follows that new hash",   *)
(* 60, 76-82).                                                             *)
SelectionFollows == followed # NoHash /\ followed \in pool => hash = followed

(* The list on screen is never older than the judge's last action once the *)
(* index has reached it and no list is under way (JudgeControls.tsx:59-72).*)
ListSeesActions ==
    ~indexing /\ running = "" /\ Loading = {} /\ pool # {} =>
        \E b \in floor .. Len(chain) : pool = chain[b]

(* The controls come back after every action, whatever fails on the way    *)
(* (JudgeControls.tsx:113-115).                                            *)
RunEnds == running # "" ~> running = ""

(* What the browser's test is named for: a confirmed sign-out hides the     *)
(* editable intents, until somebody signs in again (indexing.spec.ts:274   *)
(* "signing out hides editable intents").  Two loads under way bring them  *)
(* back.                                                                   *)
HidesIntents == signedOut => ~(access /\ pool # {})

=============================================================================
