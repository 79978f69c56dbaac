------------------------------ MODULE MCPanels ------------------------------
(*****************************************************************************)
(* The requests the agent's server admits, the agent's drawer, the judge's  *)
(* controls and the queued search side by side, for TLC, with what must     *)
(* happen in the end.                                                       *)
(*****************************************************************************)
EXTENDS AgentRequest, TLC

CONSTANTS ana, cat, mine, other, none, gone, k1, k2, r1, r2

VARIABLES part, indexed, floor, indexing, revision, open, selected, requests,
          active, aborted, ended, answer, held, phase, chain, limit, made,
          jobs, session, access, pool, pending, hash, edited, running,
          request, leaving, loads, typed, followed, signedOut, market, head,
          switches, account, rendered, effect, clearing, searches, inFlight,
          solving, match, action, queued, armed

panelsVars == <<part, indexed, floor, indexing, revision, open, selected, requests,
          active, aborted, ended, answer, held, phase, chain, limit, made,
          jobs, session, access, pool, pending, hash, edited, running,
          request, leaving, loads, typed, followed, signedOut, market, head,
          switches, account, rendered, effect, clearing, searches, inFlight,
          solving, match, action, queued, armed, now, buckets, admitted,
          told, req>>

\* A client's limit.
Limits == (k1 :> 1) @@ (k2 :> 2)

-----------------------------------------------------------------------------
\* The agent's requests are the module this one extends: two, of one or two
\* clients, admitted by Redis.

\* The agent's drawer over the market store.
Drawer == INSTANCE AgentPanel WITH Intent <- {mine, other}, NoIntent <- none,
    MaxBlock <- 1, MaxRevision <- 1, MaxRequests <- 3

\* The judge's controls.
Controls == INSTANCE JudgePanel WITH First <- {1, 2}, MaxHash <- 3,
    Budget <- {1}, Gone <- gone, MaxBlock <- 2, MaxLoads <- 3

\* A wallet's commitment and the search it queues.
Committing == INSTANCE Workspace WITH Account <- {ana}, NoAccount <- none,
    Other <- {cat}, MaxBlock <- 2, MaxRequests <- 1, MaxSwitches <- 0,
    MaxSearches <- 1

-----------------------------------------------------------------------------
(* The parts take no notice of each other: a behaviour is one of one part, *)
(* and the variables of the others rest.                                   *)

Idle == "idle"

NotAgentPanel == <<chain, limit, made, jobs, session, access, pool, pending,
                   hash, edited, running, request, leaving, loads, typed,
                   followed, signedOut, market, head, switches, account,
                   rendered, effect, clearing, searches, inFlight, solving,
                   match, action, queued, armed, vars>>
AgentPanelAlone == /\ chain = Idle /\ limit = Idle /\ made = Idle
                   /\ jobs = Idle /\ session = Idle /\ access = Idle
                   /\ pool = Idle /\ pending = Idle /\ hash = Idle
                   /\ edited = Idle /\ running = Idle /\ request = Idle
                   /\ leaving = Idle /\ loads = Idle /\ typed = Idle
                   /\ followed = Idle /\ signedOut = Idle /\ market = Idle
                   /\ head = Idle /\ switches = Idle /\ account = Idle
                   /\ rendered = Idle /\ effect = Idle /\ clearing = Idle
                   /\ searches = Idle /\ inFlight = Idle /\ solving = Idle
                   /\ match = Idle /\ action = Idle /\ queued = Idle
                   /\ armed = Idle
                   /\ Init

NotJudgePanel == <<indexed, open, selected, requests, active, aborted, ended,
                   answer, held, phase, market, head, switches, account,
                   rendered, effect, clearing, searches, inFlight, solving,
                   match, action, queued, armed, vars>>
JudgePanelAlone == /\ indexed = Idle /\ open = Idle /\ selected = Idle
                   /\ requests = Idle /\ active = Idle /\ aborted = Idle
                   /\ ended = Idle /\ answer = Idle /\ held = Idle
                   /\ phase = Idle /\ market = Idle /\ head = Idle
                   /\ switches = Idle /\ account = Idle /\ rendered = Idle
                   /\ effect = Idle /\ clearing = Idle /\ searches = Idle
                   /\ inFlight = Idle /\ solving = Idle /\ match = Idle
                   /\ action = Idle /\ queued = Idle /\ armed = Idle
                   /\ Init

NotWorkspace == <<indexed, revision, open, selected, requests, active,
                  aborted, ended, answer, held, phase, limit, made, jobs,
                  session, access, pool, pending, hash, edited, running,
                  request, leaving, loads, typed, followed, signedOut, vars>>
WorkspaceAlone == /\ indexed = Idle /\ revision = Idle /\ open = Idle
                  /\ selected = Idle /\ requests = Idle /\ active = Idle
                  /\ aborted = Idle /\ ended = Idle /\ answer = Idle
                  /\ held = Idle /\ phase = Idle /\ limit = Idle
                  /\ made = Idle /\ jobs = Idle /\ session = Idle
                  /\ access = Idle /\ pool = Idle /\ pending = Idle
                  /\ hash = Idle /\ edited = Idle /\ running = Idle
                  /\ request = Idle /\ leaving = Idle /\ loads = Idle
                  /\ typed = Idle /\ followed = Idle /\ signedOut = Idle
                  /\ Init

NotAgentRequest == <<indexed, floor, indexing, revision, open, selected,
                     requests, active, aborted, ended, answer, held, phase,
                     chain, limit, made, jobs, session, access, pool, pending,
                     hash, edited, running, request, leaving, loads, typed,
                     followed, signedOut, market, head, switches, account,
                     rendered, effect, clearing, searches, inFlight, solving,
                     match, action, queued, armed>>
AgentRequestAlone == /\ indexed = Idle /\ floor = Idle /\ indexing = Idle
                     /\ revision = Idle /\ open = Idle /\ selected = Idle
                     /\ requests = Idle /\ active = Idle /\ aborted = Idle
                     /\ ended = Idle /\ answer = Idle /\ held = Idle
                     /\ phase = Idle /\ chain = Idle /\ limit = Idle
                     /\ made = Idle /\ jobs = Idle /\ session = Idle
                     /\ access = Idle /\ pool = Idle /\ pending = Idle
                     /\ hash = Idle /\ edited = Idle /\ running = Idle
                     /\ request = Idle /\ leaving = Idle /\ loads = Idle
                     /\ typed = Idle /\ followed = Idle /\ signedOut = Idle
                     /\ market = Idle /\ head = Idle /\ switches = Idle
                     /\ account = Idle /\ rendered = Idle /\ effect = Idle
                     /\ clearing = Idle /\ searches = Idle /\ inFlight = Idle
                     /\ solving = Idle /\ match = Idle /\ action = Idle
                     /\ queued = Idle /\ armed = Idle

PanelsInit ==
    \/ part = "requests" /\ Init /\ AgentRequestAlone
    \/ part = "agent" /\ Drawer!Init /\ AgentPanelAlone
    \/ part = "judge" /\ Controls!Init /\ JudgePanelAlone
    \/ part = "commit" /\ Committing!Init /\ WorkspaceAlone

PanelsNext ==
    /\ UNCHANGED part
    /\ \/ part = "requests" /\ Next /\ UNCHANGED NotAgentRequest
       \/ part = "agent" /\ Drawer!Next /\ UNCHANGED NotAgentPanel
       \/ part = "judge" /\ Controls!Next /\ UNCHANGED NotJudgePanel
       \/ part = "commit" /\ Committing!Next /\ UNCHANGED NotWorkspace

PanelsSpec ==
    /\ PanelsInit /\ [][PanelsNext]_panelsVars
    \* agent
    /\ WF_(Drawer!vars)(part = "agent" /\ Drawer!RequestEnds(1))
    /\ WF_(Drawer!vars)(part = "agent" /\ Drawer!RequestEnds(2))
    /\ WF_(Drawer!vars)(part = "agent" /\ Drawer!RequestEnds(3))
    \* judge
    /\ WF_(Controls!vars)(part = "judge" /\ Controls!LoadEnds(1))
    /\ WF_(Controls!vars)(part = "judge" /\ Controls!LoadEnds(2))
    /\ WF_(Controls!vars)(part = "judge" /\ Controls!LoadEnds(3))
    /\ WF_(Controls!vars)(part = "judge" /\ Controls!ActionEnds)
    \* commit
    /\ WF_(Committing!vars)(part = "commit" /\ Committing!AccountStep)
    /\ SF_(Committing!vars)(part = "commit" /\ Committing!QueueTimer)
    /\ WF_(Committing!vars)(part = "commit" /\ Committing!Committed)
    /\ WF_(Committing!vars)(part = "commit" /\ Committing!End)
    /\ WF_(Committing!vars)(part = "commit" /\ Committing!SearchEnds)
    /\ WF_(Committing!vars)(part = "commit" /\ Committing!IndexFollows)

-----------------------------------------------------------------------------
ASSUME PanelsFit ==
    /\ AgentRequestAssumption
    /\ Drawer!PanelAssumption /\ Controls!JudgeAssumption /\ Committing!WorkspaceAssumption

PanelsTypeOK ==
    /\ TypeOK
    /\ part = "agent" => Drawer!TypeOK
    /\ part = "judge" => Controls!TypeOK
    /\ part = "commit" => Committing!TypeOK

-----------------------------------------------------------------------------
\* What the drawer shows was asked after the user's last transaction and about the
\* selected intent (AgentDrawer.tsx:75-78).
ReadAfterWrite == part = "agent" => Drawer!ReadAfterWrite

\* An answer on screen answers the last question asked (AgentDrawer.tsx:134-146).
AnswerToLast == part = "agent" => Drawer!AnswerToLast

\* A budget is applied to the intent it was typed for (JudgeControls.tsx:50-53, 93).
TypedForIt == part = "judge" => Controls!TypedForIt

\* The selection follows an intent to the one that replaced it
\* (JudgeControls.tsx:60, 76-82).
SelectionFollows == part = "judge" => Controls!SelectionFollows

\* The list on screen is never older than the judge's last action
\* (JudgeControls.tsx:59-72).
ListSeesActions == part = "judge" => Controls!ListSeesActions

\* The inputs come back: the drawer does not stay at a question
\* (AgentDrawer.tsx:113, 161-163), nor the controls at an action
\* (JudgeControls.tsx:113-115).
InputsComeBack == []<>(
    /\ part = "agent" => ~(open /\ Drawer!State = "asking")
    /\ part = "judge" => running = "")

\* After a commitment a search is begun at its block or later (Market.tsx:205-215).
CommitIsSearched ==
    (part = "commit" /\ action.kind = "sign" /\ action.stage = "done" /\ queued)
        ~> (part = "commit" => ~queued \/ inFlight)

-----------------------------------------------------------------------------
(* What the run checks *)

\* What the drawer and the controls show and send belongs to the intent that is
\* selected and to the last action, whichever answer comes late
\* (AgentDrawer.tsx:75-78, 134-146, JudgeControls.tsx:50-93).
LateAnswersIgnored ==
    PanelsTypeOK /\ ReadAfterWrite /\ AnswerToLast /\ TypedForIt /\ SelectionFollows /\ ListSeesActions

\* The inputs come back, and a commitment is searched (AgentDrawer.tsx:113, 161-163,
\* JudgeControls.tsx:113-115, Market.tsx:205-215).
PanelsRest == InputsComeBack /\ CommitIsSearched

=============================================================================
