------------------------------- MODULE MCPage -------------------------------
(*****************************************************************************)
(* The market page's own parts side by side, for TLC: wallet, workspace,    *)
(* intent builder.                                                          *)
(*****************************************************************************)
EXTENDS Integers, FiniteSets, Sequences

CONSTANTS ana, ben, cat, none, header, page

VARIABLES part, selected, permitted, onArc, switches, account, moved, initial,
          connect, run, market, floor, indexing, head, chain, rendered,
          effect, clearing, searches, inFlight, solving, match, action,
          queued, armed, custody, used, recorded, approvals, allowance, now,
          seen, draft, prepared, step, reached, job, outside, edits,
          disturbed, wasted

vars == <<part, selected, permitted, onArc, switches, account, moved, initial,
          connect, run, market, floor, indexing, head, chain, rendered,
          effect, clearing, searches, inFlight, solving, match, action,
          queued, armed, custody, used, recorded, approvals, allowance, now,
          seen, draft, prepared, step, reached, job, outside, edits,
          disturbed, wasted>>

\* Each wallet's first ticket is in a section of its own, and a session's
\* trading ends as the next begins.
Holder(t) == IF t = 1 THEN ana ELSE ben
SectionPrice(s) == 9 + s
SectionOf(t) == t
Close(s) == s

-----------------------------------------------------------------------------
\* The wallet hooks as they mount and follow the extension; with connections
\* and actions.
Mounted == INSTANCE Wallet WITH Account <- {ana, ben}, NoAccount <- none,
    Hook <- {header, page}, Market <- page, MayConnect <- FALSE,
    MaxSwitches <- 3

Acting == INSTANCE Wallet WITH Account <- {ana, ben}, NoAccount <- none,
    Hook <- {header, page}, Market <- page, MayConnect <- TRUE,
    MaxSwitches <- 1

\* The workspace over two blocks; and with switches of the account and
\* overlapping searches.
Review == INSTANCE Workspace WITH Account <- {ana, ben}, NoAccount <- none,
    Other <- {cat}, MaxBlock <- 2, MaxRequests <- 1, MaxSwitches <- 0,
    MaxSearches <- 1

Switched == INSTANCE Workspace WITH Account <- {ana, ben}, NoAccount <- none,
    Other <- {cat}, MaxBlock <- 1, MaxRequests <- 1, MaxSwitches <- 1,
    MaxSearches <- 2

\* The intent builder: two wallets with a ticket each, in sections of different
\* price.
Builder == INSTANCE IntentDraft WITH Account <- {ana, ben}, Nobody <- none,
    Ticket <- {1, 2}, First <- Holder, Section <- {1, 2},
    Price <- SectionPrice, Place <- SectionOf, Session <- {1, 2},
    Cutoff <- Close, MaxCount <- 2, MaxNow <- 1, MaxNonce <- 1,
    MaxOutside <- 1, MaxEdits <- 2

-----------------------------------------------------------------------------
(* The parts take no notice of each other: a behaviour is one of one part, *)
(* and the variables of the others rest.                                   *)

Idle == "idle"

NotWallet == <<market, floor, indexing, head, chain, rendered, effect,
               clearing, searches, inFlight, solving, match, action, queued,
               armed, custody, used, recorded, approvals, allowance, now,
               seen, draft, prepared, step, reached, job, outside, edits,
               disturbed, wasted>>
WalletAlone == /\ market = Idle /\ floor = Idle /\ indexing = Idle
               /\ head = Idle /\ chain = Idle /\ rendered = Idle
               /\ effect = Idle /\ clearing = Idle /\ searches = Idle
               /\ inFlight = Idle /\ solving = Idle /\ match = Idle
               /\ action = Idle /\ queued = Idle /\ armed = Idle
               /\ custody = Idle /\ used = Idle /\ recorded = Idle
               /\ approvals = Idle /\ allowance = Idle /\ now = Idle
               /\ seen = Idle /\ draft = Idle /\ prepared = Idle
               /\ step = Idle /\ reached = Idle /\ job = Idle
               /\ outside = Idle /\ edits = Idle /\ disturbed = Idle
               /\ wasted = Idle

NotWorkspace == <<selected, permitted, onArc, moved, initial, connect, run,
                  custody, used, recorded, approvals, allowance, now, seen,
                  draft, prepared, step, reached, job, outside, edits,
                  disturbed, wasted>>
WorkspaceAlone == /\ selected = Idle /\ permitted = Idle /\ onArc = Idle
                  /\ moved = Idle /\ initial = Idle /\ connect = Idle
                  /\ run = Idle /\ custody = Idle /\ used = Idle
                  /\ recorded = Idle /\ approvals = Idle /\ allowance = Idle
                  /\ now = Idle /\ seen = Idle /\ draft = Idle
                  /\ prepared = Idle /\ step = Idle /\ reached = Idle
                  /\ job = Idle /\ outside = Idle /\ edits = Idle
                  /\ disturbed = Idle /\ wasted = Idle

NotIntentDraft == <<selected, permitted, onArc, switches, moved, initial,
                    connect, run, market, floor, head, chain, rendered,
                    effect, clearing, searches, inFlight, solving, match,
                    action, queued, armed>>
IntentDraftAlone == /\ selected = Idle /\ permitted = Idle /\ onArc = Idle
                    /\ switches = Idle /\ moved = Idle /\ initial = Idle
                    /\ connect = Idle /\ run = Idle /\ market = Idle
                    /\ floor = Idle /\ head = Idle /\ chain = Idle
                    /\ rendered = Idle /\ effect = Idle /\ clearing = Idle
                    /\ searches = Idle /\ inFlight = Idle /\ solving = Idle
                    /\ match = Idle /\ action = Idle /\ queued = Idle
                    /\ armed = Idle

Init ==
    \/ part = "mount" /\ Mounted!Init /\ WalletAlone
    \/ part = "actions" /\ Acting!Init /\ WalletAlone
    \/ part = "review" /\ Review!Init /\ WorkspaceAlone
    \/ part = "switched" /\ Switched!Init /\ WorkspaceAlone
    \/ part = "draft" /\ Builder!Init /\ IntentDraftAlone

Next ==
    /\ UNCHANGED part
    /\ \/ part = "mount" /\ Mounted!Next /\ UNCHANGED NotWallet
       \/ part = "actions" /\ Acting!Next /\ UNCHANGED NotWallet
       \/ part = "review" /\ Review!Next /\ UNCHANGED NotWorkspace
       \/ part = "switched" /\ Switched!Next /\ UNCHANGED NotWorkspace
       \/ part = "draft" /\ Builder!Next /\ UNCHANGED NotIntentDraft

Spec ==
    /\ Init /\ [][Next]_vars

-----------------------------------------------------------------------------
ASSUME PageFits ==
    /\ Mounted!WalletAssumption /\ Acting!WalletAssumption
    /\ Review!WorkspaceAssumption /\ Switched!WorkspaceAssumption /\ Builder!DraftAssumption

TypeOK ==
    /\ part = "mount" => Mounted!TypeOK
    /\ part = "actions" => Acting!TypeOK
    /\ part = "review" => Review!TypeOK
    /\ part = "switched" => Switched!TypeOK
    /\ part = "draft" => Builder!TypeOK

-----------------------------------------------------------------------------
\* A hook goes over to an account that is not the selected one only by the late answer
\* to connect() (useWallet.ts:95-96).
OnlyConnectMisleads == [][(part \in {"mount", "actions"}) => \A h \in {header, page} :
    account[h] \in {none, Acting!Visible} /\ account'[h] \notin {none, Acting!Visible'}
        => connect[h].address = account'[h] /\ connect[h].stage = "chain"]_vars

\* An action begins for the account selected when it begins (useWallet.ts:113-133).
ActsAsSelected == [][(part = "actions" /\ run.stage # "acting" /\ run'.stage = "acting" /\ run.stage # "watch")
    => run'.address = Acting!Visible']_vars

\* A ticket is offered only to the account that received it (wallet-nfts.ts:17-19).
ImportsToReceiver == [][(part = "actions" /\ run'.stage = "watch")
    => Acting!Visible' = run'.address]_<<part, run>>

\* A match in review was searched for at every write of the user the page knows
\* (Market.tsx:163-173, 253-257).
MatchSeesWrites ==
    /\ part = "review" => Review!MatchSeesWrites
    /\ part = "switched" => Switched!MatchSeesWrites

\* A late search for the account before never becomes the new account's match
\* (Market.tsx:181-186).
MatchForAccount ==
    /\ part = "review" => Review!MatchForAccount
    /\ part = "switched" => Switched!MatchForAccount

\* The page never waits for a search nobody runs (Market.tsx:156-159, 179-185).
SearchingHonest ==
    /\ part = "review" => Review!SearchingHonest
    /\ part = "switched" => Switched!SearchingHonest

\* A mined settlement swaps a request of the wallet that sent it (Market.tsx:449-454).
SettlesOwnRequest == [][(part = "review" /\ action'.stage = "mined") =>
    \E n \in 1 .. 1 : <<action.address, n>> \in action.match.legs]_<<part, action>>

\* A transaction of the page is one the chain takes, unless somebody else acted
\* while the page checked (Market.tsx:358-408).
NothingWasted == part = "draft" => Builder!NothingWasted

\* What the builder shows is the connected account's own (IntentBuilder.tsx:66-76).
ShownIsOwn == part = "draft" => Builder!ShownIsOwn

\* No edit is lost to an intent prepared before it (IntentBuilder.tsx:74-79).
NoEditLost == part = "draft" => Builder!NoEditLost

-----------------------------------------------------------------------------
(* What the run checks *)

\* What the wallet does is done for the account that is selected at that moment, and
\* what it shows is the selected account's, whatever the order in which the
\* extension's answers and events came, except that the answer to connect() may be
\* shown after an account change that it does not know of (useWallet.ts:59-133, 95-96,
\* wallet-nfts.ts:17-19).
WalletHonest ==
    /\ [](part = "mount" => Mounted!ShowsSelected) /\ OnlyConnectMisleads
    /\ ActsAsSelected /\ ImportsToReceiver

\* A match in review is the account's own, was searched for after its last write,
\* and settles its own request; the page waits for no search that nobody runs
\* (Market.tsx:156-186, 253-257, 449-454).
MatchesOwn ==
    [](TypeOK /\ MatchSeesWrites /\ MatchForAccount /\ SearchingHonest) /\ SettlesOwnRequest

\* A draft's transactions are taken, its intent is the account's, and edits are not
\* lost (IntentBuilder.tsx:66-79, Market.tsx:358-408).
DraftKept == NothingWasted /\ ShownIsOwn /\ NoEditLost

=============================================================================
