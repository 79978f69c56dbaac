------------------------------ MODULE Workspace ------------------------------
(***************************************************************************)
(* The trading page (src/component/market/Market.tsx): searches for a match,*)
(* wallet and judge actions that write to the chain, and the match kept for*)
(* review, over one market store.  Searches overlap: one that was given up *)
(* goes on at the server and its answer still arrives.  The page's effects *)
(* run after a render, their timers later still.  The account follows the  *)
(* wallet (module Wallet) at any time, an action's prompts included.       *)
(***************************************************************************)
EXTENDS MarketStore, FiniteSets

CONSTANTS
    Account, NoAccount,
    Other,          \* owners of requests who act elsewhere
    MaxRequests,    \* bound: requests of one owner
    MaxSwitches,    \* bound: switches of the account
    MaxSearches     \* bound: searches not yet answered
WorkspaceAssumption ==
    /\ NoAccount \notin Account \cup Other /\ Account \cap Other = {}
    /\ MaxRequests \in Nat /\ MaxSwitches \in Nat /\ MaxSearches \in Nat

VARIABLES
    head,       \* the chain's newest block
    chain,      \* block -> owner -> its latest request
    switches,
    account,    \* the wallet hook's account
    rendered,   \* the account the page's callbacks were made with
    effect,     \* whether the account's effect has still to run
    clearing,   \* whether its timer is set
    searches,   \* requests to the solver that are not answered
    inFlight, solving,
    match,      \* proposal and evidence
    action,     \* the wallet or judge action that runs
    queued,     \* matchAfterCommit
    armed       \* whether the queue's timer is set

chainVars == <<head, chain>>
accountVars == <<switches, account, rendered, effect, clearing>>
searchVars == <<searches, inFlight, solving>>
vars == <<storeVars, chainVars, accountVars, searchVars, match, action, queued, armed>>

Owner == Account \cup Other
MaybeAccount == Account \cup {NoAccount}

\* An owner's latest request: its number and whether it can be executed ("open"),
\* is live without its tickets in custody ("bare"), or is settled, revoked or
\* expired.  Earlier requests of the same owner are left out.
State == {"closed", "open", "bare"}
Nothing == [n |-> 0, state |-> "closed"]

Live(b, o) == chain[b][o].state # "closed"
Executable(b) == {<<o, chain[b][o].n>> : o \in {p \in Owner : chain[b][p].state = "open"}}

\* latestRequest(), if it is live.
NoRequest == <<>>
Personal(a) ==
    IF a # NoAccount /\ market # NoBlock /\ Live(market, a) THEN <<a, chain[market][a].n>> ELSE NoRequest

\* A match: its requests, the floor of its search, the block it was found at,
\* and the account it was searched for.
NoMatch == [legs |-> {}, floor |-> 0, block |-> 0, account |-> NoAccount]
Match == [legs : SUBSET (Owner \X (1 .. MaxRequests)), floor : Block, block : Block, account : MaybeAccount]

Search == [current : BOOLEAN, revision : BOOLEAN, account : MaybeAccount,
           target : (Owner \X (1 .. MaxRequests)) \cup {NoRequest}, floor : Block]

Kind == {"write", "sign", "settle", "attack", "judge"}
NoAction == [kind |-> "write", stage |-> "none", address |-> NoAccount, match |-> NoMatch, block |-> 0]
Stage == {"none", "wallet", "acting", "sent", "committing", "committed", "signing", "mined",
          "reverted", "done"}

Init ==
    /\ StoreInit
    /\ head = 0
    /\ chain = [b \in Block |-> [o \in Owner |-> IF o \in Other THEN [n |-> 1, state |-> "open"] ELSE Nothing]]
    /\ switches = 0
    /\ account \in MaybeAccount /\ rendered = account
    /\ effect = FALSE /\ clearing = FALSE
    /\ searches = {} /\ inFlight = FALSE /\ solving = FALSE
    /\ match = NoMatch
    /\ action = NoAction
    /\ queued = FALSE /\ armed = FALSE

-----------------------------------------------------------------------------
(* Parts of the handlers *)

Idle == action.stage = "none"

\* The queue's effect runs again: what it depends on may have changed.
Rearm == armed' = (queued' /\ market' # NoBlock /\ action'.stage = "none" /\ ~indexing')

\* searchVersion.current++; searchInFlight.current = false
Abandon ==
    /\ searches' = {[s EXCEPT !.current = FALSE] : s \in searches}
    /\ inFlight' = FALSE

AbandonShown == Abandon /\ solving' = FALSE

\* A newer floor makes every search under way one of an older revision.
Outdate ==
    /\ searches' = {[s EXCEPT !.current = FALSE, !.revision = FALSE] : s \in searches}
    /\ inFlight' = FALSE /\ solving' = FALSE

NoteReceipt(b) == RequireBlock(b) /\ Outdate /\ match' = NoMatch

\* matchUnavailable()
Unavailable(m) ==
    /\ m # NoMatch /\ market >= m.block
    /\ ~(m.legs \subseteq Executable(market))

\* readyMatch, for the account the page was rendered with
Ready ==
    /\ match # NoMatch /\ ~Unavailable(match)
    /\ rendered = NoAccount \/ Personal(rendered) \in match.legs

\* A block is mined with owner o's latest request now r.
Mine(o, r) ==
    /\ head < MaxBlock /\ head' = head + 1
    /\ chain' = [b \in Block |-> IF b > head THEN [chain[b] EXCEPT ![o] = r] ELSE chain[b]]

-----------------------------------------------------------------------------
(* The account *)

SwitchAccount(a) ==
    /\ switches < MaxSwitches /\ switches' = switches + 1
    /\ a # account /\ account' = a
    /\ UNCHANGED <<storeVars, chainVars, rendered, effect, clearing, searchVars, match, action, queued, armed>>

Render ==
    /\ rendered # account
    /\ rendered' = account /\ effect' = TRUE
    /\ UNCHANGED <<storeVars, chainVars, switches, account, clearing, searchVars, match, action, queued, armed>>

AccountEffect ==
    /\ effect /\ effect' = FALSE
    /\ Abandon
    /\ clearing' = TRUE
    /\ UNCHANGED <<storeVars, chainVars, switches, account, rendered, solving, match, action, queued>>
    /\ Rearm

AccountTimer ==
    /\ clearing /\ clearing' = FALSE
    /\ solving' = FALSE /\ match' = NoMatch
    /\ UNCHANGED <<storeVars, chainVars, switches, account, rendered, effect, searches, inFlight, action, queued, armed>>

-----------------------------------------------------------------------------
(* Searches *)

Refused ==
    /\ AbandonShown
    /\ match' = NoMatch

\* runSolver(), past its first check: with a wallet, only for its live request.
RunSolver ==
    LET own == Personal(rendered) IN
    IF rendered # NoAccount /\ own = NoRequest THEN Refused
    ELSE /\ Cardinality(searches) < MaxSearches
         /\ searches' = {[s EXCEPT !.current = FALSE] : s \in searches}
              \cup {[current |-> TRUE, revision |-> TRUE, account |-> rendered, target |-> own,
                     floor |-> Minimum]}
         /\ inFlight' = TRUE /\ solving' = TRUE
         /\ UNCHANGED match

\* Check all intents, Run solver, or Find my match, which alone is not disabled
\* while a search is queued.
SearchPressed ==
    /\ market # NoBlock /\ ~indexing /\ Idle /\ ~inFlight /\ ~solving
    /\ queued => Personal(rendered) # NoRequest
    /\ RunSolver
    /\ UNCHANGED <<storeVars, chainVars, accountVars, action, queued, armed>>

\* The same for chosen requests that leave the wallet's own out.
SearchRefused ==
    /\ market # NoBlock /\ ~indexing /\ Idle /\ ~inFlight /\ ~solving /\ ~queued
    /\ rendered # NoAccount
    /\ Refused
    /\ UNCHANGED <<storeVars, chainVars, accountVars, action, queued, armed>>

\* The timer of a queued search: if one is under way it comes back only when the
\* effect runs again.
QueueTimer ==
    /\ armed /\ armed' = FALSE
    /\ IF inFlight THEN UNCHANGED <<searchVars, match, queued>> ELSE queued' = FALSE /\ RunSolver
    /\ UNCHANGED <<storeVars, chainVars, accountVars, action>>

\* What the solver may find: executable requests at a block the floor allows,
\* the target among them.
Found(s) ==
    {m \in UNION {[legs : {L \in SUBSET Executable(b) : Cardinality(L) >= 2}, floor : {s.floor},
                   block : {b}, account : {s.account}] : b \in s.floor .. head} :
        s.target # NoRequest => s.target \in m.legs}

Answered(s) ==
    /\ searches' = searches \ {s}
    /\ IF s.current THEN inFlight' = FALSE /\ solving' = FALSE ELSE UNCHANGED <<inFlight, solving>>

\* Mutated form of Adopts: a search that was given up is adopted.
AdoptsAnyVersion(s) == s.revision
Adopts(s) == s.current /\ s.revision

\* A match, none, or one that does not change the wallet's tickets.
SearchAnswers(s) ==
    /\ s \in searches
    /\ Answered(s)
    /\ IF Adopts(s) THEN match' \in Found(s) \cup {NoMatch} ELSE UNCHANGED match
    /\ UNCHANGED <<storeVars, chainVars, accountVars, action, queued, armed>>

SearchFails(s) ==
    /\ s \in searches
    /\ Answered(s)
    /\ match' = IF s.current THEN NoMatch ELSE match
    /\ UNCHANGED <<storeVars, chainVars, accountVars, action, queued, armed>>

\* A match of which a part is known to be gone is taken from review.
DropMatch ==
    /\ Idle /\ Unavailable(match)
    /\ Refused
    /\ UNCHANGED <<storeVars, chainVars, accountVars, action, queued, armed>>

\* The pool's checkboxes
SelectIntent ==
    /\ ~indexing /\ Idle
    /\ Refused
    /\ UNCHANGED <<storeVars, chainVars, accountVars, action, queued, armed>>

-----------------------------------------------------------------------------
(* Actions *)

To(stage) == action' = [action EXCEPT !.stage = stage]

\* action() and operate(); settle's callback holds the match it was rendered with.
Begin(kind) ==
    /\ Idle /\ ~indexing /\ market # NoBlock
    /\ kind = "settle" => Ready /\ ~solving
    /\ kind = "attack" => match # NoMatch /\ ~solving
    /\ action' = [kind |-> kind, stage |-> IF kind = "judge" THEN "acting" ELSE "wallet",
                  address |-> NoAccount, block |-> 0,
                  match |-> IF kind = "settle" THEN match ELSE NoMatch]
    /\ AbandonShown
    /\ UNCHANGED <<storeVars, chainVars, accountVars, match, queued>>
    /\ Rearm

\* runWithWallet() made the wallet ready.
Prepared(a) ==
    /\ action.stage = "wallet"
    /\ action' = [action EXCEPT !.stage = "acting", !.address = a]
    /\ account' = a
    /\ UNCHANGED <<storeVars, chainVars, switches, rendered, effect, clearing, searchVars, match, queued, armed>>

\* It ends, or anything it awaits throws.
End ==
    /\ ~Idle /\ action' = NoAction
    /\ UNCHANGED <<storeVars, chainVars, accountVars, searchVars, match, queued>>
    /\ Rearm

\* A deposit, withdrawal, claim, approval, revocation or redemption, and the
\* USDC approval that may come before a commitment.
SendWrite ==
    /\ action.stage = "acting" /\ action.kind \in {"write", "sign"}
    /\ LET now == chain[head][action.address] IN
       \E s \in State :
          /\ s # now.state => now.state # "closed" /\ action.kind = "write"
          /\ Mine(action.address, [now EXCEPT !.state = s])
    /\ action' = [action EXCEPT !.stage = "sent", !.block = head']
    /\ UNCHANGED <<storeVars, accountVars, searchVars, match, queued, armed>>

\* The server revokes, or revokes and replaces, a demo participant's request.
JudgeWrites(o) ==
    /\ action.stage = "acting" /\ action.kind = "judge"
    /\ o \in Other /\ Live(head, o)
    /\ LET now == chain[head][o] IN
       \/ Mine(o, [now EXCEPT !.state = "closed"])
       \/ now.n < MaxRequests /\ Mine(o, [now EXCEPT !.n = @ + 1])
    /\ action' = [action EXCEPT !.stage = "sent", !.block = head']
    /\ UNCHANGED <<storeVars, accountVars, searchVars, match, queued, armed>>

\* Its receipt, a judge's answer, or the confirmed part of a failed one.
Receipt ==
    /\ action.stage = "sent"
    /\ NoteReceipt(action.block)
    /\ To("acting")
    /\ UNCHANGED <<chainVars, accountVars, queued>>
    /\ Rearm

\* signAndCommitIntent()
SendCommit ==
    /\ action.stage = "acting" /\ action.kind = "sign"
    /\ LET now == chain[head][action.address] IN
       now.n < MaxRequests /\ Mine(action.address, [n |-> now.n + 1, state |-> "open"])
    /\ action' = [action EXCEPT !.stage = "committing", !.block = head']
    /\ UNCHANGED <<storeVars, accountVars, searchVars, match, queued, armed>>

CommitReceipt ==
    /\ action.stage = "committing"
    /\ NoteReceipt(action.block)
    /\ To("committed")
    /\ UNCHANGED <<chainVars, accountVars, queued>>
    /\ Rearm

\* After the refresh, whether or not it succeeded.
Committed ==
    /\ action.stage = "committed"
    /\ Refused
    /\ queued' = TRUE
    /\ To("done")
    /\ UNCHANGED <<storeVars, chainVars, accountVars>>
    /\ Rearm

-----------------------------------------------------------------------------
(* Settling *)

OwnRequest == Personal(action.address)

\* The match is still known to be available and swaps the acting wallet's request.
Reviewed ==
    /\ ~Unavailable(action.match)
    /\ OwnRequest # NoRequest /\ OwnRequest \in action.match.legs

\* The simulation runs on the chain as it is.
Simulate ==
    /\ action.stage = "acting" /\ action.kind = "settle" /\ Reviewed
    /\ IF action.match.legs \subseteq Executable(head)
       THEN To("signing") /\ UNCHANGED match
       ELSE match' = NoMatch /\ action' = NoAction
    /\ UNCHANGED <<storeVars, chainVars, accountVars, searchVars, queued>>
    /\ Rearm

\* A block without a change of any request.
MineNothing == head < MaxBlock /\ head' = head + 1 /\ UNCHANGED chain

\* Nothing was reserved: by the time it is mined it may be stale.
SendSettlement ==
    /\ action.stage = "signing"
    /\ IF action.match.legs \subseteq Executable(head)
       THEN /\ head < MaxBlock /\ head' = head + 1
            /\ chain' = [b \in Block |-> IF b > head
                  THEN [o \in Owner |-> IF <<o, chain[b][o].n>> \in action.match.legs
                                        THEN [chain[b][o] EXCEPT !.state = "closed"] ELSE chain[b][o]]
                  ELSE chain[b]]
            /\ action' = [action EXCEPT !.stage = "mined", !.block = head']
       ELSE MineNothing /\ To("reverted")
    /\ UNCHANGED <<storeVars, accountVars, searchVars, match, queued, armed>>

\* A dishonest proposal, sent after its simulation failed as announced.
SendAttack ==
    /\ action.stage = "acting" /\ action.kind = "attack"
    /\ MineNothing /\ To("reverted")
    /\ UNCHANGED <<storeVars, accountVars, searchVars, match, queued, armed>>

SettlementReceipt ==
    /\ action.stage = "mined"
    /\ NoteReceipt(action.block)
    /\ To("done")
    /\ UNCHANGED <<chainVars, accountVars, queued>>
    /\ Rearm

RevertedReceipt ==
    /\ action.stage = "reverted"
    /\ match' = NoMatch
    /\ To("done")
    /\ UNCHANGED <<storeVars, chainVars, accountVars, searchVars, queued, armed>>

-----------------------------------------------------------------------------
\* A refresh is answered (module MarketFreshness).
Refreshed ==
    /\ \E b \in Block : b <= head /\ Publish(b)
    /\ UNCHANGED <<chainVars, accountVars, searchVars, match, action, queued>>
    /\ Rearm

\* Owners commit, revoke, withdraw and let expire elsewhere.
Elsewhere(o) ==
    /\ LET now == chain[head][o] IN
       \/ now.n < MaxRequests /\ Mine(o, [n |-> now.n + 1, state |-> "open"])
       \/ \E s \in State \ {now.state} : now.state # "closed" /\ Mine(o, [now EXCEPT !.state = s])
    /\ UNCHANGED <<storeVars, accountVars, searchVars, match, action, queued, armed>>

AccountStep == Render \/ AccountEffect \/ AccountTimer
ActionStep ==
    \/ \E a \in Account : Prepared(a)
    \/ SendWrite \/ SendCommit \/ (\E o \in Other : JudgeWrites(o))
    \/ Receipt \/ CommitReceipt \/ Committed
    \/ Simulate \/ SendSettlement \/ SendAttack \/ SettlementReceipt \/ RevertedReceipt

Next ==
    \/ \E a \in MaybeAccount : SwitchAccount(a)
    \/ AccountStep
    \/ SearchPressed \/ SearchRefused \/ QueueTimer \/ DropMatch \/ SelectIntent
    \/ \E s \in searches : SearchAnswers(s) \/ SearchFails(s)
    \/ \E kind \in Kind : Begin(kind)
    \/ ActionStep \/ End
    \/ Refreshed
    \/ \E o \in Owner : Elsewhere(o)

Spec == Init /\ [][Next]_vars

SearchEnds == \E s \in searches : SearchFails(s)
IndexFollows == indexing /\ Refreshed

\* Effects run, actions and searches end, a required block is published in the
\* end (MarketFreshness!WriteIsShown), and a timer of no delay is not for ever
\* overtaken by the user's next click.
FairSpec ==
    /\ Spec
    /\ WF_vars(AccountStep) /\ SF_vars(QueueTimer)
    /\ WF_vars(Committed) /\ WF_vars(End)
    /\ WF_vars(SearchEnds) /\ WF_vars(IndexFollows)

-----------------------------------------------------------------------------
TypeOK ==
    /\ market \in Block \cup {NoBlock} /\ floor \in 0 .. head /\ indexing \in BOOLEAN
    /\ head \in Block /\ market <= head
    /\ chain \in [Block -> [Owner -> [n : 0 .. MaxRequests, state : State]]]
    /\ account \in MaybeAccount /\ rendered \in MaybeAccount
    /\ searches \subseteq Search /\ match \in Match
    /\ action \in [kind : Kind, stage : Stage, address : MaybeAccount, match : Match, block : Block]

(* A match in review was searched for at the block of every write of the   *)
(* user that the page knows, or later, although searches begun before a    *)
(* receipt are answered after it (Market.tsx:163-173, 253-257).            *)
MatchSeesWrites == match # NoMatch => match.floor >= floor

(* A late search for the previous account never becomes the new account's  *)
(* match, once the page has settled on the account (Market.tsx:181-186).   *)
MatchForAccount ==
    match # NoMatch /\ rendered = account /\ ~effect /\ ~clearing => match.account = account

(* The page never waits for a search nobody runs: its buttons come back,   *)
(* whatever gave the search up (Market.tsx:156-159, 179-185).                 *)
SearchingHonest ==
    /\ inFlight => \E s \in searches : s.current
    /\ solving => inFlight \/ effect \/ clearing

(* A settlement that is mined swaps a request of the wallet that sent it,  *)
(* the one the page was showing it, whatever account the review was for    *)
(* (Market.tsx:449-454).                                                   *)
SettlesOwnRequest == [][action'.stage = "mined" =>
    \E n \in 1 .. MaxRequests : <<action.address, n>> \in action.match.legs]_<<action>>

(* After a commitment a search is begun at its block or later, however the *)
(* read-back is delayed and whoever else searches (Market.tsx:205-215).    *)
CommitIsSearched ==
    action.kind = "sign" /\ action.stage = "done" /\ queued ~> (~queued \/ inFlight)

(* A queued search stays queued only until the receipt's floor is reached  *)
(* (Market.tsx:206-207): the search buttons wait for it.                   *)
QueueEmpties == queued ~> ~queued

=============================================================================
