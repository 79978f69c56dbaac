-------------------------------- MODULE Wallet --------------------------------
(***************************************************************************)
(* The page and the wallet extension (src/lib/hooks/useWallet.ts).  The    *)
(* header's button and the market each run a hook of their own: what it    *)
(* shows of the account comes from the extension's events and from         *)
(* requests that take time, while the user switches accounts and chains in *)
(* the extension.  Actions run after the wallet was made ready, and some   *)
(* of them ask it to display tickets (src/lib/wallet-nfts.ts).             *)
(* Messages of the extension arrive in the order it sends them; an answer  *)
(* that comes after its time-out is ignored.                               *)
(***************************************************************************)
EXTENDS Naturals

CONSTANTS
    Account, NoAccount,
    Hook,           \* the mounted hooks
    Market,         \* the hook of Market.tsx: only it runs actions
    MayConnect,     \* whether the user presses Connect
    MaxSwitches     \* bound: switches the user makes in the extension
WalletAssumption ==
    /\ NoAccount \notin Account /\ Market \in Hook
    /\ MayConnect \in BOOLEAN /\ MaxSwitches \in Nat

VARIABLES
    selected,   \* the account selected in the extension
    permitted,  \* whether this site may see it
    onArc,      \* whether the extension is on Arc Testnet
    switches,
    account,    \* hook -> the account it shows
    moved,      \* hook -> whether its revision left the initial one
    initial,    \* hook -> the read made when it is mounted
    connect,    \* hook -> its connect() or disconnect()
    run         \* the market hook's runWithWallet()

extensionVars == <<selected, permitted, onArc, switches>>
hookVars == <<account, moved, initial, connect, run>>
vars == <<extensionVars, hookVars>>

MaybeAccount == Account \cup {NoAccount}

\* A request sequence: its stage, and the account an earlier answer gave.
Idle == [stage |-> "idle", address |-> NoAccount]
Connecting == [stage : {"idle", "accounts", "chain", "revoke"}, address : MaybeAccount]
Running == [stage : {"idle", "accounts", "request", "chain", "switch", "chain2", "check",
                     "acting", "holder", "again", "watch"},
            address : MaybeAccount]

\* eth_accounts
Visible == IF permitted THEN selected ELSE NoAccount

Init ==
    /\ selected \in Account /\ permitted \in BOOLEAN /\ onArc \in BOOLEAN /\ switches = 0
    /\ account = [h \in Hook |-> NoAccount]
    /\ moved = [h \in Hook |-> FALSE]
    /\ initial = [h \in Hook |-> [stage |-> "accounts", address |-> NoAccount]]
    /\ connect = [h \in Hook |-> Idle]
    /\ run = Idle

\* An event reaches every hook: it counts as a revision of each.
Emit(a) == account' = [h \in Hook |-> a] /\ moved' = [h \in Hook |-> TRUE]
Moves(h) == moved' = [moved EXCEPT ![h] = TRUE]

\* Permission is given, if it was not, and the accounts with it.
Grants ==
    /\ permitted' = TRUE
    /\ IF permitted THEN UNCHANGED <<account, moved>> ELSE Emit(selected)

-----------------------------------------------------------------------------
(* The user in the extension *)

Switching == switches < MaxSwitches /\ switches' = switches + 1

\* accountsChanged
SwitchAccount(a) ==
    /\ Switching
    /\ a # selected /\ selected' = a
    /\ IF permitted THEN Emit(a) ELSE UNCHANGED <<account, moved>>
    /\ UNCHANGED <<permitted, onArc, initial, connect, run>>

\* chainChanged
SwitchChain ==
    /\ Switching
    /\ onArc' = ~onArc
    /\ moved' = [h \in Hook |-> TRUE]
    /\ UNCHANGED <<selected, permitted, account, initial, connect, run>>

\* disconnect: the provider lost its network
LoseNetwork ==
    /\ Switching
    /\ Emit(NoAccount)
    /\ UNCHANGED <<selected, permitted, onArc, initial, connect, run>>

\* The site's permission is taken away.
Forget ==
    /\ Switching
    /\ permitted /\ permitted' = FALSE
    /\ Emit(NoAccount)
    /\ UNCHANGED <<selected, onArc, initial, connect, run>>

\* A prompt is approved after its time-out, or the site is connected from the
\* extension's own menu.
Permit ==
    /\ Switching
    /\ ~permitted /\ permitted' = TRUE
    /\ Emit(selected)
    /\ UNCHANGED <<selected, onArc, initial, connect, run>>

-----------------------------------------------------------------------------
(* The read made on mounting *)

InitialAccounts(h) ==
    /\ initial[h].stage = "accounts"
    /\ initial' = [initial EXCEPT ![h] = [stage |-> "chain", address |-> Visible]]
    /\ UNCHANGED <<extensionVars, account, moved, connect, run>>

\* Mutated form of InitialChain: shown although something newer arrived.
InitialChainAlways(h) ==
    /\ initial[h].stage = "chain"
    /\ initial' = [initial EXCEPT ![h] = Idle]
    /\ account' = [account EXCEPT ![h] = initial[h].address]
    /\ UNCHANGED <<extensionVars, moved, connect, run>>

\* Both answers are there: they are shown if nothing newer arrived.
InitialChain(h) ==
    /\ initial[h].stage = "chain"
    /\ initial' = [initial EXCEPT ![h] = Idle]
    /\ account' = IF moved[h] THEN account ELSE [account EXCEPT ![h] = initial[h].address]
    /\ UNCHANGED <<extensionVars, moved, connect, run>>

InitialFails(h) ==
    /\ initial[h].stage # "idle"
    /\ initial' = [initial EXCEPT ![h] = Idle]
    /\ UNCHANGED <<extensionVars, account, moved, connect, run>>

-----------------------------------------------------------------------------
(* connect() *)

ConnectBegins(h) ==
    /\ MayConnect /\ connect[h].stage = "idle"
    /\ connect' = [connect EXCEPT ![h].stage = "accounts"]
    /\ Moves(h)
    /\ UNCHANGED <<extensionVars, account, initial, run>>

\* eth_requestAccounts
ConnectAccounts(h) ==
    /\ connect[h].stage = "accounts"
    /\ Grants
    /\ connect' = [connect EXCEPT ![h] = [stage |-> "chain", address |-> selected]]
    /\ UNCHANGED <<selected, onArc, switches, initial, run>>

\* The answer names no account.
ConnectEmpty(h) ==
    /\ connect[h].stage = "accounts"
    /\ account' = [account EXCEPT ![h] = NoAccount]
    /\ connect' = [connect EXCEPT ![h] = Idle]
    /\ UNCHANGED <<extensionVars, moved, initial, run>>

\* eth_chainId, then the account of the earlier answer is shown.
ConnectChain(h) ==
    /\ connect[h].stage = "chain"
    /\ account' = [account EXCEPT ![h] = connect[h].address]
    /\ connect' = [connect EXCEPT ![h] = Idle]
    /\ UNCHANGED <<extensionVars, moved, initial, run>>

\* disconnect(), with no action pending in this hook
DisconnectBegins(h) ==
    /\ MayConnect /\ connect[h].stage = "idle"
    /\ h = Market => run.stage = "idle"
    /\ connect' = [connect EXCEPT ![h].stage = "revoke"]
    /\ Moves(h)
    /\ UNCHANGED <<extensionVars, account, initial, run>>

\* wallet_revokePermissions: the permission goes, and the account in every hook
\* with it; this hook's is cleared in any case.
Revoke(h) ==
    /\ connect[h].stage = "revoke"
    /\ permitted' = FALSE
    /\ IF permitted THEN Emit(NoAccount)
       ELSE account' = [account EXCEPT ![h] = NoAccount] /\ UNCHANGED moved
    /\ connect' = [connect EXCEPT ![h] = Idle]
    /\ UNCHANGED <<selected, onArc, switches, initial, run>>

\* Refused, timed out, or failed.
ConnectFails(h) ==
    /\ connect[h].stage # "idle"
    /\ connect' = [connect EXCEPT ![h] = Idle]
    /\ UNCHANGED <<extensionVars, account, moved, initial, run>>

-----------------------------------------------------------------------------
(* runWithWallet() *)

RunTo(stage, a) == run' = [stage |-> stage, address |-> a]
OthersStay == UNCHANGED <<account, moved, initial, connect>>

RunBegins ==
    /\ run.stage = "idle"
    /\ RunTo("accounts", NoAccount)
    /\ Moves(Market)
    /\ UNCHANGED <<extensionVars, account, initial, connect>>

RunAccounts ==
    /\ run.stage = "accounts"
    /\ RunTo(IF Visible = NoAccount THEN "request" ELSE "chain", Visible)
    /\ UNCHANGED extensionVars /\ OthersStay

RunRequest ==
    /\ run.stage = "request"
    /\ Grants
    /\ RunTo("chain", selected)
    /\ UNCHANGED <<selected, onArc, switches, initial, connect>>

RunChain ==
    /\ run.stage = "chain"
    /\ RunTo(IF onArc THEN "chain2" ELSE "switch", run.address)
    /\ UNCHANGED extensionVars /\ OthersStay

\* wallet_switchEthereumChain, after wallet_addEthereumChain where it is unknown.
RunSwitch ==
    /\ run.stage = "switch"
    /\ onArc' = TRUE
    /\ moved' = IF onArc THEN moved ELSE [h \in Hook |-> TRUE]
    /\ RunTo("chain2", run.address)
    /\ UNCHANGED <<selected, permitted, switches, account, initial, connect>>

RunChain2 ==
    /\ run.stage = "chain2"
    /\ IF onArc THEN RunTo("check", run.address) ELSE run' = Idle
    /\ UNCHANGED extensionVars /\ OthersStay

\* The account is read again, shown, and the action runs with it.
RunCheck ==
    /\ run.stage = "check"
    /\ IF Visible = run.address
       THEN RunTo("acting", Visible) /\ account' = [account EXCEPT ![Market] = Visible]
       ELSE run' = Idle /\ UNCHANGED account
    /\ UNCHANGED <<extensionVars, moved, initial, connect>>

\* The action ends, or any request before it is refused or times out.
RunEnds ==
    /\ run.stage # "idle"
    /\ run' = Idle
    /\ UNCHANGED extensionVars /\ OthersStay

-----------------------------------------------------------------------------
(* requestTicketImports(), for one ticket *)

IsReceiver == Visible = run.address /\ onArc

\* The first check, before the ownership read.
ImportCheck ==
    /\ run.stage = "acting"
    /\ run' = IF IsReceiver THEN [run EXCEPT !.stage = "holder"] ELSE Idle
    /\ UNCHANGED extensionVars /\ OthersStay

\* The ticket's holder is read from the chain; a ticket held elsewhere is skipped.
ImportHolder ==
    /\ run.stage = "holder"
    /\ \E held \in BOOLEAN : run' = IF held THEN [run EXCEPT !.stage = "again"] ELSE Idle
    /\ UNCHANGED extensionVars /\ OthersStay

\* The second check, then wallet_watchAsset.
ImportAgain ==
    /\ run.stage = "again"
    /\ run' = IF IsReceiver THEN [run EXCEPT !.stage = "watch"] ELSE Idle
    /\ UNCHANGED extensionVars /\ OthersStay

\* The extension imports into the account selected when the request reaches it,
\* and the next ticket follows.
Import ==
    /\ run.stage = "watch"
    /\ run' = [run EXCEPT !.stage = "acting"]
    /\ UNCHANGED extensionVars /\ OthersStay

-----------------------------------------------------------------------------
User == (\E a \in Account : SwitchAccount(a)) \/ SwitchChain \/ LoseNetwork \/ Forget \/ Permit
InitialStep(h) == InitialAccounts(h) \/ InitialChain(h) \/ InitialFails(h)
ConnectStep(h) ==
    ConnectAccounts(h) \/ ConnectEmpty(h) \/ ConnectChain(h) \/ Revoke(h) \/ ConnectFails(h)
RunStep ==
    \/ RunAccounts \/ RunRequest \/ RunChain \/ RunSwitch \/ RunChain2 \/ RunCheck \/ RunEnds
    \/ ImportCheck \/ ImportHolder \/ ImportAgain \/ Import

Next ==
    \/ User
    \/ \E h \in Hook : InitialStep(h) \/ ConnectBegins(h) \/ DisconnectBegins(h) \/ ConnectStep(h)
    \/ RunBegins \/ RunStep

Spec == Init /\ [][Next]_vars

-----------------------------------------------------------------------------
TypeOK ==
    /\ selected \in Account /\ permitted \in BOOLEAN /\ onArc \in BOOLEAN
    /\ switches \in 0 .. MaxSwitches
    /\ account \in [Hook -> MaybeAccount] /\ moved \in [Hook -> BOOLEAN]
    /\ initial \in [Hook -> Connecting] /\ connect \in [Hook -> Connecting]
    /\ run \in Running

(* While nobody presses Connect, a hook at rest shows the account the site *)
(* may see, or none: a read made on mounting never hides a switch that     *)
(* came while it was under way (useWallet.ts:59-66).                       *)
ShowsSelected == \A h \in Hook :
    initial[h].stage = "idle" /\ connect[h].stage = "idle" /\ run.stage = "idle"
        => account[h] \in {NoAccount, Visible}

(* A hook that shows the selected account comes to show another only by    *)
(* connect(), whose answer was given before the last switch and is shown   *)
(* after it, since it does not compare the revision (useWallet.ts:95-96);  *)
(* not by events, mounting, actions or the other hook.                     *)
OnlyConnectMisleads == [][\A h \in Hook :
    account[h] \in {NoAccount, Visible} /\ account'[h] \notin {NoAccount, Visible'}
        => connect[h].address = account'[h] /\ connect[h].stage = "chain"]_vars

(* An action begins for the account that is selected when it begins,       *)
(* however long the prompts before it took (useWallet.ts:113-133).         *)
ActsAsSelected == [][run.stage # "acting" /\ run'.stage = "acting" /\ run.stage # "watch"
    => run'.address = Visible']_vars

(* An account switched during the ownership read stops the import: the     *)
(* request goes out only if the receiver was selected after that read      *)
(* (wallet-nfts.ts:17-19, claim-tickets.spec.ts:219).                      *)
ImportsToReceiver == [][run'.stage = "watch" => Visible' = run'.address]_<<run>>

(* The offering step shows only the connected wallet's tickets: those of   *)
(* the account the market's hook shows (UI_IMPLEMENTATION.md:136).  It does*)
(* not hold after connect(), see OnlyConnectMisleads.                      *)
ShowsConnectedWallet ==
    initial[Market].stage = "idle" /\ connect[Market].stage = "idle" /\ run.stage = "idle"
        => account[Market] \in {NoAccount, Visible}

=============================================================================
