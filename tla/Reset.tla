-------------------------------- MODULE Reset --------------------------------
(***************************************************************************)
(* The operator's reset on a local development server                      *)
(* (src/app/api/demo/reset/route.ts).  GET hands out a challenge; POST with*)
(* the operator's signature of one starts the preparation script as a child*)
(* process.  Handlers interleave wherever they await.                      *)
(***************************************************************************)
EXTENDS Naturals, FiniteSets

CONSTANTS
    Post,           \* POST requests
    Message,        \* challenges that may be handed out
    MaxChallenges   \* more than these are all forgotten (20)
ResetAssumption == MaxChallenges \in Nat

VARIABLES
    state,      \* 'idle', 'running', 'complete' or 'failed'
    issued,     \* every challenge ever handed out
    challenges, \* challenge -> whether it has expired, for those remembered
    post,       \* request -> its stage, message and signature
    started,    \* challenge -> the scripts it started
    alive       \* scripts running

vars == <<state, issued, challenges, post, started, alive>>

NotSent == [stage |-> "none", message |-> CHOOSE m \in Message : TRUE, signed |-> FALSE]

Init ==
    /\ state = "idle"
    /\ issued = {}
    /\ challenges = [m \in {} |-> FALSE]
    /\ post = [p \in Post |-> NotSent]
    /\ started = [m \in Message |-> 0]
    /\ alive = 0

\* GET: expired challenges go, too many are all forgotten, a new one is kept.
Get ==
    LET fresh == {m \in DOMAIN challenges : ~challenges[m]}
        kept == IF Cardinality(fresh) > MaxChallenges THEN {} ELSE fresh IN
    \E new \in Message \ issued :
        /\ issued' = issued \cup {new}
        /\ challenges' = [m \in kept \cup {new} |-> FALSE]
        /\ UNCHANGED <<state, post, started, alive>>

\* Two minutes pass for a challenge.
Expire(m) ==
    /\ m \in DOMAIN challenges /\ ~challenges[m]
    /\ challenges' = [challenges EXCEPT ![m] = TRUE]
    /\ UNCHANGED <<state, issued, post, started, alive>>

\* POST: refused while a script runs, otherwise its body is awaited.
Begin(p) ==
    /\ post[p].stage = "none"
    /\ \E m \in issued, signed \in BOOLEAN :
        post' = [post EXCEPT ![p] = [stage |-> IF state = "running" THEN "done" ELSE "reading",
                                     message |-> m, signed |-> signed]]
    /\ UNCHANGED <<state, issued, challenges, started, alive>>

To(p, stage) == post' = [post EXCEPT ![p].stage = stage]
Forgotten(m) == [n \in DOMAIN challenges \ {m} |-> challenges[n]]

\* The challenge is forgotten at once; the signature's check is awaited.
Take(p) ==
    /\ post[p].stage = "reading"
    /\ LET m == post[p].message IN
       /\ challenges' = Forgotten(m)
       /\ To(p, IF m \in DOMAIN challenges THEN IF challenges[m] THEN "done" ELSE "verifying" ELSE "done")
    /\ UNCHANGED <<state, issued, started, alive>>

\* The operator's signature starts the script; anything else is refused.
Verified(p) ==
    /\ post[p].stage = "verifying"
    /\ To(p, "done")
    /\ IF post[p].signed
       THEN /\ state' = "running"
            /\ started' = [started EXCEPT ![post[p].message] = @ + 1]
            /\ alive' = alive + 1
       ELSE UNCHANGED <<state, started, alive>>
    /\ UNCHANGED <<issued, challenges>>

\* The script's 'exit' or 'error' event.
Exit ==
    /\ alive > 0 /\ alive' = alive - 1
    /\ state' \in {"complete", "failed"}
    /\ UNCHANGED <<issued, challenges, post, started>>

Next ==
    \/ Get \/ (\E m \in Message : Expire(m))
    \/ \E p \in Post : Begin(p) \/ Take(p) \/ Verified(p)
    \/ Exit

Spec == Init /\ [][Next]_vars

-----------------------------------------------------------------------------
(* A signature of the operator starts the script once, however many        *)
(* requests carry it at the same time (route.ts:33-35).                    *)
StartsOnce == \A m \in Message : started[m] <= 1

(* Concurrent runs are prevented (UI_IMPLEMENTATION.md:53).                *)
OneRun == alive <= 1

=============================================================================
