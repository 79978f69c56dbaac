------------------------------ MODULE Migration ------------------------------
(***************************************************************************)
(* Moving the local records into the shared store                          *)
(* (scripts/migrate-storage.mts).  Every run works out the rows from the   *)
(* local files, refuses when they are in use or contradict each other, and *)
(* writes the rows one by one where the store has none.  A run may die or  *)
(* be stopped by a conflict, and is then run again.  The operator is told  *)
(* to stop all writers first; some may be running still.  Evidence records *)
(* are moved like the jobs are; they and the expiry of rows are left out.  *)
(***************************************************************************)
EXTENDS Integers, SequencesExt, FiniteSetsExt

CONSTANTS
    Claimant,     \* those who claimed tickets
    MaxDeaths,    \* bound: runs that die
    MaxHosted     \* bound: records that a hosted server writes meanwhile
MigrationAssumption == {MaxDeaths, MaxHosted} \subseteq Nat

VARIABLES
    local,        \* what the local files say; it does not change
    target,       \* key -> value, in the shared store
    phase, todo,  \* the run, and the rows it has still to write
    seen,         \* what the store had for the first of them
    deaths, hosted

vars == <<local, target, phase, todo, seen, deaths, hosted>>

JobKey(o) == <<"job", o>>
Quota == <<"quota">>
Active == <<"active">>

\* How far a claim of the old file is: nothing sent, one mint signed, both
\* signed, or both mined.
Progress == {"none", "empty", "one", "both", "mined"}

\* Jobs of the shared files, who of them has the issuer, the claims that they
\* count for today, whether a writer is at work, and the old claims, with those
\* of today.
Local ==
    {l \in [jobs : SUBSET Claimant, active : Claimant \cup {"none"}, quota : 0 .. 1,
            used : BOOLEAN, claims : [Claimant -> Progress], today : SUBSET Claimant] :
        /\ l.active \in l.jobs \cup {"none"}
        /\ \A o \in l.today : l.claims[o] # "none"}

Init ==
    /\ local \in Local
    /\ target = <<>> /\ phase = "off" /\ todo = <<>> /\ seen = "none" /\ deaths = 0 /\ hosted = 0

-----------------------------------------------------------------------------
(* The rows *)

Row(key, value) == [key |-> key, value |-> value]
Old == {o \in Claimant : local.claims[o] # "none" /\ o \notin local.jobs}

\* Mutated form of Pending: a claim with one mint is taken for nothing.
PendingBoth == {o \in Old : local.claims[o] = "both"}

\* Old claims that are not completed keep the issuer for themselves.
Pending == {o \in Old : local.claims[o] \in {"one", "both"}}
Holders == Pending \cup ({local.active} \ {"none"})

Refuses == local.used \/ Cardinality(Holders) > 1

Counted == local.quota + Cardinality(local.today)
Rows ==
    SetToSeq({Row(JobKey(o), "shared") : o \in local.jobs} \cup {Row(JobKey(o), local.claims[o]) : o \in Old})
    \o (IF Counted > 0 THEN <<Row(Quota, ToString(Counted))>> ELSE <<>>)
    \o SetToSeq({Row(Active, o) : o \in Holders})

-----------------------------------------------------------------------------
(* A run with --apply *)

Ends == phase' = "off" /\ todo' = <<>> /\ seen' = "none"

Begin ==
    /\ phase = "off" /\ ~Refuses
    /\ phase' = "read" /\ todo' = Rows
    /\ UNCHANGED <<local, target, seen, deaths, hosted>>

Has(key) == IF key \in DOMAIN target THEN target[key] ELSE "none"

Differs(value, row) == value # "none" /\ value # row.value

\* A row that is there is passed over; another value stops the run.
Read ==
    /\ phase = "read" /\ todo # <<>>
    /\ LET row == Head(todo)  value == Has(row.key) IN
        \/ Differs(value, row) /\ Ends
        \/ ~Differs(value, row) /\ value # "none" /\ todo' = Tail(todo) /\ UNCHANGED <<phase, seen>>
        \/ value = "none" /\ phase' = "write" /\ seen' = value /\ UNCHANGED todo
    /\ UNCHANGED <<local, target, deaths, hosted>>

\* "Concurrent target update; migration stopped."
Write ==
    /\ phase = "write"
    /\ IF Has(Head(todo).key) = seen
       THEN /\ target' = (Head(todo).key :> Head(todo).value) @@ target
            /\ phase' = "read" /\ todo' = Tail(todo) /\ seen' = "none"
       ELSE Ends /\ UNCHANGED target
    /\ UNCHANGED <<local, deaths, hosted>>

Finish ==
    /\ phase = "read" /\ todo = <<>>
    /\ phase' = "done" /\ UNCHANGED <<local, target, todo, seen, deaths, hosted>>

Dies ==
    /\ phase \in {"read", "write"} /\ deaths < MaxDeaths /\ deaths' = deaths + 1
    /\ Ends /\ UNCHANGED <<local, target, hosted>>

\* A hosted server that still runs takes a claim: quota, issuer, job.
HostedWrites == \E key \in {JobKey(o) : o \in Claimant} \cup {Quota, Active} :
    /\ hosted < MaxHosted /\ hosted' = hosted + 1
    /\ key \notin DOMAIN target /\ target' = (key :> "hosted") @@ target
    /\ UNCHANGED <<local, phase, todo, seen, deaths>>

Run == Begin \/ Read \/ Write \/ Finish
Next == Run \/ Dies \/ HostedWrites

Spec == Init /\ [][Next]_vars
FairSpec == Spec /\ WF_vars(Run)

-----------------------------------------------------------------------------
(* Properties *)

TypeOK ==
    /\ phase \in {"off", "read", "write", "done"}
    /\ phase = "write" => todo # <<>> /\ seen = "none"
    /\ DOMAIN target \subseteq {JobKey(o) : o \in Claimant} \cup {Quota, Active}

\* What the store has is never replaced (migrate-storage.mts:60, "no existing
\* record was overwritten").
NothingOverwritten == [][\A key \in DOMAIN target : key \in DOMAIN target' /\ target'[key] = target[key]]_vars

\* When it is done, every claim with a mint that may still be sent keeps the
\* issuer, so that no other takes its nonce (migrate-storage.mts:43-50).
IssuerKept == phase = "done" => \A o \in Claimant :
    Has(JobKey(o)) \in {"one", "both"} => Has(Active) = o

\* Without other writers it is done in the end, however often it died, unless
\* the local files contradict each other.
Ended == phase = "done" \/ Refuses
MigrationEnds == <>(Ended \/ hosted > 0)
=============================================================================
