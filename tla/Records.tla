------------------------------- MODULE Records -------------------------------
(***************************************************************************)
(* The records that the server's routes keep in the durable store: claim   *)
(* challenges, evidence with its receipt, judge sessions, permissions and  *)
(* replacements of demo intents, and request quotas.                       *)
(*                                                                         *)
(* A request is a sequence of steps.  Nearly every step has one shape: get *)
(* the record, decide, compareAndSet what was read to what follows from it.*)
(* Between the two, any other request may have its turn.  compareAndSet is *)
(* atomic (AtomicStore; FileStore shows it of the disk backend).           *)
(***************************************************************************)
EXTENDS Integers, Sequences, FiniteSets, SequenceTheorems, TLAPS

CONSTANTS
    Worker,         \* requests served at the same time
    Challenge,      \* messages to sign, each with its own random nonce
    Evidence, Hash, \* evidence records; transaction hashes reported for them
    Session,        \* random judge tokens
    Intent, Root,   \* demo intents, and the ones the operator configured
    None, Unread,
    MaxQuota,       \* requests let through in a window
    Attempts,       \* rounds of compareAndSet before a quota gives up
    MaxHops,        \* replacements followed
    Changes,        \* the changes of a demo intent a judge asks for: old and new
    MaxFaults       \* bound: crashes and lost replies

Receipt == [tx : Hash \cup {None}, confirmed : BOOLEAN]
Access == [version : {1, 2}]

\* None and Unread are no records; a changed intent has a nonce of its own, so it
\* replaces one intent and is none of the operator's.
RecordsAssumption ==
    /\ Root \subseteq Intent /\ Changes \subseteq Intent \X Intent
    /\ \A a, b \in Changes : a[2] \notin Root /\ (a[2] = b[2] => a = b)
    /\ MaxQuota \in Nat \ {0} /\ Attempts \in Nat \ {0} /\ MaxHops \in Nat \ {0}
    /\ MaxFaults \in Nat
    /\ None # Unread
    /\ \A x \in {None, Unread} : x # "open" /\ x \notin Receipt \cup Access /\ x \notin Intent /\ x \notin Nat

VARIABLES
    store,      \* key -> record, or None
    todo,       \* worker -> the steps its request has left
    raw,        \* worker -> what it read, or Unread
    tries,      \* worker -> rounds or hops of the current step
    code,       \* the version of the judge access code
    live,       \* demo intents committed and not revoked on the chain
    past,       \* demo intents revoked
    issued,     \* challenge -> how many claims went on to issue tickets
    granted,    \* quota units given to requests of the window
    drawn,      \* random keys drawn so far
    known,      \* those of them that an answer has told the client
    gaveUp,     \* a quota request has run out of attempts
    ended,      \* sessions whose sign-out was answered
    faults

progress == <<todo, raw, tries>>
world == <<code, live, past, issued, granted, drawn, known, gaveUp, ended>>
vars == <<store, progress, world, faults>>

StoredKey == ({"challenge"} \X Challenge) \cup ({"evidence"} \X Evidence)
       \cup ({"session"} \X Session) \cup ({"scope", "next"} \X Intent)
       \cup {<<"quota", "window">>}

Step(op, key, arg) == [op |-> op, key |-> key, arg |-> arg]

-----------------------------------------------------------------------------
(* The requests *)

Quota == Step("quota", <<"quota", "window">>, None)

\* GET /api/demo/tickets: a message to sign; POST: the signed message, and tickets.
AskChallenge(c) == <<Quota, Step("offer", <<"challenge", c>>, None)>>
ClaimTickets(c) ==
    <<Step("claim", <<"challenge", c>>, None), Step("issue", <<"challenge", c>>, None)>>

\* A solve saves its evidence; a wallet later reports the transaction's receipt.
SaveEvidence(e) == <<Step("create", <<"evidence", e>>, [tx |-> None, confirmed |-> FALSE])>>
ReportReceipt(e, h) ==
    <<Step("load", <<"evidence", e>>, None),
      Step("confirm", <<"evidence", e>>, [tx |-> h, confirmed |-> TRUE])>>

SignIn(s) == <<Quota, Step("login", <<"session", s>>, None)>>
SignOut(s) == <<Step("logout", <<"session", s>>, None)>>

\* POST /api/demo/budget: session, quota, permission, the signing job (revoke,
\* commit), permission for the new hash, and the link from the old one.
ChangeBudget(s, old, new) ==
    <<Step("check", <<"session", s>>, None), Quota,
      Step("allowed", <<"scope", old>>, None), Step("commit", <<"scope", old>>, new),
      Step("permit", <<"scope", new>>, old), Step("replace", <<"next", old>>, new)>>

\* GET the judging status: the current hash of a configured intent.
FindCurrent(i) == <<Step("follow", <<"next", i>>, None)>>

Programs ==
    {AskChallenge(c) : c \in Challenge} \cup {ClaimTickets(c) : c \in Challenge}
    \cup {SaveEvidence(e) : e \in Evidence}
    \cup {ReportReceipt(e, h) : e \in Evidence, h \in Hash}
    \cup {SignIn(s) : s \in Session} \cup {SignOut(s) : s \in Session}
    \cup {ChangeBudget(s, change[1], change[2]) : s \in Session, change \in Changes}
    \cup {FindCurrent(i) : i \in Root}
    \cup (IF Challenge = {} THEN {} ELSE {<<Quota>>})

-----------------------------------------------------------------------------
Init ==
    /\ store = [k \in StoredKey |-> None]
    /\ todo = [w \in Worker |-> <<>>]
    /\ raw = [w \in Worker |-> Unread]
    /\ tries = [w \in Worker |-> 0]
    /\ code = 1
    /\ live = Root
    /\ past = {}
    /\ issued = [c \in Challenge |-> 0]
    /\ granted = 0
    /\ drawn = {}
    /\ known = {}
    /\ gaveUp = FALSE
    /\ ended = {}
    /\ faults = 0

Now(w) == Head(todo[w])
Doing(w, ops) == todo[w] # <<>> /\ Now(w).op \in ops
Ready(w) == raw' = [raw EXCEPT ![w] = Unread] /\ tries' = [tries EXCEPT ![w] = 0]
Advance(w) == todo' = [todo EXCEPT ![w] = Tail(@)] /\ Ready(w)
Stop(w) == todo' = [todo EXCEPT ![w] = <<>>] /\ Ready(w)
Fault == faults < MaxFaults /\ faults' = faults + 1

\* The root an intent's permission is saved under; an operator's intent is its own.
RootOf(i) == IF i \in Root THEN i ELSE store[<<"scope", i>>]

Blind == {"offer", "create", "login"}      \* under a random key: nothing to read
Draws(p) == {p[k].key : k \in {k \in DOMAIN p : p[k].op \in Blind}}

Begin(w, p) ==
    /\ todo[w] = <<>>
    /\ todo' = [todo EXCEPT ![w] = p]
    /\ Draws(p) \cap drawn = {}
    /\ Head(p).key[1] \in {"challenge", "session", "evidence"} => Head(p).key \in known \/ Head(p).op \in Blind
    /\ drawn' = drawn \cup Draws(p)
    /\ UNCHANGED <<store, raw, tries, code, live, past, issued, granted, known, gaveUp, ended, faults>>

\* What a step makes of the record it read: it goes on without writing, ...
Content(s, r) ==
    \/ s.op = "check" /\ r # None /\ r.version = code
    \/ s.op = "load" /\ r # None
    \/ s.op = "confirm" /\ r # None /\ r.confirmed /\ r.tx = s.arg.tx
    \/ s.op = "logout" /\ r = None
    \/ s.op = "allowed" /\ (s.key[2] \in Root \/ r # None)
    \/ s.op = "permit" /\ r = RootOf(s.arg)
    \/ s.op = "replace" /\ r = s.arg

\* ... it stops the request, ...
Refused(s, r) ==
    \/ s.op \in {"claim", "load"} /\ r = None
    \/ s.op = "check" /\ (r # None => r.version # code)
    \/ s.op = "confirm" /\ r # None /\ r.confirmed /\ r.tx # s.arg.tx
    \/ s.op = "allowed" /\ s.key[2] \notin Root /\ r = None
    \/ s.op = "permit" /\ r \notin {None, RootOf(s.arg)}
    \/ s.op = "replace" /\ r \notin {None, s.arg}
    \/ s.op = "quota" /\ r # None /\ r >= MaxQuota

\* ... or it writes this.
Written(s, r) ==
    CASE s.op \in {"claim", "logout"} -> None
      [] s.op \in {"create", "confirm", "replace"} -> s.arg
      [] s.op = "offer" -> "open"
      [] s.op = "login" -> [version |-> code]
      [] s.op = "permit" -> RootOf(s.arg)
      [] s.op = "quota" -> IF r = None THEN 1 ELSE r + 1

Reading == {"claim", "load", "confirm", "logout", "check", "allowed", "permit", "replace", "quota"}

\* The answer to a sign-out leaves with its last step.
SignsOut(w) ==
    ended' = IF Now(w).op = "logout" /\ todo'[w] = <<>> /\ faults' = faults
             THEN ended \cup {Now(w).key[2]} ELSE ended

Read(w) ==
    /\ Doing(w, Reading)
    /\ raw[w] = Unread
    /\ LET r == store[Now(w).key] IN
       \/ Content(Now(w), r) /\ Advance(w)
       \/ Refused(Now(w), r) /\ Stop(w)
       \/ /\ ~Content(Now(w), r) /\ ~Refused(Now(w), r)
          /\ raw' = [raw EXCEPT ![w] = r]
          /\ UNCHANGED <<todo, tries>>
    /\ UNCHANGED <<store, code, live, past, issued, granted, drawn, known, gaveUp, faults>>
    /\ SignsOut(w)

Expected(w) == IF Now(w).op \in Blind THEN None ELSE raw[w]

\* Mutated form of Unchanged: nobody looks whether the record is still the one read.
UnchangedOrNot(w) == TRUE

Unchanged(w) == store[Now(w).key] = Expected(w)

\* Another request came first: a quota tries again, sign-out does not mind, the
\* others tell the user to retry.
Lost(w) ==
    \/ /\ Now(w).op = "quota"
       /\ IF tries[w] + 1 < Attempts
          THEN /\ tries' = [tries EXCEPT ![w] = @ + 1]
               /\ raw' = [raw EXCEPT ![w] = Unread]
               /\ UNCHANGED <<todo, gaveUp>>
          ELSE Stop(w) /\ gaveUp' = TRUE
    \/ Now(w).op = "logout" /\ Advance(w) /\ UNCHANGED gaveUp
    \/ Now(w).op \notin {"quota", "logout"} /\ Stop(w) /\ UNCHANGED gaveUp

\* compareAndSet with what was read; a reply lost on the way stops the request.
Write(w) ==
    /\ todo[w] # <<>>
    /\ Now(w).op \in Blind \/ raw[w] # Unread
    /\ IF Unchanged(w)
       THEN /\ store' = [store EXCEPT ![Now(w).key] = Written(Now(w), raw[w])]
            /\ \/ /\ Advance(w) /\ UNCHANGED faults
                  /\ granted' = IF Now(w).op = "quota" THEN granted + 1 ELSE granted
                  /\ known' = IF Now(w).op \in Blind THEN known \cup {Now(w).key} ELSE known
               \/ Fault /\ Stop(w) /\ UNCHANGED <<granted, known>>
            /\ UNCHANGED gaveUp
       ELSE Lost(w) /\ UNCHANGED <<store, granted, known, faults>>
    /\ SignsOut(w)
    /\ UNCHANGED <<code, live, past, issued, drawn>>

\* issueDemoTickets begins: the signing job takes over.
Issue(w) ==
    /\ Doing(w, {"issue"})
    /\ issued' = [issued EXCEPT ![Now(w).key[2]] = @ + 1]
    /\ Advance(w)
    /\ UNCHANGED <<store, code, live, past, granted, drawn, known, gaveUp, ended, faults>>

\* The signing job of a change: revoke and commit, once; resumed, it goes on.  The two
\* transactions are one step here; SigningJob has them apart.
Commit(w) ==
    /\ Doing(w, {"commit"})
    /\ LET old == Now(w).key[2]  new == Now(w).arg IN
       \/ new \in live \cup past /\ Advance(w) /\ UNCHANGED <<live, past>>
       \/ /\ new \notin live \cup past /\ old \in live
          /\ live' = (live \ {old}) \cup {new}
          /\ past' = past \cup {old}
          /\ Advance(w)
       \/ new \notin live \cup past /\ old \notin live /\ Stop(w) /\ UNCHANGED <<live, past>>
    /\ UNCHANGED <<store, code, issued, granted, drawn, known, gaveUp, ended, faults>>

\* followDemoHash, one read after another.
Follow(w) ==
    /\ Doing(w, {"follow"})
    /\ LET r == store[Now(w).key] IN
       IF r = None THEN Advance(w)
       ELSE IF tries[w] + 1 < MaxHops
       THEN /\ todo' = [todo EXCEPT ![w] = <<Step("follow", <<"next", r>>, None)>>]
            /\ tries' = [tries EXCEPT ![w] = @ + 1]
            /\ UNCHANGED raw
       ELSE Stop(w)
    /\ UNCHANGED <<store, world, faults>>

Crash(w) == Fault /\ todo[w] # <<>> /\ Stop(w) /\ UNCHANGED <<store, world>>

\* Challenges and sessions have a time to live.
Expire(k) ==
    /\ k[1] \in {"challenge", "session"} /\ store[k] # None
    /\ store' = [store EXCEPT ![k] = None]
    /\ UNCHANGED <<progress, world, faults>>

\* The operator changes the access code.
Rotate ==
    /\ code = 1 /\ code' = 2
    /\ UNCHANGED <<store, progress, live, past, issued, granted, drawn, known, gaveUp, ended, faults>>

Next ==
    \/ \E w \in Worker :
          \/ \E p \in Programs : Begin(w, p)
          \/ Read(w) \/ Write(w) \/ Issue(w) \/ Commit(w) \/ Follow(w) \/ Crash(w)
    \/ \E k \in StoredKey : Expire(k)
    \/ Rotate

Spec == Init /\ [][Next]_vars

-----------------------------------------------------------------------------
Units == IF store[<<"quota", "window">>] = None THEN 0 ELSE store[<<"quota", "window">>]

TypeOK ==
    /\ \A c \in Challenge : store[<<"challenge", c>>] \in {"open", None}
    /\ \A e \in Evidence : store[<<"evidence", e>>] \in Receipt \cup {None}
    /\ \A s \in Session : store[<<"session", s>>] \in Access \cup {None}
    /\ \A i \in Intent : store[<<"scope", i>>] \in Root \cup {None}
                      /\ store[<<"next", i>>] \in Intent \cup {None}
    /\ Units \in 0 .. MaxQuota
    /\ live \cup past \subseteq Intent /\ live \cap past = {}

(* One challenge lets at most one request through to the issuer's key,     *)
(* however many send it at once and whatever becomes of them ("Consume     *)
(* once, before any minting", demo/tickets/route.ts:40-42).                *)
ClaimedOnce == \A c \in Challenge : issued[c] <= 1

(* A confirmed receipt stays the receipt of its evidence, whatever other   *)
(* reports were being checked when it was saved (evidence-store.ts:17-21). *)
ReceiptStays ==
    [][\A e \in Evidence : LET r == store[<<"evidence", e>>] IN
          r # None /\ r.confirmed => store'[<<"evidence", e>>] = r]_vars

(* A window never lets more requests through than its quota, and a request *)
(* that loses every round has lost each of them to a unit taken by somebody*)
(* else: where the quota is at most the number of attempts, it is used up  *)
(* (durable-store.ts:126-134).                                             *)
QuotaKept ==
    /\ granted <= Units
    /\ gaveUp => Units >= Attempts \/ Units = MaxQuota

(* Once a sign-out is answered, its session opens nothing any more, also   *)
(* when two sign-outs and requests of the session overlap                  *)
(* (judge-access.ts:30-36, 51-54).                                         *)
SignedOutStays ==
    [][\A w \in Worker : Doing(w, {"check"}) /\ todo'[w] = Tail(todo[w]) =>
          Now(w).key[2] \notin ended]_vars

(* Whoever follows a demo intent through its replacements, at any moment of*)
(* any change, comes to an intent the judge may change again, under the    *)
(* same configured root (judge-budget.ts:155-156, judge-access.ts:56-70).  *)
ReplacementsPermitted ==
    \A i \in Intent : LET n == store[<<"next", i>>] IN
        n # None => RootOf(n) # None /\ RootOf(n) = RootOf(i)

(* The chain of replacements is behind the blockchain, never beside it: a  *)
(* replaced intent is revoked, its successor committed, and two intents    *)
(* never share a successor, so that following ends                         *)
(* (judging-demo.ts:26-40, judge-budget.ts:151-156).                       *)
ReplacementsHappened ==
    \A i, j \in Intent : LET n == store[<<"next", i>>] IN
        n # None => i \in past /\ n \in live \cup past /\ (store[<<"next", j>>] = n => i = j)

-----------------------------------------------------------------------------
(* The invariant behind them.  A step is one of a route's, on a record of  *)
(* its kind.                                                               *)
Legal(s) ==
    \/ s.op = "quota" /\ s.key = <<"quota", "window">> /\ s.arg = None
    \/ s.op \in {"offer", "claim", "issue"} /\ s.key \in {"challenge"} \X Challenge /\ s.arg = None
    \/ s.op = "create" /\ s.key \in {"evidence"} \X Evidence /\ s.arg = [tx |-> None, confirmed |-> FALSE]
    \/ s.op = "load" /\ s.key \in {"evidence"} \X Evidence /\ s.arg = None
    \/ s.op = "confirm" /\ s.key \in {"evidence"} \X Evidence /\ s.arg \in Receipt /\ s.arg.confirmed
    \/ s.op \in {"login", "logout", "check"} /\ s.key \in {"session"} \X Session /\ s.arg = None
    \/ s.op = "allowed" /\ s.key \in {"scope"} \X Intent /\ s.arg = None
    \/ s.op = "follow" /\ s.key \in {"next"} \X Intent /\ s.arg = None
    \/ s.op = "commit" /\ s.key \in {"scope"} \X Intent /\ <<s.key[2], s.arg>> \in Changes
    \/ s.op = "permit" /\ s.key \in {"scope"} \X Intent /\ <<s.arg, s.key[2]>> \in Changes
    \/ s.op = "replace" /\ s.key \in {"next"} \X Intent /\ <<s.key[2], s.arg>> \in Changes

\* What the step b may come after: nothing comes after a last step, or before a first.
Follows(a, b) ==
    /\ a.op \notin Blind \cup {"issue", "logout", "replace", "follow"}
    /\ b.op \notin {"claim", "create", "load", "check", "logout", "follow"}
    /\ b.op = "issue" => a.op = "claim" /\ a.key = b.key
    /\ b.op = "commit" => a.op = "allowed" /\ a.key = b.key
    /\ b.op = "permit" => a.op = "commit" /\ a.key[2] = b.arg /\ a.arg = b.key[2]
    /\ b.op = "replace" => a.op = "permit" /\ a.key[2] = b.arg /\ a.arg = b.key[2]

Op == Blind \cup Reading \cup {"issue", "commit", "follow"}
AnyStep == [op : Op, key : StoredKey, arg : {None} \cup Receipt \cup Intent]
LegalStep == {s \in AnyStep : Legal(s)}
Shaped(p) ==
    /\ p \in Seq(LegalStep)
    /\ \A k \in 1 .. Len(p) - 1 : Follows(p[k], p[k + 1])
    /\ p # <<>> => p[Len(p)].op # "check"

Kinds ==
    /\ DOMAIN store = StoredKey /\ TypeOK /\ store[<<"quota", "window">>] # 0
    /\ todo \in [Worker -> Seq(LegalStep)] /\ \A w \in Worker : Shaped(todo[w])
    /\ DOMAIN raw = Worker /\ tries \in [Worker -> Nat]
    /\ code \in {1, 2} /\ issued \in [Challenge -> Nat] /\ {granted, faults} \subseteq Nat
    /\ known \subseteq drawn /\ gaveUp \in BOOLEAN /\ ended \subseteq Session

\* What a step keeps in hand between its read and its write.
Held(w) == raw[w] # Unread =>
    /\ Doing(w, {"claim", "confirm", "logout", "permit", "replace", "quota"})
    /\ Now(w).op = "claim" => raw[w] = "open"
    /\ Now(w).op = "confirm" => raw[w] = None \/ (raw[w] \in Receipt /\ ~raw[w].confirmed)
    /\ Now(w).op \in {"permit", "replace"} => raw[w] = None
    /\ Now(w).op = "quota" => raw[w] = None \/ raw[w] \in 1 .. MaxQuota - 1

\* Each round that a quota lost, somebody else took a unit.
UnitsOf(r) == IF r = None THEN 0 ELSE r
RoundsLost(w) ==
    /\ todo[w] = <<>> => tries[w] = 0
    /\ Doing(w, {"quota"}) =>
          /\ tries[w] <= Units
          /\ raw[w] # Unread => tries[w] <= UnitsOf(raw[w]) /\ UnitsOf(raw[w]) <= Units

Later(w) == {todo[w][k] : k \in DOMAIN todo[w]}
Offers(w, k) == \E s \in Later(w) : s.op \in Blind /\ s.key = k
Issues(w, k) == Doing(w, {"issue"}) /\ Now(w).key = k

\* A random key is drawn for one request, and told to nobody before that one is done.
DrawnOnce == \A w \in Worker, k \in StoredKey : Offers(w, k) =>
    k \in drawn \ known /\ \A v \in Worker : Offers(v, k) => v = w

\* A challenge is offered, then open, then claimed, then issued: one of them.
OnceOnly(c, k) ==
    /\ (store[k] # None \/ issued[c] # 0 \/ \E w \in Worker : Issues(w, k)) =>
          k \in drawn /\ \A w \in Worker : ~Offers(w, k)
    /\ \A w \in Worker : Issues(w, k) =>
          store[k] = None /\ issued[c] = 0 /\ \A v \in Worker : Issues(v, k) => v = w
    /\ issued[c] # 0 => issued[c] = 1 /\ store[k] = None

ChallengeOnce == \A c \in Challenge : OnceOnly(c, <<"challenge", c>>)

\* A session that was signed out is not there, and will not be again.
SessionsEnd ==
    /\ \A s \in ended : <<"session", s>> \in known /\ store[<<"session", s>>] = None
    /\ \A w \in Worker : \A s \in Later(w) : s.op \in {"check", "logout"} => s.key \in known
    /\ \A w \in Worker : raw[w] # Unread /\ Doing(w, {"logout"}) =>
          raw[w] # None /\ store[Now(w).key] \in {raw[w], None}

\* How far a change of a budget is when its next step is s.
Reached(s) ==
    /\ s.op = "commit" => RootOf(s.key[2]) # None
    /\ s.op = "permit" => RootOf(s.arg) # None /\ s.arg \in past /\ s.key[2] \in live \cup past
    /\ s.op = "replace" =>
          /\ RootOf(s.key[2]) # None /\ s.key[2] \in past /\ s.arg \in live \cup past
          /\ store[<<"scope", s.arg>>] = RootOf(s.key[2])

ChangesInOrder ==
    /\ \A w \in Worker : todo[w] # <<>> => Reached(Now(w))
    /\ Root \subseteq live \cup past
    /\ \A n \in (live \cup past) \ Root : \E o \in past : <<o, n>> \in Changes
    /\ \A i \in Intent : LET n == store[<<"next", i>>] IN
          n # None => /\ <<i, n>> \in Changes /\ i \in past /\ n \in live \cup past
                      /\ RootOf(i) # None /\ store[<<"scope", n>>] = RootOf(i)

IInv ==
    /\ Kinds /\ \A w \in Worker : Held(w) /\ RoundsLost(w)
    /\ QuotaKept /\ DrawnOnce /\ ChallengeOnce /\ SessionsEnd /\ ChangesInOrder

-----------------------------------------------------------------------------
(* Keys and steps *)

LEMMA KeyKinds ==
    /\ <<"quota", "window">> \in StoredKey
    /\ \A c \in Challenge : <<"challenge", c>> \in StoredKey
    /\ \A e \in Evidence : <<"evidence", e>> \in StoredKey
    /\ \A s \in Session : <<"session", s>> \in StoredKey
    /\ \A i \in Intent : <<"scope", i>> \in StoredKey /\ <<"next", i>> \in StoredKey
  BY DEF StoredKey

LEMMA StepIsLegal ==
    ASSUME NEW op \in Op, NEW k \in StoredKey, NEW a \in {None} \cup Receipt \cup Intent,
           Legal(Step(op, k, a))
    PROVE  /\ Step(op, k, a) \in LegalStep
           /\ Step(op, k, a).op = op /\ Step(op, k, a).key = k /\ Step(op, k, a).arg = a
  BY DEF Step, LegalStep, AnyStep

LEMMA OpsAreOps ==
    /\ \A op \in {"quota", "offer", "claim", "issue", "create", "load", "confirm", "login", "logout", "check",
                   "allowed", "follow", "commit", "permit", "replace"} : op \in Op
    /\ None \in {None} \cup Receipt \cup Intent
  BY DEF Op, Blind, Reading

LEMMA RouteSteps ==
    ASSUME RecordsAssumption
    PROVE  /\ Quota \in LegalStep /\ Quota.op = "quota"
           /\ \A op \in {"offer", "claim", "issue"}, c \in Challenge :
                Step(op, <<"challenge", c>>, None) \in LegalStep
           /\ \A e \in Evidence :
                /\ Step("create", <<"evidence", e>>, [tx |-> None, confirmed |-> FALSE]) \in LegalStep
                /\ Step("load", <<"evidence", e>>, None) \in LegalStep
                /\ \A h \in Hash : Step("confirm", <<"evidence", e>>, [tx |-> h, confirmed |-> TRUE]) \in LegalStep
           /\ \A op \in {"login", "logout", "check"}, s \in Session :
                Step(op, <<"session", s>>, None) \in LegalStep
           /\ \A i \in Intent : /\ Step("allowed", <<"scope", i>>, None) \in LegalStep
                                /\ Step("follow", <<"next", i>>, None) \in LegalStep
           /\ \A old, new \in Intent : <<old, new>> \in Changes =>
                /\ Step("commit", <<"scope", old>>, new) \in LegalStep
                /\ Step("permit", <<"scope", new>>, old) \in LegalStep
                /\ Step("replace", <<"next", old>>, new) \in LegalStep
<1>1. Quota \in LegalStep /\ Quota.op = "quota"
  <2>1. Legal(Step("quota", <<"quota", "window">>, None))
    BY DEF Legal, Step
  <2> QED
    BY <2>1, KeyKinds, OpsAreOps, StepIsLegal DEF Quota
<1>2. ASSUME NEW op \in {"offer", "claim", "issue"}, NEW c \in Challenge
      PROVE  Step(op, <<"challenge", c>>, None) \in LegalStep
  <2>1. Legal(Step(op, <<"challenge", c>>, None))
    BY DEF Legal, Step
  <2> QED
    BY <2>1, KeyKinds, OpsAreOps, StepIsLegal
<1>3. ASSUME NEW e \in Evidence
      PROVE  /\ Step("create", <<"evidence", e>>, [tx |-> None, confirmed |-> FALSE]) \in LegalStep
             /\ Step("load", <<"evidence", e>>, None) \in LegalStep
  <2>1. /\ Legal(Step("create", <<"evidence", e>>, [tx |-> None, confirmed |-> FALSE]))
        /\ Legal(Step("load", <<"evidence", e>>, None))
    BY DEF Legal, Step
  <2>2. [tx |-> None, confirmed |-> FALSE] \in Receipt
    BY DEF Receipt
  <2> QED
    BY <2>1, <2>2, KeyKinds, OpsAreOps, StepIsLegal
<1>4. ASSUME NEW e \in Evidence, NEW h \in Hash
      PROVE  Step("confirm", <<"evidence", e>>, [tx |-> h, confirmed |-> TRUE]) \in LegalStep
  <2>1. [tx |-> h, confirmed |-> TRUE] \in Receipt /\ [tx |-> h, confirmed |-> TRUE].confirmed
    BY DEF Receipt
  <2>2. Legal(Step("confirm", <<"evidence", e>>, [tx |-> h, confirmed |-> TRUE]))
    BY <2>1 DEF Legal, Step
  <2> QED
    BY <2>1, <2>2, KeyKinds, OpsAreOps, StepIsLegal
<1>5. ASSUME NEW op \in {"login", "logout", "check"}, NEW s \in Session
      PROVE  Step(op, <<"session", s>>, None) \in LegalStep
  <2>1. Legal(Step(op, <<"session", s>>, None))
    BY DEF Legal, Step
  <2> QED
    BY <2>1, KeyKinds, OpsAreOps, StepIsLegal
<1>6. ASSUME NEW i \in Intent
      PROVE  /\ Step("allowed", <<"scope", i>>, None) \in LegalStep
             /\ Step("follow", <<"next", i>>, None) \in LegalStep
  <2>1. Legal(Step("allowed", <<"scope", i>>, None)) /\ Legal(Step("follow", <<"next", i>>, None))
    BY DEF Legal, Step
  <2> QED
    BY <2>1, KeyKinds, OpsAreOps, StepIsLegal
<1>7. ASSUME NEW old \in Intent, NEW new \in Intent, <<old, new>> \in Changes
      PROVE  /\ Step("commit", <<"scope", old>>, new) \in LegalStep
             /\ Step("permit", <<"scope", new>>, old) \in LegalStep
             /\ Step("replace", <<"next", old>>, new) \in LegalStep
  <2>1. /\ Legal(Step("commit", <<"scope", old>>, new))
        /\ Legal(Step("permit", <<"scope", new>>, old))
        /\ Legal(Step("replace", <<"next", old>>, new))
    BY <1>7 DEF Legal, Step
  <2> QED
    BY <2>1, KeyKinds, OpsAreOps, StepIsLegal
<1> QED
  BY <1>1, <1>2, <1>3, <1>4, <1>5, <1>6, <1>7

LEMMA TailShaped ==
    ASSUME NEW p, Shaped(p), p # <<>>
    PROVE  /\ Head(p) \in LegalStep /\ Tail(p) \in Seq(LegalStep) /\ Shaped(Tail(p)) /\ Tail(p) # p
           /\ Tail(p) # <<>> => Follows(Head(p), Head(Tail(p)))
           /\ \A k \in DOMAIN Tail(p) : k + 1 \in DOMAIN p /\ Tail(p)[k] = p[k + 1]
<1>1. p \in Seq(LegalStep) /\ Len(p) \in Nat \ {0}
  BY DEF Shaped
<1>2. Head(p) \in LegalStep /\ Tail(p) \in Seq(LegalStep) /\ Len(Tail(p)) = Len(p) - 1
  BY <1>1
<1>3. \A k \in 1 .. Len(p) - 1 : Tail(p)[k] = p[k + 1]
  BY <1>1
<1>4. \A k \in 1 .. Len(Tail(p)) - 1 : Follows(Tail(p)[k], Tail(p)[k + 1])
  <2> TAKE k \in 1 .. Len(Tail(p)) - 1
  <2>1. k + 1 \in 1 .. Len(p) - 1
    BY <1>1, <1>2
  <2>2. Follows(p[k + 1], p[k + 2])
    BY <2>1 DEF Shaped
  <2>3. Tail(p)[k] = p[k + 1] /\ Tail(p)[k + 1] = p[k + 2]
    BY <1>1, <1>2, <1>3
  <2> QED
    BY <2>2, <2>3
<1>5. Tail(p) # <<>> => Tail(p)[Len(Tail(p))] = p[Len(p)]
  BY <1>1, <1>2, <1>3
<1>6. Shaped(Tail(p))
  BY <1>1, <1>2, <1>4, <1>5 DEF Shaped
<1>7. Tail(p) # <<>> => Head(p) = p[1] /\ Head(Tail(p)) = p[2] /\ 1 \in 1 .. Len(p) - 1
  BY <1>1, <1>2, <1>3
<1>8. Tail(p) # <<>> => Follows(Head(p), Head(Tail(p)))
  <2>1. \A k \in 1 .. Len(p) - 1 : Follows(p[k], p[k + 1])
    BY DEF Shaped
  <2>2. ASSUME Tail(p) # <<>> PROVE Follows(p[1], p[2])
    <3>1. Follows(p[1], p[1 + 1])
      BY <1>7, <2>1, <2>2
    <3> QED
      BY <3>1
  <2> QED
    BY <1>7, <2>2
<1>9. Tail(p) # p
  <2> SUFFICES ASSUME Tail(p) = p PROVE FALSE
    OBVIOUS
  <2>1. Len(p) = Len(p) - 1
    BY <1>2
  <2> QED
    BY <1>1, <2>1
<1>10. \A k \in DOMAIN Tail(p) : k + 1 \in DOMAIN p /\ Tail(p)[k] = p[k + 1]
  <2>1. DOMAIN p = 1 .. Len(p) /\ DOMAIN Tail(p) = 1 .. Len(Tail(p))
    BY <1>1, <1>2
  <2> QED
    BY <1>1, <1>2, <1>3, <2>1
<1> QED
  BY <1>2, <1>6, <1>8, <1>9, <1>10

LEMMA OneStepShaped == ASSUME NEW s \in LegalStep, s.op # "check" PROVE Shaped(<<s>>)
  BY DEF Shaped

LEMMA StepFields ==
    ASSUME NEW op, NEW k, NEW a
    PROVE  Step(op, k, a).op = op /\ Step(op, k, a).key = k /\ Step(op, k, a).arg = a
  BY DEF Step

LEMMA ProgramsShaped ==
    ASSUME RecordsAssumption, NEW p \in Programs
    PROVE  Shaped(p) /\ p # <<>> /\ p[1].op \notin {"issue", "commit", "permit", "replace"}
<1>1. Quota \in LegalStep /\ Quota.op = "quota"
  BY RouteSteps
<1>2. ASSUME NEW a \in LegalStep, NEW b \in LegalStep, Follows(a, b), b.op # "check", p = <<a, b>>
      PROVE  Shaped(p)
  BY <1>2 DEF Shaped
<1>3. ASSUME NEW c \in Challenge, p = AskChallenge(c) \/ p = ClaimTickets(c) PROVE Shaped(p)
  <2> DEFINE o == Step("offer", <<"challenge", c>>, None)
             a == Step("claim", <<"challenge", c>>, None)  i == Step("issue", <<"challenge", c>>, None)
  <2>1. {o, a, i} \subseteq LegalStep
    BY RouteSteps
  <2>2. o.op = "offer" /\ a.op = "claim" /\ i.op = "issue" /\ a.key = i.key
    BY DEF Step
  <2>3. p = <<Quota, o>> \/ p = <<a, i>>
    BY <1>3 DEF AskChallenge, ClaimTickets
  <2> HIDE DEF o, a, i
  <2>4. Follows(Quota, o) /\ Follows(a, i)
    BY <1>1, <2>2 DEF Follows, Blind
  <2> QED
    BY <1>1, <1>2, <2>1, <2>2, <2>3, <2>4
<1>4. ASSUME NEW e \in Evidence, p = SaveEvidence(e) PROVE Shaped(p)
  <2> DEFINE a == Step("create", <<"evidence", e>>, [tx |-> None, confirmed |-> FALSE])
  <2>1. a \in LegalStep /\ p = <<a>>
    BY <1>4, RouteSteps DEF SaveEvidence
  <2>2. a.op = "create"
    BY StepFields
  <2> QED
    BY <2>1, <2>2, OneStepShaped
<1>5. ASSUME NEW e \in Evidence, NEW h \in Hash, p = ReportReceipt(e, h) PROVE Shaped(p)
  <2> DEFINE a == Step("load", <<"evidence", e>>, None)
             b == Step("confirm", <<"evidence", e>>, [tx |-> h, confirmed |-> TRUE])
  <2>1. {a, b} \subseteq LegalStep /\ p = <<a, b>>
    BY <1>5, RouteSteps DEF ReportReceipt
  <2>2. a.op = "load" /\ b.op = "confirm"
    BY StepFields
  <2> HIDE DEF a, b
  <2>3. Follows(a, b)
    BY <2>2 DEF Follows, Blind
  <2> QED
    BY <1>2, <2>1, <2>2, <2>3
<1>6. ASSUME NEW s \in Session, p = SignIn(s) \/ p = SignOut(s) PROVE Shaped(p)
  <2> DEFINE a == Step("login", <<"session", s>>, None)  b == Step("logout", <<"session", s>>, None)
  <2>1. {a, b} \subseteq LegalStep /\ (p = <<Quota, a>> \/ p = <<b>>)
    BY <1>6, RouteSteps DEF SignIn, SignOut
  <2>2. a.op = "login" /\ b.op = "logout"
    BY StepFields
  <2> HIDE DEF a, b
  <2>3. Follows(Quota, a)
    BY <1>1, <2>2 DEF Follows, Blind
  <2> QED
    BY <1>1, <1>2, <2>1, <2>2, <2>3, OneStepShaped
<1>7. ASSUME NEW s \in Session, NEW change \in Changes, p = ChangeBudget(s, change[1], change[2]) PROVE Shaped(p)
  <2> DEFINE old == change[1]  new == change[2]
  <2>1. old \in Intent /\ new \in Intent /\ <<old, new>> \in Changes
    BY DEF RecordsAssumption
  <2> HIDE DEF old, new
  <2>2. /\ Step("check", <<"session", s>>, None) \in LegalStep
        /\ Step("allowed", <<"scope", old>>, None) \in LegalStep
        /\ Step("commit", <<"scope", old>>, new) \in LegalStep
        /\ Step("permit", <<"scope", new>>, old) \in LegalStep
        /\ Step("replace", <<"next", old>>, new) \in LegalStep
    BY <2>1, RouteSteps
  <2>3. p \in Seq(LegalStep) /\ Len(p) = 6
    BY <1>1, <1>7, <2>2 DEF ChangeBudget, old, new
  <2>4. /\ p[1] = Step("check", <<"session", s>>, None) /\ p[2] = Quota
        /\ p[3] = Step("allowed", <<"scope", old>>, None)
        /\ p[4] = Step("commit", <<"scope", old>>, new)
        /\ p[5] = Step("permit", <<"scope", new>>, old)
        /\ p[6] = Step("replace", <<"next", old>>, new)
    BY <1>7 DEF ChangeBudget, old, new
  <2>5. \A k \in 1 .. 5 : Follows(p[k], p[k + 1])
    <3>1. Follows(p[1], p[2]) /\ Follows(p[2], p[3])
      BY <1>1, <2>4, StepFields DEF Follows, Blind
    <3>2. Follows(p[3], p[4]) /\ Follows(p[4], p[5]) /\ Follows(p[5], p[6])
      BY <2>4 DEF Follows, Blind, Step
    <3> QED
      BY <3>1, <3>2
  <2>6. p[6].op # "check"
    BY <2>4 DEF Step
  <2> QED
    BY <2>3, <2>5, <2>6 DEF Shaped
<1>8. ASSUME NEW i \in Root, p = FindCurrent(i) PROVE Shaped(p)
  <2> DEFINE a == Step("follow", <<"next", i>>, None)
  <2>1. a \in LegalStep /\ p = <<a>>
    BY <1>8, RouteSteps DEF FindCurrent, RecordsAssumption
  <2>2. a.op = "follow"
    BY StepFields
  <2> QED
    BY <2>1, <2>2, OneStepShaped
<1>9. CASE p = <<Quota>>
  BY <1>1, <1>9, OneStepShaped
<1>10. \/ \E c \in Challenge : p = AskChallenge(c) \/ p = ClaimTickets(c)
       \/ \E e \in Evidence : p = SaveEvidence(e)
       \/ \E e \in Evidence, h \in Hash : p = ReportReceipt(e, h)
       \/ \E s \in Session : p = SignIn(s) \/ p = SignOut(s)
       \/ \E s \in Session, change \in Changes : p = ChangeBudget(s, change[1], change[2])
       \/ \E i \in Root : p = FindCurrent(i)
       \/ p = <<Quota>>
  BY DEF Programs
<1>11. Shaped(p)
  BY <1>3, <1>4, <1>5, <1>6, <1>7, <1>8, <1>9, <1>10
<1>12. p # <<>> /\ p[1].op \notin {"issue", "commit", "permit", "replace"}
  <2>1. \E op \in {"quota", "claim", "create", "load", "logout", "check", "follow"} :
          p # <<>> /\ p[1].op = op
    <3>1. ASSUME NEW c \in Challenge
          PROVE  /\ AskChallenge(c) # <<>> /\ AskChallenge(c)[1].op = "quota"
                 /\ ClaimTickets(c) # <<>> /\ ClaimTickets(c)[1].op = "claim"
      BY <1>1, StepFields DEF AskChallenge, ClaimTickets
    <3>2. ASSUME NEW e \in Evidence
          PROVE  SaveEvidence(e) # <<>> /\ SaveEvidence(e)[1].op = "create"
      BY StepFields DEF SaveEvidence
    <3>3. ASSUME NEW e \in Evidence, NEW h \in Hash
          PROVE  ReportReceipt(e, h) # <<>> /\ ReportReceipt(e, h)[1].op = "load"
      BY StepFields DEF ReportReceipt
    <3>4. ASSUME NEW s \in Session
          PROVE  /\ SignIn(s) # <<>> /\ SignIn(s)[1].op = "quota"
                 /\ SignOut(s) # <<>> /\ SignOut(s)[1].op = "logout"
      BY <1>1, StepFields DEF SignIn, SignOut
    <3>5. ASSUME NEW s \in Session, NEW change \in Changes
          PROVE  /\ ChangeBudget(s, change[1], change[2]) # <<>>
                 /\ ChangeBudget(s, change[1], change[2])[1].op = "check"
      BY StepFields DEF ChangeBudget
    <3>6. ASSUME NEW i \in Root
          PROVE  FindCurrent(i) # <<>> /\ FindCurrent(i)[1].op = "follow"
      BY StepFields DEF FindCurrent
    <3>7. <<Quota>> # <<>> /\ <<Quota>>[1].op = "quota"
      BY <1>1
    <3> QED
      BY <1>10, <3>1, <3>2, <3>3, <3>4, <3>5, <3>6, <3>7
  <2> QED
    BY <2>1
<1> QED
  BY <1>11, <1>12

-----------------------------------------------------------------------------
(* What the steps do to the requests *)

\* Of a worker at a step.
LEMMA AtStep ==
    ASSUME Kinds, NEW w \in Worker, todo[w] # <<>>
    PROVE  /\ Now(w) \in LegalStep /\ Legal(Now(w)) /\ Now(w).op \in Op /\ Now(w).key \in StoredKey
           /\ Now(w) \in Later(w) /\ Shaped(todo[w]) /\ Tail(todo[w]) # todo[w]
<1>1. Shaped(todo[w]) /\ todo[w] \in Seq(LegalStep)
  BY DEF Kinds
<1>2. Now(w) = todo[w][1] /\ 1 \in DOMAIN todo[w]
  BY <1>1 DEF Now
<1> QED
  BY <1>1, <1>2, TailShaped DEF Now, Later, LegalStep, AnyStep

\* A step done or a request stopped: nothing new is to do, and the next step is the one that follows.
LEMMA Onwards ==
    ASSUME Kinds, NEW w \in Worker, todo[w] # <<>>, Advance(w) \/ Stop(w)
    PROVE  /\ todo' \in [Worker -> Seq(LegalStep)] /\ DOMAIN raw' = Worker /\ tries' \in [Worker -> Nat]
           /\ \A v \in Worker : Shaped(todo'[v]) /\ Later(v)' \subseteq Later(v)
           /\ \A v \in Worker \ {w} : todo'[v] = todo[v] /\ raw'[v] = raw[v] /\ tries'[v] = tries[v]
           /\ raw'[w] = Unread /\ tries'[w] = 0
           /\ todo'[w] # <<>> => Advance(w) /\ Follows(Now(w), Now(w)')
           /\ Advance(w) => todo'[w] = Tail(todo[w])
           /\ \A s \in Later(w)' : \E k \in 2 .. Len(todo[w]) : s = todo[w][k]
<1> DEFINE next == todo'[w]
<1>1. /\ todo' = [todo EXCEPT ![w] = next] /\ raw' = [raw EXCEPT ![w] = Unread] /\ tries' = [tries EXCEPT ![w] = 0]
      /\ next = <<>> \/ (Advance(w) /\ next = Tail(todo[w]))
      /\ Advance(w) => next = Tail(todo[w])
  BY DEF Advance, Stop, Ready, Kinds
<1>2. Shaped(todo[w]) /\ todo[w] \in Seq(LegalStep)
  BY DEF Kinds
<1>3. Shaped(<<>>) /\ <<>> \in Seq(LegalStep)
  BY DEF Shaped
<1>4. Shaped(next) /\ next \in Seq(LegalStep)
  BY <1>1, <1>2, <1>3, TailShaped
<1>5. next # <<>> => Follows(Now(w), Head(next))
  BY <1>1, <1>2, TailShaped DEF Now
<1>6. \A k \in DOMAIN next : k + 1 \in 2 .. Len(todo[w]) /\ next[k] = todo[w][k + 1]
  <2>1. CASE next = <<>>
    BY <2>1
  <2>2. CASE next = Tail(todo[w])
    BY <2>2, <1>2, TailShaped
  <2> QED
    BY <1>1, <2>1, <2>2
<1> HIDE DEF next
<1>7. /\ todo' \in [Worker -> Seq(LegalStep)] /\ DOMAIN raw' = Worker /\ tries' \in [Worker -> Nat]
      /\ \A v \in Worker \ {w} : todo'[v] = todo[v] /\ raw'[v] = raw[v] /\ tries'[v] = tries[v]
      /\ todo'[w] = next /\ raw'[w] = Unread /\ tries'[w] = 0
  BY <1>1, <1>4 DEF Kinds
<1>8. \A v \in Worker : Shaped(todo'[v])
  BY <1>4, <1>7 DEF Kinds
<1>9. \A s \in Later(w)' : \E k \in 2 .. Len(todo[w]) : s = todo[w][k]
  BY <1>6, <1>7 DEF Later
<1>10. Later(w)' \subseteq Later(w)
  <2>1. DOMAIN todo[w] = 1 .. Len(todo[w]) /\ Len(todo[w]) \in Nat
    BY <1>2
  <2>2. \A k \in 2 .. Len(todo[w]) : k \in DOMAIN todo[w]
    BY <2>1
  <2> QED
    BY <1>9, <2>2 DEF Later
<1>11. \A v \in Worker : Later(v)' \subseteq Later(v)
  <2> TAKE v \in Worker
  <2>1. CASE v # w
    BY <1>7, <2>1 DEF Later
  <2> QED
    BY <1>10, <2>1
<1>12. todo'[w] # <<>> => Advance(w) /\ Follows(Now(w), Now(w)')
  BY <1>1, <1>5, <1>7 DEF Now
<1> QED
  BY <1>1, <1>7, <1>8, <1>9, <1>11, <1>12

\* A step that is last leaves nothing to do, and is nowhere before.
LEMMA LastStep ==
    ASSUME Kinds, NEW w \in Worker, todo[w] # <<>>,
           Now(w).op \in Blind \cup {"issue", "logout", "replace", "follow"}
    PROVE  Tail(todo[w]) = <<>> /\ Len(todo[w]) = 1
<1>1. Shaped(todo[w]) /\ todo[w] \in Seq(LegalStep) /\ Now(w) = todo[w][1]
  BY DEF Kinds, Now
<1>2. Len(todo[w]) \in Nat \ {0}
  BY <1>1
<1>4. Len(todo[w]) = 1
  <2> SUFFICES ASSUME Len(todo[w]) # 1 PROVE FALSE
    OBVIOUS
  <2>1. 1 \in 1 .. Len(todo[w]) - 1
    <3>1. \A n \in Nat \ {0} : n # 1 => 1 \in 1 .. n - 1
      OBVIOUS
    <3> QED
      BY <1>2, <3>1, Zenon
  <2>2. Follows(todo[w][1], todo[w][1 + 1])
    BY <1>1, <2>1 DEF Shaped
  <2> QED
    BY <1>1, <2>2 DEF Follows
<1>5. Tail(todo[w]) \in Seq(LegalStep) /\ Len(Tail(todo[w])) = 0
  BY <1>1, <1>4
<1>6. \A q \in Seq(LegalStep) : Len(q) = 0 => q = <<>>
  BY EmptySeq
<1> QED
  BY <1>4, <1>5, <1>6

\* A request begins with a program.
LEMMA Beginning ==
    ASSUME RecordsAssumption, Kinds, NEW w \in Worker, NEW p \in Programs, Begin(w, p)
    PROVE  /\ todo' \in [Worker -> Seq(LegalStep)]
           /\ \A v \in Worker : Shaped(todo'[v])
           /\ \A v \in Worker \ {w} : todo'[v] = todo[v] /\ Later(v)' = Later(v)
           /\ todo'[w] = p /\ todo[w] = <<>> /\ p # <<>> /\ Now(w)' = p[1]
           /\ p[1].op \notin {"issue", "commit", "permit", "replace"}
           /\ \A s \in Later(w)' : s.op \in Blind => s.key \in drawn' \ drawn
           /\ \A s \in Later(w)' : s = p[1] \/ \E k \in 1 .. Len(p) - 1 : s = p[k + 1] /\ Follows(p[k], s)
<1>1. Shaped(p) /\ p \in Seq(LegalStep) /\ p # <<>> /\ p[1].op \notin {"issue", "commit", "permit", "replace"}
  BY ProgramsShaped DEF Shaped
<1>2. todo[w] = <<>> /\ todo' = [todo EXCEPT ![w] = p] /\ drawn' = drawn \cup Draws(p) /\ Draws(p) \cap drawn = {}
  BY DEF Begin
<1>3. /\ todo' \in [Worker -> Seq(LegalStep)] /\ todo'[w] = p
      /\ \A v \in Worker \ {w} : todo'[v] = todo[v]
  BY <1>1, <1>2 DEF Kinds
<1>4. \A v \in Worker : Shaped(todo'[v])
  BY <1>1, <1>3 DEF Kinds
<1>5. Now(w)' = p[1]
  BY <1>1, <1>3 DEF Now
<1>6. \A s \in Later(w)' : s.op \in Blind => s.key \in drawn' \ drawn
  <2> SUFFICES ASSUME NEW k \in DOMAIN p, p[k].op \in Blind PROVE p[k].key \in drawn' \ drawn
    BY <1>3 DEF Later
  <2>1. p[k].key \in Draws(p)
    BY DEF Draws
  <2> QED
    BY <1>2, <2>1
<1>7. \A s \in Later(w)' : s = p[1] \/ \E k \in 1 .. Len(p) - 1 : s = p[k + 1] /\ Follows(p[k], s)
  <2> SUFFICES ASSUME NEW j \in DOMAIN p
               PROVE  p[j] = p[1] \/ \E k \in 1 .. Len(p) - 1 : p[j] = p[k + 1] /\ Follows(p[k], p[j])
    BY <1>3 DEF Later
  <2>1. CASE j = 1
    BY <2>1
  <2>2. CASE j # 1
    <3>1. j - 1 \in 1 .. Len(p) - 1 /\ (j - 1) + 1 = j
      BY <1>1, <2>2
    <3>2. Follows(p[j - 1], p[(j - 1) + 1])
      BY <1>1, <3>1 DEF Shaped
    <3> QED
      BY <3>1, <3>2
  <2> QED
    BY <2>1, <2>2
<1> QED
  BY <1>1, <1>2, <1>3, <1>4, <1>5, <1>6, <1>7 DEF Later

-----------------------------------------------------------------------------
(* What the steps do to the store *)

LEMMA WrittenIs ==
    ASSUME Kinds, NEW w \in Worker, todo[w] # <<>>, Held(w), Now(w).op \in Blind \/ raw[w] # Unread
    PROVE  LET s == Now(w)  x == Written(s, raw[w]) IN
           /\ s.op \in {"offer", "create", "login", "claim", "confirm", "logout", "permit", "replace", "quota"}
           /\ s.op \in {"claim", "logout"} => x = None
           /\ s.op \in {"create", "confirm", "replace"} => x = s.arg
           /\ s.op = "offer" => x = "open"
           /\ s.op = "login" => x = [version |-> code]
           /\ s.op = "permit" => x = RootOf(s.arg)
           /\ s.op = "quota" => x = UnitsOf(raw[w]) + 1
<1>1. Now(w).op \in {"offer", "create", "login", "claim", "confirm", "logout", "permit", "replace", "quota"}
  BY DEF Held, Doing, Blind
<1> QED
  BY <1>1 DEF Written, UnitsOf

\* A record of its kind is written under a key.
LEMMA StoreKinds ==
    ASSUME RecordsAssumption, DOMAIN store = StoredKey, TypeOK, NEW k \in StoredKey, NEW x, store' = [store EXCEPT ![k] = x],
           \A c \in Challenge : k = <<"challenge", c>> => x \in {"open", None},
           \A e \in Evidence : k = <<"evidence", e>> => x \in Receipt \cup {None},
           \A s \in Session : k = <<"session", s>> => x \in Access \cup {None},
           \A i \in Intent : k = <<"scope", i>> => x \in Root \cup {None},
           \A i \in Intent : k = <<"next", i>> => x \in Intent \cup {None},
           k = <<"quota", "window">> => x \in {None} \cup 1 .. MaxQuota, store[<<"quota", "window">>] # 0,
           UNCHANGED <<live, past>>
    PROVE  TypeOK' /\ DOMAIN store' = StoredKey /\ store'[<<"quota", "window">>] # 0
<1>1. \A j \in StoredKey : store'[j] = IF j = k THEN x ELSE store[j]
  OBVIOUS
<1>2. Units' = UnitsOf(store'[<<"quota", "window">>]) /\ Units = UnitsOf(store[<<"quota", "window">>])
  BY DEF Units, UnitsOf
<1>3. Units' \in 0 .. MaxQuota /\ store'[<<"quota", "window">>] # 0
  <2>1. CASE k = <<"quota", "window">>
    BY <1>1, <1>2, <2>1 DEF RecordsAssumption, UnitsOf
  <2>2. CASE k # <<"quota", "window">>
    BY <1>1, <1>2, <2>2, KeyKinds DEF TypeOK
  <2> QED
    BY <2>1, <2>2
<1>4. \A c \in Challenge : store'[<<"challenge", c>>] \in {"open", None}
  BY <1>1, KeyKinds DEF TypeOK
<1>5. \A e \in Evidence : store'[<<"evidence", e>>] \in Receipt \cup {None}
  BY <1>1, KeyKinds DEF TypeOK
<1>6. \A s \in Session : store'[<<"session", s>>] \in Access \cup {None}
  BY <1>1, KeyKinds DEF TypeOK
<1>7. \A i \in Intent : store'[<<"scope", i>>] \in Root \cup {None} /\ store'[<<"next", i>>] \in Intent \cup {None}
  BY <1>1, KeyKinds DEF TypeOK
<1> QED
  BY <1>3, <1>4, <1>5, <1>6, <1>7 DEF TypeOK

LEMMA RootIs ==
    ASSUME RecordsAssumption, TypeOK, NEW i \in Intent PROVE RootOf(i) \in Root \cup {None}
  BY DEF RootOf, TypeOK

\* A compareAndSet that succeeds.
LEMMA WriteKinds ==
    ASSUME RecordsAssumption, Kinds, NEW w \in Worker, todo[w] # <<>>, Held(w),
           Now(w).op \in Blind \/ raw[w] # Unread,
           store' = [store EXCEPT ![Now(w).key] = Written(Now(w), raw[w])], UNCHANGED <<live, past>>
    PROVE  TypeOK' /\ DOMAIN store' = StoredKey /\ store'[<<"quota", "window">>] # 0
<1> DEFINE s == Now(w)  k == s.key  x == Written(s, raw[w])
<1>1. Legal(s) /\ k \in StoredKey
  BY AtStep
<1>2. TypeOK /\ DOMAIN store = StoredKey /\ code \in {1, 2} /\ store[<<"quota", "window">>] # 0
  BY DEF Kinds
<1>3. /\ s.op \in {"offer", "create", "login", "claim", "confirm", "logout", "permit", "replace", "quota"}
      /\ s.op \in {"claim", "logout"} => x = None
      /\ s.op \in {"create", "confirm", "replace"} => x = s.arg
      /\ s.op = "offer" => x = "open"
      /\ s.op = "login" => x = [version |-> code]
      /\ s.op = "permit" => x = RootOf(s.arg)
      /\ s.op = "quota" => x = UnitsOf(raw[w]) + 1
  BY WrittenIs
<1>4. s.op = "quota" => raw[w] = None \/ raw[w] \in 1 .. MaxQuota - 1
  BY DEF Held, Blind
<1> HIDE DEF s, k, x
<1>5. ASSUME NEW c \in Challenge, k = <<"challenge", c>> PROVE x \in {"open", None}
  BY <1>1, <1>3, <1>5 DEF Legal, k
<1>6. ASSUME NEW e \in Evidence, k = <<"evidence", e>> PROVE x \in Receipt \cup {None}
  <2>1. s.op \in {"create", "confirm"}
    BY <1>1, <1>3, <1>6 DEF Legal, k
  <2>2. [tx |-> None, confirmed |-> FALSE] \in Receipt
    BY DEF Receipt
  <2>3. s.arg \in Receipt
    BY <1>1, <2>1, <2>2 DEF Legal
  <2> QED
    BY <1>3, <2>1, <2>3
<1>7. ASSUME NEW o \in Session, k = <<"session", o>> PROVE x \in Access \cup {None}
  BY <1>1, <1>2, <1>3, <1>7 DEF Legal, k, Access
<1>8. ASSUME NEW i \in Intent, k = <<"scope", i>> PROVE x \in Root \cup {None}
  <2>1. s.op = "permit" /\ s.arg \in Intent
    BY <1>1, <1>3, <1>8 DEF Legal, k, RecordsAssumption
  <2> QED
    BY <1>2, <1>3, <2>1, RootIs
<1>9. ASSUME NEW i \in Intent, k = <<"next", i>> PROVE x \in Intent \cup {None}
  <2>1. s.op = "replace" /\ s.arg \in Intent
    BY <1>1, <1>3, <1>9 DEF Legal, k, RecordsAssumption
  <2> QED
    BY <1>3, <2>1
<1>10. ASSUME k = <<"quota", "window">> PROVE x \in {None} \cup 1 .. MaxQuota
  <2>1. s.op = "quota"
    BY <1>1, <1>3, <1>10 DEF Legal, k
  <2>2. UnitsOf(raw[w]) + 1 \in 1 .. MaxQuota
    BY <1>4, <2>1 DEF UnitsOf, RecordsAssumption
  <2> QED
    BY <1>3, <2>1, <2>2
<1>11. store' = [store EXCEPT ![k] = x] /\ UNCHANGED <<live, past>>
  BY DEF s, k, x
<1> QED
  BY <1>1, <1>2, <1>5, <1>6, <1>7, <1>8, <1>9, <1>10, <1>11, StoreKinds

-----------------------------------------------------------------------------
(* What one step of a request does to the requests *)

Does(w) == Read(w) \/ Write(w) \/ Issue(w) \/ Commit(w) \/ Follow(w) \/ Crash(w)

\* It keeps what it read for its write; ...
Keeps(w) ==
    /\ Read(w) /\ ~Content(Now(w), store[Now(w).key]) /\ ~Refused(Now(w), store[Now(w).key])
    /\ todo' = todo /\ tries' = tries /\ raw' = [raw EXCEPT ![w] = store[Now(w).key]]

\* ... it takes another round of a quota; ...
Retries(w) ==
    /\ Write(w) /\ ~Unchanged(w) /\ Now(w).op = "quota" /\ UNCHANGED store
    /\ todo' = todo /\ tries' = [tries EXCEPT ![w] = @ + 1] /\ raw' = [raw EXCEPT ![w] = Unread]

\* ... or it follows a replacement.
Hops(w) ==
    /\ Follow(w) /\ raw' = raw /\ tries' = [tries EXCEPT ![w] = @ + 1]
    /\ \E i \in Intent : todo' = [todo EXCEPT ![w] = <<Step("follow", <<"next", i>>, None)>>]

LEMMA Ways ==
    ASSUME Kinds, NEW w \in Worker, Does(w)
    PROVE  todo[w] # <<>> /\ (Advance(w) \/ Stop(w) \/ Keeps(w) \/ Retries(w) \/ Hops(w))
<1>1. todo[w] # <<>>
  BY DEF Does, Read, Write, Issue, Commit, Follow, Crash, Doing
<1>2. CASE Read(w)
  BY <1>1, <1>2 DEF Read, Keeps
<1>3. CASE Write(w)
  <2>1. CASE Unchanged(w)
    BY <1>1, <1>3, <2>1 DEF Write
  <2>2. CASE ~Unchanged(w)
    <3>1. Lost(w) /\ UNCHANGED store
      BY <1>1, <1>3, <2>2 DEF Write
    <3> QED
      BY <1>1, <1>3, <2>2, <3>1 DEF Lost, Retries
  <2> QED
    BY <2>1, <2>2
<1>4. CASE Issue(w) \/ Commit(w) \/ Crash(w)
  BY <1>1, <1>4 DEF Issue, Commit, Crash
<1>5. CASE Follow(w)
  <2> DEFINE r == store[Now(w).key]
  <2>1. CASE r = None \/ ~(tries[w] + 1 < MaxHops)
    BY <1>1, <1>5, <2>1 DEF Follow
  <2>2. CASE r # None /\ tries[w] + 1 < MaxHops
    <3>1. Legal(Now(w)) /\ Now(w).op = "follow"
      BY <1>1, <1>5, AtStep DEF Follow, Doing
    <3>2. r \in Intent
      <4>1. PICK i \in Intent : Now(w).key = <<"next", i>>
        BY <3>1 DEF Legal
      <4> QED
        BY <2>2, <4>1 DEF Kinds, TypeOK
    <3> QED
      BY <1>1, <1>5, <2>2, <3>2 DEF Follow, Hops
  <2> QED
    BY <2>1, <2>2
<1> QED
  BY <1>1, <1>2, <1>3, <1>4, <1>5 DEF Does

LEMMA Progress ==
    ASSUME RecordsAssumption, Kinds, NEW w \in Worker, Does(w)
    PROVE  /\ todo' \in [Worker -> Seq(LegalStep)] /\ DOMAIN raw' = Worker /\ tries' \in [Worker -> Nat]
           /\ \A v \in Worker : Shaped(todo'[v]) /\ \A s \in Later(v)' : s \in Later(v) \/ s.op = "follow"
           /\ \A v \in Worker \ {w} : todo'[v] = todo[v] /\ raw'[v] = raw[v] /\ tries'[v] = tries[v]
           /\ \/ todo'[w] = todo[w]
              \/ todo'[w] = <<>>
              \/ Now(w)'.op = "follow" /\ raw'[w] = raw[w] /\ Follow(w)
              \/ Advance(w) /\ Follows(Now(w), Now(w)') /\ todo'[w] = Tail(todo[w])
           /\ raw'[w] = raw[w] \/ raw'[w] = Unread \/ (Keeps(w) /\ raw'[w] = store[Now(w).key])
<1>1. todo[w] # <<>> /\ (Advance(w) \/ Stop(w) \/ Keeps(w) \/ Retries(w) \/ Hops(w))
  BY Ways
<1>2. /\ todo \in [Worker -> Seq(LegalStep)] /\ DOMAIN raw = Worker /\ tries \in [Worker -> Nat]
      /\ \A v \in Worker : Shaped(todo[v])
  BY DEF Kinds
<1>3. CASE Advance(w) \/ Stop(w)
  BY <1>1, <1>3, Onwards
<1>4. CASE Keeps(w) \/ Retries(w)
  <2>1. todo' = todo /\ \A v \in Worker : Later(v)' = Later(v)
    BY <1>4 DEF Keeps, Retries, Later
  <2>2. DOMAIN raw' = Worker /\ tries' \in [Worker -> Nat]
    BY <1>2, <1>4 DEF Keeps, Retries
  <2>3. \A v \in Worker \ {w} : raw'[v] = raw[v] /\ tries'[v] = tries[v]
    BY <1>2, <1>4 DEF Keeps, Retries
  <2>4. raw'[w] = raw[w] \/ raw'[w] = Unread \/ (Keeps(w) /\ raw'[w] = store[Now(w).key])
    BY <1>2, <1>4 DEF Keeps, Retries
  <2> QED
    BY <1>2, <2>1, <2>2, <2>3, <2>4
<1>5. CASE Hops(w)
  <2>1. PICK i \in Intent : todo' = [todo EXCEPT ![w] = <<Step("follow", <<"next", i>>, None)>>]
    BY <1>5 DEF Hops
  <2> DEFINE s == Step("follow", <<"next", i>>, None)
  <2>2. s \in LegalStep /\ s.op = "follow"
    BY RouteSteps DEF Step
  <2>3. Shaped(<<s>>) /\ <<s>> \in Seq(LegalStep)
    BY <2>2, OneStepShaped
  <2> HIDE DEF s
  <2>4. /\ todo' \in [Worker -> Seq(LegalStep)] /\ \A v \in Worker : Shaped(todo'[v])
        /\ todo'[w] = <<s>> /\ \A v \in Worker \ {w} : todo'[v] = todo[v]
    BY <1>2, <2>1, <2>3 DEF s
  <2>5. Now(w)' = s
    BY <2>4 DEF Now
  <2>6. \A v \in Worker : \A x \in Later(v)' : x \in Later(v) \/ x.op = "follow"
    <3> TAKE v \in Worker
    <3>1. CASE v = w
      BY <2>2, <2>4, <3>1 DEF Later
    <3>2. CASE v # w
      BY <2>4, <3>2 DEF Later
    <3> QED
      BY <3>1, <3>2
  <2> QED
    BY <1>2, <1>5, <2>2, <2>4, <2>5, <2>6 DEF Hops
<1> QED
  BY <1>1, <1>3, <1>4, <1>5

Writes(w) ==
    /\ Write(w) /\ Unchanged(w) /\ (Now(w).op \in Blind \/ raw[w] # Unread)
    /\ store' = [store EXCEPT ![Now(w).key] = Written(Now(w), raw[w])]

\* What one step of a request does to everything else.
LEMMA Elsewhere ==
    ASSUME Kinds, NEW w \in Worker, Does(w)
    PROVE  /\ code' = code /\ drawn' = drawn
           /\ store' = store \/ Writes(w)
           /\ UNCHANGED <<live, past>> \/ Commit(w)
           /\ issued' = issued \/ Issue(w)
           /\ \/ known' = known
              \/ Writes(w) /\ Now(w).op \in Blind /\ known' = known \cup {Now(w).key} /\ Advance(w)
           /\ ended' = ended
              \/ /\ Now(w).op = "logout" /\ todo'[w] = <<>> /\ ended' = ended \cup {Now(w).key[2]}
                 /\ (Read(w) \/ Write(w)) /\ faults' = faults
           /\ granted' = granted \/ (Writes(w) /\ Now(w).op = "quota" /\ granted' = granted + 1)
           /\ gaveUp' = gaveUp \/ (Write(w) /\ ~Unchanged(w) /\ Now(w).op = "quota"
                                   /\ ~(tries[w] + 1 < Attempts) /\ gaveUp' = TRUE /\ UNCHANGED store)
           /\ faults' = faults \/ faults' = faults + 1
<1>1. CASE Read(w)
  BY <1>1 DEF Read, SignsOut
<1>2. CASE Write(w)
  <2>1. CASE Unchanged(w)
    BY <1>2, <2>1 DEF Write, Writes, SignsOut, Fault
  <2>2. CASE ~Unchanged(w)
    <3>1. Lost(w) /\ UNCHANGED <<store, granted, known, faults, code, live, past, issued, drawn>> /\ SignsOut(w)
      BY <1>2, <2>2 DEF Write
    <3> QED
      BY <1>2, <2>2, <3>1 DEF Lost, SignsOut
  <2> QED
    BY <2>1, <2>2
<1>3. CASE Issue(w) \/ Commit(w)
  BY <1>3 DEF Issue, Commit
<1>4. CASE Follow(w) \/ Crash(w)
  BY <1>4 DEF Follow, Crash, world, Fault
<1> QED
  BY <1>1, <1>2, <1>3, <1>4 DEF Does

LEMMA CommitKinds ==
    ASSUME RecordsAssumption, Kinds, NEW w \in Worker, Commit(w)
    PROVE  /\ live' \cup past' \subseteq Intent /\ live' \cap past' = {} /\ store' = store
           /\ past \subseteq past' /\ live \cup past \subseteq live' \cup past'
           /\ todo[w] # <<>> /\ Now(w).op = "commit"
           /\ Now(w).key \in {"scope"} \X Intent /\ <<Now(w).key[2], Now(w).arg>> \in Changes
           /\ live' \cup past' \subseteq live \cup past \cup {Now(w).arg}
           /\ live' \cup past' = live \cup past \/ Now(w).key[2] \in past'
           /\ todo'[w] # <<>> => Now(w).arg \in live' \cup past'
<1>1. todo[w] # <<>> /\ Now(w).op = "commit" /\ Legal(Now(w))
  BY AtStep DEF Commit, Doing
<1>2. Now(w).key \in {"scope"} \X Intent /\ <<Now(w).key[2], Now(w).arg>> \in Changes
  BY <1>1 DEF Legal
<1>3. Now(w).arg \in Intent /\ Now(w).key[2] \in Intent
  BY <1>2 DEF RecordsAssumption
<1>4. live \cup past \subseteq Intent /\ live \cap past = {}
  BY DEF Kinds, TypeOK
<1>5. Stop(w) => todo'[w] = <<>>
  BY DEF Stop, Kinds
<1> DEFINE old == Now(w).key[2]  new == Now(w).arg
<1>6. /\ store' = store
      /\ \/ new \in live \cup past /\ UNCHANGED <<live, past>>
         \/ new \notin live \cup past /\ old \in live /\ live' = (live \ {old}) \cup {new} /\ past' = past \cup {old}
         \/ UNCHANGED <<live, past>> /\ Stop(w)
  BY DEF Commit
<1> HIDE DEF old, new
<1> QED
  BY <1>1, <1>2, <1>3, <1>4, <1>5, <1>6 DEF old, new

-----------------------------------------------------------------------------
(* The kinds of things, and what is held in hand *)

LEMMA Changing ==
    ASSUME [Next]_vars
    PROVE  \/ \E w \in Worker : \E p \in Programs : Begin(w, p)
           \/ \E w \in Worker : Does(w)
           \/ \E k \in StoredKey : Expire(k)
           \/ Rotate
           \/ UNCHANGED vars
  BY DEF Next, Does

LEMMA ExpireKinds ==
    ASSUME RecordsAssumption, Kinds, NEW k \in StoredKey, Expire(k)
    PROVE  /\ TypeOK' /\ DOMAIN store' = StoredKey /\ store'[<<"quota", "window">>] # 0
           /\ Units' = Units
           /\ \A i \in Intent : store'[<<"scope", i>>] = store[<<"scope", i>>]
                             /\ store'[<<"next", i>>] = store[<<"next", i>>]
           /\ \A e \in Evidence : store'[<<"evidence", e>>] = store[<<"evidence", e>>]
           /\ \A j \in StoredKey : store'[j] = store[j] \/ store'[j] = None
           /\ UNCHANGED <<progress, world, faults>>
<1>1. /\ k[1] \in {"challenge", "session"} /\ store' = [store EXCEPT ![k] = None]
      /\ UNCHANGED <<live, past>> /\ UNCHANGED <<progress, world, faults>>
  BY DEF Expire, world
<1>2. DOMAIN store = StoredKey /\ TypeOK /\ store[<<"quota", "window">>] # 0
  BY DEF Kinds
<1>3. /\ k # <<"quota", "window">>
      /\ \A i \in Intent : k # <<"scope", i>> /\ k # <<"next", i>>
      /\ \A e \in Evidence : k # <<"evidence", e>>
  BY <1>1
<1>4. TypeOK' /\ DOMAIN store' = StoredKey /\ store'[<<"quota", "window">>] # 0
  BY <1>1, <1>2, <1>3, StoreKinds
<1>5. \A j \in StoredKey : store'[j] = IF j = k THEN None ELSE store[j]
  BY <1>1, <1>2
<1>6. store'[<<"quota", "window">>] = store[<<"quota", "window">>]
  BY <1>3, <1>5, KeyKinds
<1>7. \A i \in Intent : store'[<<"scope", i>>] = store[<<"scope", i>>] /\ store'[<<"next", i>>] = store[<<"next", i>>]
  BY <1>3, <1>5, KeyKinds
<1>8. \A e \in Evidence : store'[<<"evidence", e>>] = store[<<"evidence", e>>]
  BY <1>3, <1>5, KeyKinds
<1> QED
  BY <1>1, <1>4, <1>5, <1>6, <1>7, <1>8 DEF Units

LEMMA KindsKept ==
    ASSUME RecordsAssumption, Kinds, DrawnOnce, \A w \in Worker : Held(w), [Next]_vars
    PROVE  Kinds'
<1>1. ASSUME NEW w \in Worker, NEW p \in Programs, Begin(w, p) PROVE Kinds'
  <2>1. todo' \in [Worker -> Seq(LegalStep)] /\ \A v \in Worker : Shaped(todo'[v])
    BY <1>1, Beginning
  <2>2. /\ UNCHANGED <<store, raw, tries, code, live, past, issued, granted, known, gaveUp, ended, faults>>
        /\ drawn \subseteq drawn'
    BY <1>1 DEF Begin
  <2> QED
    BY <2>1, <2>2 DEF Kinds, TypeOK, Units
<1>2. ASSUME NEW w \in Worker, Does(w) PROVE Kinds'
  <2>1. todo[w] # <<>> /\ Now(w) \in Later(w) /\ Legal(Now(w)) /\ Now(w).key \in StoredKey
    BY <1>2, Ways, AtStep
  <2>2. /\ todo' \in [Worker -> Seq(LegalStep)] /\ \A v \in Worker : Shaped(todo'[v])
        /\ DOMAIN raw' = Worker /\ tries' \in [Worker -> Nat]
    BY <1>2, Progress
  <2>3. TypeOK' /\ DOMAIN store' = StoredKey /\ store'[<<"quota", "window">>] # 0
    <3>1. CASE Writes(w)
      <4>1. UNCHANGED <<live, past>>
        BY <3>1 DEF Writes, Write
      <4> QED
        BY <2>1, <3>1, <4>1, WriteKinds DEF Writes
    <3>2. CASE Commit(w)
      BY <3>2, CommitKinds DEF Kinds, TypeOK, Units
    <3>3. CASE UNCHANGED <<store, live, past>>
      BY <3>3 DEF Kinds, TypeOK, Units
    <3> QED
      BY <1>2, <3>1, <3>2, <3>3, Elsewhere
  <2>4. code' \in {1, 2} /\ {granted', faults'} \subseteq Nat /\ gaveUp' \in BOOLEAN
    <3>1. /\ code' = code /\ (granted' = granted \/ granted' = granted + 1)
          /\ (faults' = faults \/ faults' = faults + 1) /\ (gaveUp' = gaveUp \/ gaveUp' = TRUE)
      BY <1>2, Elsewhere
    <3>2. code \in {1, 2} /\ granted \in Nat /\ faults \in Nat /\ gaveUp \in BOOLEAN
      BY DEF Kinds
    <3>3. code' \in {1, 2} /\ granted' \in Nat /\ faults' \in Nat
      BY <3>1, <3>2
    <3>4. gaveUp' \in BOOLEAN
      BY <3>1, <3>2, Zenon
    <3> QED
      BY <3>3, <3>4
  <2>5. issued' \in [Challenge -> Nat]
    <3>1. CASE Issue(w)
      <4>1. Now(w).key[2] \in Challenge
        BY <2>1, <3>1 DEF Issue, Doing, Legal
      <4>2. issued \in [Challenge -> Nat] /\ issued' = [issued EXCEPT ![Now(w).key[2]] = @ + 1]
        BY <3>1 DEF Issue, Kinds
      <4> QED
        BY <4>1, <4>2
    <3>2. issued' = issued \/ Issue(w)
      BY <1>2, Elsewhere
    <3> QED
      BY <3>1, <3>2 DEF Kinds
  <2>6. known' \subseteq drawn'
    <3>1. Now(w).op \in Blind => Offers(w, Now(w).key)
      BY <2>1 DEF Offers
    <3>2. Now(w).op \in Blind => Now(w).key \in drawn
      BY <2>1, <3>1 DEF DrawnOnce
    <3>3. drawn' = drawn /\ (known' = known \/ (Now(w).op \in Blind /\ known' = known \cup {Now(w).key}))
      BY <1>2, Elsewhere
    <3> QED
      BY <3>2, <3>3 DEF Kinds
  <2>7. ended' \subseteq Session
    <3>1. Now(w).op = "logout" => Now(w).key[2] \in Session
      BY <2>1 DEF Legal
    <3>2. ended' = ended \/ (Now(w).op = "logout" /\ ended' = ended \cup {Now(w).key[2]})
      BY <1>2, Elsewhere
    <3> QED
      BY <3>1, <3>2 DEF Kinds
  <2> QED
    BY <2>2, <2>3, <2>4, <2>5, <2>6, <2>7 DEF Kinds
<1>3. ASSUME NEW k \in StoredKey, Expire(k) PROVE Kinds'
  <2>2. UNCHANGED <<todo, raw, tries, code, live, past, issued, granted, drawn, known, gaveUp, ended, faults>>
    BY <1>3 DEF Expire, progress, world
  <2>3. TypeOK' /\ DOMAIN store' = StoredKey /\ store'[<<"quota", "window">>] # 0
    BY <1>3, ExpireKinds
  <2> QED
    BY <2>2, <2>3 DEF Kinds
<1>4. CASE Rotate
  BY <1>4 DEF Rotate, Kinds, TypeOK, Units, progress
<1>5. CASE UNCHANGED vars
  BY <1>5 DEF vars, Kinds, TypeOK, Units, progress, world
<1> QED
  BY <1>1, <1>2, <1>3, <1>4, <1>5, Changing

LEMMA HeldKept ==
    ASSUME RecordsAssumption, Kinds, \A w \in Worker : Held(w), [Next]_vars, NEW v \in Worker
    PROVE  Held(v)'
<1>1. ASSUME UNCHANGED <<todo[v], raw[v]>> PROVE Held(v)'
  BY <1>1 DEF Held, Doing, Now
<1>2. ASSUME NEW w \in Worker, NEW p \in Programs, Begin(w, p) PROVE Held(v)'
  <2>1. raw' = raw /\ \A u \in Worker \ {w} : todo'[u] = todo[u]
    BY <1>2, Beginning DEF Begin
  <2>2. raw[w] = Unread
    BY <1>2 DEF Begin, Held, Doing
  <2> QED
    BY <1>1, <2>1, <2>2 DEF Held
<1>3. ASSUME NEW w \in Worker, Does(w) PROVE Held(v)'
  <2>1. CASE v # w
    BY <1>1, <1>3, <2>1, Progress
  <2>2. CASE v = w
    <3>1. CASE Advance(w) \/ Stop(w) \/ Retries(w)
      BY <2>2, <3>1 DEF Advance, Stop, Ready, Retries, Held, Kinds
    <3>2. CASE Hops(w)
      <4>1. raw' = raw /\ Now(w).op = "follow"
        BY <3>2 DEF Hops, Follow, Doing
      <4>2. raw[w] = Unread
        BY <4>1 DEF Held, Doing
      <4> QED
        BY <2>2, <4>1, <4>2 DEF Held
    <3>3. CASE Keeps(w)
      <4> DEFINE s == Now(w)  r == store[s.key]
      <4>1. /\ todo[w] # <<>> /\ s.op \in Reading /\ ~Content(s, r) /\ ~Refused(s, r)
            /\ todo' = todo /\ raw'[w] = r
        BY <3>3 DEF Keeps, Read, Doing, Kinds
      <4>2. Legal(s)
        BY <4>1, AtStep
      <4>3. Now(w)' = s
        BY <4>1 DEF Now
      <4> HIDE DEF s, r
      <4>4. s.op \in {"claim", "confirm", "logout", "permit", "replace", "quota"}
        BY <4>1 DEF Reading, Content, Refused
      <4>5. s.op = "claim" => r = "open"
        BY <4>1, <4>2 DEF Content, Refused, Legal, Kinds, TypeOK, s, r
      <4>6. s.op = "confirm" => r = None \/ (r \in Receipt /\ ~r.confirmed)
        <5>1. s.op = "confirm" => r \in Receipt \cup {None}
          BY <4>2 DEF Legal, Kinds, TypeOK, s, r
        <5>2. s.op = "confirm" => r = None \/ ~r.confirmed
          BY <4>1 DEF Content, Refused
        <5> QED
          BY <5>1, <5>2
      <4>7. s.op \in {"permit", "replace"} => r = None
        BY <4>1 DEF Content, Refused
      <4>8. s.op = "quota" => r = None \/ r \in 1 .. MaxQuota - 1
        <5>1. s.op = "quota" => s.key = <<"quota", "window">>
          BY <4>2 DEF Legal
        <5>2. s.op = "quota" /\ r # None => r \in 0 .. MaxQuota /\ r # 0
          BY <5>1 DEF Kinds, TypeOK, Units, r
        <5>3. s.op = "quota" /\ r # None => ~(r >= MaxQuota)
          BY <4>1 DEF Refused
        <5> QED
          BY <5>2, <5>3 DEF RecordsAssumption
      <4> QED
        BY <2>2, <4>1, <4>3, <4>4, <4>5, <4>6, <4>7, <4>8 DEF Held, Doing
    <3> QED
      BY <1>3, <3>1, <3>2, <3>3, Ways
  <2> QED
    BY <2>1, <2>2
<1>4. ASSUME NEW k \in StoredKey, Expire(k) PROVE Held(v)'
  <2>1. UNCHANGED progress
    BY <1>4 DEF Expire
  <2> QED
    BY <1>1, <2>1 DEF progress
<1>5. CASE Rotate
  BY <1>1, <1>5 DEF Rotate, progress
<1>6. CASE UNCHANGED vars
  BY <1>1, <1>6 DEF vars, progress
<1> QED
  BY <1>2, <1>3, <1>4, <1>5, <1>6, Changing

-----------------------------------------------------------------------------
(* Quotas *)

LEMMA UnitsGrow ==
    ASSUME RecordsAssumption, Kinds, NEW w \in Worker, Held(w), Does(w)
    PROVE  /\ Units \in 0 .. MaxQuota /\ Units' \in Nat
           /\ Units' = Units \/ Units' = Units + 1
           /\ Writes(w) /\ Now(w).op = "quota" => Units' = Units + 1
<1>1. Units \in 0 .. MaxQuota /\ MaxQuota \in Nat /\ Units = UnitsOf(store[<<"quota", "window">>])
  BY DEF Kinds, TypeOK, Units, UnitsOf, RecordsAssumption
<1>2. Units' = UnitsOf(store'[<<"quota", "window">>])
  BY DEF Units, UnitsOf
<1>3. todo[w] # <<>> /\ Legal(Now(w))
  BY Ways, AtStep
<1>4. CASE Writes(w) /\ Now(w).op = "quota"
  <2>1. Now(w).key = <<"quota", "window">>
    BY <1>3, <1>4 DEF Legal
  <2>2. Written(Now(w), raw[w]) = UnitsOf(raw[w]) + 1 /\ store[<<"quota", "window">>] = raw[w]
    BY <1>3, <1>4, <2>1, WrittenIs DEF Writes, Unchanged, Expected, Blind
  <2>3. store'[<<"quota", "window">>] = Units + 1
    BY <1>1, <1>4, <2>1, <2>2, KeyKinds DEF Writes, Kinds
  <2>4. Units + 1 # None
    BY <1>1 DEF RecordsAssumption
  <2> QED
    BY <1>1, <1>2, <2>3, <2>4 DEF UnitsOf
<1>5. CASE Writes(w) /\ Now(w).op # "quota"
  <2>1. Now(w).key # <<"quota", "window">>
    BY <1>3, <1>5 DEF Legal
  <2>2. store'[<<"quota", "window">>] = store[<<"quota", "window">>]
    BY <1>5, <2>1, KeyKinds DEF Writes, Kinds
  <2> QED
    BY <1>1, <1>2, <1>5, <2>2
<1>6. CASE store' = store /\ ~Writes(w)
  BY <1>1, <1>2, <1>6
<1> QED
  BY <1>4, <1>5, <1>6, Elsewhere

\* A lost round was lost to a unit that somebody else took.
LEMMA TakenMeanwhile ==
    ASSUME RecordsAssumption, Kinds, NEW w \in Worker, Held(w), RoundsLost(w),
           Write(w), ~Unchanged(w), Now(w).op = "quota"
    PROVE  tries[w] + 1 <= Units /\ tries[w] \in Nat
<1> DEFINE c == store[<<"quota", "window">>]  r == raw[w]
<1>1. todo[w] # <<>> /\ r # Unread /\ Doing(w, {"quota"})
  BY DEF Write, Blind, Doing
<1>2. Now(w).key = <<"quota", "window">>
  BY <1>1, AtStep DEF Legal
<1>3. c # r
  BY <1>2 DEF Unchanged, Expected, Blind
<1>4. r = None \/ r \in 1 .. MaxQuota - 1
  BY <1>1 DEF Held
<1>5. tries[w] \in Nat /\ tries[w] <= UnitsOf(r) /\ UnitsOf(r) <= Units
  BY <1>1 DEF RoundsLost, Kinds
<1>6. Units \in Nat /\ c # 0 /\ Units = UnitsOf(c)
  BY DEF Kinds, TypeOK, Units, UnitsOf, RecordsAssumption
<1> HIDE DEF c, r
<1>7. UnitsOf(r) \in Nat /\ UnitsOf(r) # Units
  BY <1>3, <1>4, <1>6 DEF UnitsOf, RecordsAssumption
<1> QED
  BY <1>5, <1>6, <1>7

LEMMA RoundsKept ==
    ASSUME RecordsAssumption, Kinds, \A w \in Worker : Held(w) /\ RoundsLost(w), [Next]_vars, NEW v \in Worker
    PROVE  RoundsLost(v)'
<1>1. Units \in 0 .. MaxQuota /\ MaxQuota \in Nat
  BY DEF Kinds, TypeOK, RecordsAssumption
<1>2. ASSUME UNCHANGED <<todo[v], raw[v], tries[v]>>, Units' \in Nat, Units' >= Units,
             raw[v] # Unread /\ Doing(v, {"quota"}) => UnitsOf(raw[v]) \in Nat
      PROVE  RoundsLost(v)'
  <2>1. tries[v] \in Nat
    BY DEF Kinds
  <2>2. Doing(v, {"quota"})' => Doing(v, {"quota"})
    BY <1>2 DEF Doing, Now
  <2>3. UnitsOf(raw[v])' = UnitsOf(raw[v])
    BY <1>2 DEF UnitsOf
  <2>4. ASSUME Doing(v, {"quota"})' PROVE tries[v] <= Units'
    <3>1. tries[v] <= Units
      BY <2>2, <2>4 DEF RoundsLost
    <3> QED
      BY <1>1, <1>2, <2>1, <3>1
  <2>5. ASSUME Doing(v, {"quota"})', raw[v] # Unread
        PROVE  tries[v] <= UnitsOf(raw[v]) /\ UnitsOf(raw[v]) <= Units'
    <3>1. tries[v] <= UnitsOf(raw[v]) /\ UnitsOf(raw[v]) <= Units /\ UnitsOf(raw[v]) \in Nat
      BY <1>2, <2>2, <2>5 DEF RoundsLost
    <3> QED
      BY <1>1, <1>2, <3>1
  <2>6. tries'[v] = tries[v] /\ raw'[v] = raw[v]
    BY <1>2
  <2>7. Doing(v, {"quota"})' =>
          /\ tries'[v] <= Units'
          /\ raw'[v] # Unread => tries'[v] <= UnitsOf(raw[v])' /\ UnitsOf(raw[v])' <= Units'
    BY <2>3, <2>4, <2>5, <2>6, Zenon
  <2>8. todo'[v] = <<>> => tries'[v] = 0
    BY <1>2, <2>6 DEF RoundsLost
  <2> QED
    BY <2>7, <2>8 DEF RoundsLost
<1>3. raw[v] # Unread /\ Doing(v, {"quota"}) => UnitsOf(raw[v]) \in Nat
  BY DEF Held, UnitsOf, Doing, RecordsAssumption
<1>4. ASSUME NEW w \in Worker, NEW p \in Programs, Begin(w, p) PROVE RoundsLost(v)'
  <2>1. raw' = raw /\ tries' = tries /\ Units' = Units /\ \A u \in Worker \ {w} : todo'[u] = todo[u]
    BY <1>4, Beginning DEF Begin, Units
  <2>2. CASE v # w
    BY <1>1, <1>2, <1>3, <2>1, <2>2
  <2>3. CASE v = w
    <3>1. tries'[w] = 0 /\ raw'[w] = Unread
      BY <1>4 DEF Begin, RoundsLost, Held, Doing
    <3>2. Units' \in Nat
      BY <1>1, <2>1
    <3>3. 0 <= Units'
      BY <3>2
    <3> QED
      BY <2>3, <3>1, <3>3 DEF RoundsLost
  <2> QED
    BY <2>2, <2>3
<1>5. ASSUME NEW w \in Worker, Does(w) PROVE RoundsLost(v)'
  <2>1. Units' \in Nat /\ Units' >= Units
    BY <1>1, <1>5, UnitsGrow
  <2>2. CASE v # w
    BY <1>2, <1>3, <1>5, <2>1, <2>2, Progress
  <2>3. CASE v = w
    <3>1. CASE Advance(w) \/ Stop(w)
      BY <2>1, <2>3, <3>1 DEF Advance, Stop, Ready, Kinds, RoundsLost
    <3>2. CASE Retries(w)
      <4>1. tries'[w] = tries[w] + 1 /\ raw'[w] = Unread /\ Units' = Units
        BY <3>2 DEF Retries, Kinds, Units
      <4>2. tries[w] + 1 <= Units
        BY <3>2, TakenMeanwhile DEF Retries
      <4>3. todo'[w] # <<>>
        BY <1>5, <3>2, Ways DEF Retries
      <4> QED
        BY <2>3, <4>1, <4>2, <4>3 DEF RoundsLost
    <3>3. CASE Keeps(w)
      <4>1. tries' = tries /\ todo' = todo /\ store' = store /\ raw'[w] = store[Now(w).key] /\ todo[w] # <<>>
        BY <3>3 DEF Keeps, Read, Kinds, Doing
      <4>2. Now(w).op = "quota" => Now(w).key = <<"quota", "window">>
        BY <4>1, AtStep DEF Legal
      <4>3. Doing(w, {"quota"})' => Now(w).op = "quota" /\ Doing(w, {"quota"})
        BY <4>1 DEF Doing, Now
      <4>4. Units' = Units /\ Units = UnitsOf(store[<<"quota", "window">>])
        BY <4>1 DEF Units, UnitsOf
      <4>5. ASSUME Doing(w, {"quota"})'
            PROVE  tries'[w] <= Units' /\ UnitsOf(raw[w])' = Units'
        <5>1. UnitsOf(raw[w])' = UnitsOf(raw'[w])
          BY DEF UnitsOf
        <5>2. tries[w] <= Units
          BY <4>3, <4>5 DEF RoundsLost
        <5> QED
          BY <4>1, <4>2, <4>3, <4>4, <4>5, <5>1, <5>2
      <4>6. tries[w] \in Nat
        BY DEF Kinds
      <4> QED
        BY <1>1, <2>3, <4>1, <4>4, <4>5, <4>6 DEF RoundsLost
    <3>4. CASE Hops(w)
      <4>1. Now(w)'.op = "follow" /\ todo'[w] # <<>>
        <5>1. PICK i \in Intent : todo' = [todo EXCEPT ![w] = <<Step("follow", <<"next", i>>, None)>>]
          BY <3>4 DEF Hops
        <5> QED
          BY <5>1 DEF Now, Kinds, Step
      <4> QED
        BY <2>3, <4>1 DEF RoundsLost, Doing
    <3> QED
      BY <1>5, <3>1, <3>2, <3>3, <3>4, Ways
  <2> QED
    BY <2>2, <2>3
<1>6. ASSUME NEW k \in StoredKey, Expire(k) PROVE RoundsLost(v)'
  <2>1. UNCHANGED progress /\ Units' = Units
    BY <1>6, ExpireKinds DEF Expire
  <2> QED
    BY <1>1, <1>2, <1>3, <2>1 DEF progress
<1>7. CASE Rotate \/ UNCHANGED vars
  <2>1. UNCHANGED progress /\ Units' = Units
    BY <1>7 DEF Rotate, vars, Units
  <2> QED
    BY <1>1, <1>2, <1>3, <2>1 DEF progress
<1> QED
  BY <1>4, <1>5, <1>6, <1>7, Changing

LEMMA QuotasKept ==
    ASSUME RecordsAssumption, Kinds, Kinds', \A w \in Worker : Held(w) /\ RoundsLost(w), QuotaKept, [Next]_vars
    PROVE  QuotaKept'
<1>1. /\ Units \in 0 .. MaxQuota /\ Units' \in 0 .. MaxQuota /\ MaxQuota \in Nat /\ Attempts \in Nat
      /\ granted \in Nat /\ granted <= Units
  BY DEF Kinds, TypeOK, RecordsAssumption, QuotaKept
<1>2. ASSUME Units' = Units, UNCHANGED <<granted, gaveUp>> PROVE QuotaKept'
  BY <1>2 DEF QuotaKept
<1>3. ASSUME NEW w \in Worker, NEW p \in Programs, Begin(w, p) PROVE QuotaKept'
  BY <1>2, <1>3 DEF Begin, Units
<1>4. ASSUME NEW w \in Worker, Does(w) PROVE QuotaKept'
  <2>1. Units' = Units \/ Units' = Units + 1
    BY <1>4, UnitsGrow
  <2>2. granted' <= Units'
    <3>1. CASE granted' = granted
      BY <1>1, <2>1, <3>1
    <3>2. CASE Writes(w) /\ Now(w).op = "quota" /\ granted' = granted + 1
      <4>1. Units' = Units + 1
        BY <1>4, <3>2, UnitsGrow
      <4> QED
        BY <1>1, <3>2, <4>1
    <3> QED
      BY <1>4, <3>1, <3>2, Elsewhere
  <2>3. gaveUp' => Units' >= Attempts \/ Units' = MaxQuota
    <3>1. CASE gaveUp' = gaveUp
      BY <1>1, <2>1, <3>1 DEF QuotaKept
    <3>2. CASE Write(w) /\ ~Unchanged(w) /\ Now(w).op = "quota" /\ ~(tries[w] + 1 < Attempts) /\ UNCHANGED store
      <4>1. tries[w] + 1 <= Units /\ tries[w] \in Nat
        BY <3>2, TakenMeanwhile
      <4>2. Units' = Units
        BY <3>2 DEF Units
      <4> QED
        BY <1>1, <3>2, <4>1, <4>2
    <3> QED
      BY <1>4, <3>1, <3>2, Elsewhere
  <2> QED
    BY <2>2, <2>3 DEF QuotaKept
<1>5. ASSUME NEW k \in StoredKey, Expire(k) PROVE QuotaKept'
  <2>1. UNCHANGED world /\ Units' = Units
    BY <1>5, ExpireKinds DEF Expire
  <2> QED
    BY <1>2, <2>1 DEF world
<1>6. CASE Rotate \/ UNCHANGED vars
  BY <1>2, <1>6 DEF Rotate, vars, world, Units
<1> QED
  BY <1>3, <1>4, <1>5, <1>6, Changing

-----------------------------------------------------------------------------
(* Random keys, challenges and sessions *)

\* What a request still offers, it offered before; only a request that begins draws.
LEMMA OffersKept ==
    ASSUME RecordsAssumption, Kinds, NEW w \in Worker, Does(w), NEW v \in Worker, NEW k, Offers(v, k)'
    PROVE  Offers(v, k)
<1>1. PICK s \in Later(v)' : s.op \in Blind /\ s.key = k
  BY DEF Offers
<1>2. s \in Later(v)
  BY <1>1, Progress DEF Blind
<1> QED
  BY <1>1, <1>2 DEF Offers

\* The random key of a step that writes without a read is let go with the step.
LEMMA OfferDone ==
    ASSUME Kinds, NEW w \in Worker, todo[w] # <<>>, Now(w).op \in Blind, Advance(w) \/ Stop(w)
    PROVE  /\ Offers(w, Now(w).key) /\ todo'[w] = <<>>
           /\ \A k : ~Offers(w, k)'
<1>1. Offers(w, Now(w).key)
  BY AtStep DEF Offers
<1>2. todo'[w] = <<>>
  BY LastStep DEF Advance, Stop, Kinds
<1> QED
  BY <1>1, <1>2 DEF Offers, Later

LEMMA DrawnKept ==
    ASSUME RecordsAssumption, Kinds, DrawnOnce, [Next]_vars
    PROVE  DrawnOnce'
<1>1. ASSUME NEW v \in Worker, NEW k \in StoredKey, Offers(v, k), k \in drawn' \ known',
             \A u \in Worker : Offers(u, k)' => Offers(u, k)
      PROVE  /\ k \in drawn' \ known'
             /\ \A u \in Worker : Offers(u, k)' => u = v
  BY <1>1 DEF DrawnOnce
<1>2. ASSUME NEW w \in Worker, NEW p \in Programs, Begin(w, p) PROVE DrawnOnce'
  <2>1. /\ \A u \in Worker \ {w} : Later(u)' = Later(u)
        /\ \A s \in Later(w)' : s.op \in Blind => s.key \in drawn' \ drawn
        /\ drawn \subseteq drawn' /\ known' = known
    BY <1>2, Beginning DEF Begin
  <2>2. \A u \in Worker \ {w}, k \in StoredKey : Offers(u, k)' => Offers(u, k)
    BY <2>1 DEF Offers
  <2>3. \A k \in StoredKey : Offers(w, k)' => k \in drawn' \ drawn
    BY <2>1 DEF Offers
  <2>4. \A u \in Worker, k \in StoredKey : Offers(u, k) => k \in drawn \ known
    BY DEF DrawnOnce
  <2>5. known \subseteq drawn
    BY DEF Kinds
  <2> SUFFICES ASSUME NEW v \in Worker, NEW k \in StoredKey, Offers(v, k)'
               PROVE  k \in drawn' \ known' /\ \A u \in Worker : Offers(u, k)' => u = v
    BY DEF DrawnOnce
  <2>6. CASE v = w
    BY <2>1, <2>2, <2>3, <2>4, <2>5, <2>6
  <2>7. CASE v # w
    <3>1. Offers(v, k) /\ k \in drawn \ known
      BY <2>2, <2>4, <2>7
    <3>2. \A u \in Worker : Offers(u, k)' => Offers(u, k)
      BY <2>2, <2>3, <3>1
    <3> QED
      BY <1>1, <2>1, <3>1, <3>2
  <2> QED
    BY <2>6, <2>7
<1>3. ASSUME NEW w \in Worker, Does(w) PROVE DrawnOnce'
  <2> SUFFICES ASSUME NEW v \in Worker, NEW k \in StoredKey, Offers(v, k)'
               PROVE  k \in drawn' \ known' /\ \A u \in Worker : Offers(u, k)' => u = v
    BY DEF DrawnOnce
  <2>1. \A u \in Worker : Offers(u, k)' => Offers(u, k)
    BY <1>3, OffersKept
  <2>2. Offers(v, k) /\ k \in drawn \ known /\ \A u \in Worker : Offers(u, k) => u = v
    BY <2>1 DEF DrawnOnce
  <2>3. drawn' = drawn
    BY <1>3, Elsewhere
  <2>4. k \notin known'
    <3>1. CASE known' = known
      BY <2>2, <3>1
    <3>2. CASE Now(w).op \in Blind /\ known' = known \cup {Now(w).key} /\ Advance(w)
      <4>1. Offers(w, Now(w).key) /\ ~Offers(w, k)'
        BY <1>3, <3>2, Ways, OfferDone
      <4>2. k # Now(w).key
        BY <2>2, <4>1
      <4> QED
        BY <2>2, <3>2, <4>2
    <3> QED
      BY <1>3, <3>1, <3>2, Elsewhere
  <2> QED
    BY <1>1, <2>1, <2>2, <2>3, <2>4
<1>4. ASSUME UNCHANGED <<todo, drawn, known>> PROVE DrawnOnce'
  <2>1. \A v \in Worker, k \in StoredKey : Offers(v, k)' = Offers(v, k)
    BY <1>4 DEF Offers, Later
  <2> QED
    BY <1>4, <2>1 DEF DrawnOnce
<1>5. ASSUME NEW k \in StoredKey, Expire(k) PROVE DrawnOnce'
  BY <1>4, <1>5 DEF Expire, progress, world
<1>6. CASE Rotate \/ UNCHANGED vars
  BY <1>4, <1>6 DEF Rotate, vars, progress, world
<1> QED
  BY <1>2, <1>3, <1>5, <1>6, Changing

\* Where nothing is stored, claimed or offered that was not, nothing is in danger.
LEMMA ChallengeFrame ==
    ASSUME NEW c \in Challenge, NEW k, OnceOnly(c, k), drawn \subseteq drawn', issued'[c] = issued[c],
           store'[k] \in {store[k], None},
           \A v \in Worker : Issues(v, k)' => Issues(v, k),
           \A v \in Worker : Offers(v, k)' => Offers(v, k) \/ k \notin drawn
    PROVE  OnceOnly(c, k)'
<1>1. /\ (store'[k] # None \/ issued'[c] # 0 \/ \E w \in Worker : Issues(w, k)') =>
            k \in drawn' /\ \A w \in Worker : ~Offers(w, k)'
      /\ \A w \in Worker : Issues(w, k)' =>
            store'[k] = None /\ issued'[c] = 0 /\ \A v \in Worker : Issues(v, k)' => v = w
      /\ issued'[c] # 0 => issued'[c] = 1 /\ store'[k] = None
  BY Zenon DEF OnceOnly
<1> QED
  BY <1>1 DEF OnceOnly

\* What lets a request go on to another step.
LEMMA Goes ==
    ASSUME RecordsAssumption, Kinds, NEW w \in Worker, Does(w), Advance(w), todo'[w] # <<>>
    PROVE  (Read(w) /\ Content(Now(w), store[Now(w).key])) \/ Writes(w) \/ Commit(w)
<1>1. todo[w] # <<>> /\ todo'[w] = Tail(todo[w]) /\ todo'[w] # todo[w]
  BY Ways, AtStep, Onwards
<1>2. ~Stop(w)
  BY <1>1 DEF Stop, Kinds
<1>3. Now(w).op \notin {"logout", "issue", "follow"}
  BY <1>1, LastStep
<1>4. CASE Read(w)
  BY <1>1, <1>2, <1>4 DEF Read
<1>5. CASE Write(w)
  <2>1. CASE Unchanged(w)
    BY <1>5, <2>1 DEF Write, Writes
  <2>2. CASE ~Unchanged(w)
    <3>1. Lost(w)
      BY <1>5, <2>2 DEF Write
    <3>2. todo' # todo
      BY <1>1
    <3> QED
      BY <1>2, <1>3, <3>1, <3>2 DEF Lost
  <2> QED
    BY <2>1, <2>2
<1>6. CASE Issue(w) \/ Follow(w) \/ Crash(w)
  BY <1>2, <1>3, <1>6 DEF Issue, Follow, Crash, Doing
<1> QED
  BY <1>4, <1>5, <1>6 DEF Does

LEMMA ChallengesKept ==
    ASSUME RecordsAssumption, Kinds, \A w \in Worker : Held(w), DrawnOnce, ChallengeOnce, [Next]_vars
    PROVE  ChallengeOnce'
<1> SUFFICES ASSUME NEW c \in Challenge, NEW k, k = <<"challenge", c>> PROVE OnceOnly(c, k)'
  BY DEF ChallengeOnce
<1>1. k \in StoredKey /\ OnceOnly(c, k)
  BY KeyKinds DEF ChallengeOnce
<1>2. k[1] = "challenge" /\ k[2] = c
  OBVIOUS
<1>3. ASSUME NEW w \in Worker, NEW p \in Programs, Begin(w, p) PROVE OnceOnly(c, k)'
  <2>1. /\ \A u \in Worker \ {w} : Later(u)' = Later(u) /\ todo'[u] = todo[u]
        /\ \A s \in Later(w)' : s.op \in Blind => s.key \notin drawn
        /\ Now(w)'.op # "issue"
    BY <1>3, Beginning
  <2>2. store' = store /\ issued' = issued /\ drawn \subseteq drawn'
    BY <1>3 DEF Begin
  <2>3. \A v \in Worker : Issues(v, k)' => Issues(v, k)
    BY <2>1 DEF Issues, Doing, Now
  <2>4. \A v \in Worker : Offers(v, k)' => Offers(v, k) \/ k \notin drawn
    BY <2>1 DEF Offers
  <2> QED
    BY <1>1, <2>2, <2>3, <2>4, ChallengeFrame
<1>4. ASSUME NEW w \in Worker, Does(w) PROVE OnceOnly(c, k)'
  <2>1. todo[w] # <<>> /\ Legal(Now(w)) /\ DOMAIN store = StoredKey /\ issued \in [Challenge -> Nat]
    BY <1>4, Ways, AtStep DEF Kinds
  <2>2. drawn' = drawn /\ \A v \in Worker : Offers(v, k)' => Offers(v, k)
    BY <1>4, Elsewhere, OffersKept
  <2>3. \A v \in Worker \ {w} : Issues(v, k)' => Issues(v, k)
    <3>1. \A v \in Worker \ {w} : todo'[v] = todo[v]
      BY <1>4, Progress
    <3> QED
      BY <3>1 DEF Issues, Doing, Now
  <2>4. CASE Issue(w) /\ Now(w).key = k
    <3>1. Issues(w, k)
      BY <2>4 DEF Issues, Issue
    <3>2. store[k] = None /\ issued[c] = 0 /\ k \in drawn /\ \A v \in Worker : ~Offers(v, k) /\ (Issues(v, k) => v = w)
      BY <1>1, <3>1 DEF OnceOnly
    <3>3. issued'[c] = 1 /\ store' = store
      BY <1>2, <2>1, <2>4, <3>2 DEF Issue
    <3>4. ~Issues(w, k)'
      <4>1. todo'[w] = <<>>
        BY <2>1, <2>4, LastStep DEF Issue, Advance, Doing, Kinds
      <4> QED
        BY <4>1 DEF Issues, Doing
    <3>5. \A v \in Worker : ~Issues(v, k)'
      BY <2>3, <3>2, <3>4
    <3> QED
      BY <2>2, <3>2, <3>3, <3>5 DEF OnceOnly
  <2>5. CASE Writes(w) /\ Now(w).key = k /\ Now(w).op = "offer"
    <3>1. store[k] = None /\ issued' = issued /\ Offers(w, k)
      BY <2>1, <2>5, AtStep DEF Writes, Unchanged, Expected, Blind, Write, Offers
    <3>2. issued[c] = 0 /\ \A v \in Worker : ~Issues(v, k)
      BY <1>1, <3>1 DEF OnceOnly
    <3>3. Advance(w) \/ Stop(w)
      BY <2>5 DEF Writes, Write
    <3>4. todo'[w] = <<>> /\ ~Offers(w, k)'
      BY <2>1, <2>5, <3>3, OfferDone DEF Blind
    <3>5. k \in drawn /\ \A v \in Worker : Offers(v, k) => v = w
      BY <1>1, <3>1 DEF DrawnOnce
    <3>6. \A v \in Worker : ~Offers(v, k)'
      BY <2>2, <3>4, <3>5
    <3>7. \A v \in Worker : ~Issues(v, k)'
      BY <2>3, <3>2, <3>4 DEF Issues, Doing
    <3> QED
      BY <2>2, <3>1, <3>2, <3>5, <3>6, <3>7 DEF OnceOnly
  <2>6. CASE Writes(w) /\ Now(w).key = k /\ Now(w).op = "claim"
    <3>1. store[k] = raw[w] /\ issued' = issued /\ raw[w] # Unread
      BY <2>6 DEF Writes, Unchanged, Expected, Blind, Write
    <3>2. store[k] # None
      BY <2>6, <3>1 DEF Held, RecordsAssumption
    <3>3. issued[c] = 0 /\ k \in drawn /\ \A v \in Worker : ~Offers(v, k) /\ ~Issues(v, k)
      BY <1>1, <3>2 DEF OnceOnly
    <3>4. store'[k] = None
      BY <1>1, <2>1, <2>6 DEF Writes, Written
    <3>5. \A v \in Worker : Issues(v, k)' => v = w
      BY <2>3, <3>3
    <3> QED
      BY <2>2, <3>1, <3>3, <3>4, <3>5 DEF OnceOnly
  <2>7. CASE ~(Issue(w) /\ Now(w).key = k) /\ ~(Writes(w) /\ Now(w).key = k)
    <3>1. store'[k] = store[k]
      <4>1. CASE Writes(w)
        BY <1>1, <2>1, <2>7, <4>1 DEF Writes
      <4> QED
        BY <1>4, <4>1, Elsewhere
    <3>2. issued'[c] = issued[c]
      <4>1. CASE Issue(w)
        <5>1. Now(w).key[2] # c
          <6>1. Now(w).key \in {"challenge"} \X Challenge
            BY <2>1, <4>1 DEF Issue, Doing, Legal
          <6> QED
            BY <2>7, <4>1, <6>1
        <5> QED
          BY <2>1, <4>1, <5>1 DEF Issue
      <4> QED
        BY <1>4, <4>1, Elsewhere
    <3>3. Issues(w, k)' => Issues(w, k)
      <4> SUFFICES ASSUME Issues(w, k)' PROVE Issues(w, k)
        OBVIOUS
      <4>1. todo'[w] # <<>> /\ Now(w)'.op = "issue" /\ Now(w)'.key = k
        BY DEF Issues, Doing
      <4>2. CASE todo'[w] = todo[w]
        BY <4>1, <4>2 DEF Issues, Doing, Now
      <4>3. CASE Advance(w) /\ Follows(Now(w), Now(w)')
        <5>1. Now(w).op = "claim" /\ Now(w).key = k
          BY <4>1, <4>3 DEF Follows
        <5>2. ~Writes(w) /\ ~Commit(w)
          BY <2>7, <5>1 DEF Commit, Doing
        <5>3. Content(Now(w), store[Now(w).key])
          BY <1>4, <4>1, <4>3, <5>2, Goes
        <5> QED
          BY <5>1, <5>3 DEF Content
      <4> QED
        BY <1>4, <4>1, <4>2, <4>3, Progress
    <3>4. \A v \in Worker : Issues(v, k)' => Issues(v, k)
      BY <2>3, <3>3
    <3> QED
      BY <1>1, <2>2, <3>1, <3>2, <3>4, ChallengeFrame
  <2>8. Writes(w) /\ Now(w).key = k => Now(w).op \in {"offer", "claim"}
    <3>1. Writes(w) => Now(w).op \in {"offer", "create", "login", "claim", "confirm", "logout", "permit", "replace", "quota"}
      BY <2>1, WrittenIs DEF Writes
    <3> QED
      BY <1>2, <2>1, <3>1 DEF Legal
  <2> QED
    BY <2>4, <2>5, <2>6, <2>7, <2>8
<1>5. ASSUME UNCHANGED <<todo, drawn, issued>>, store'[k] \in {store[k], None} PROVE OnceOnly(c, k)'
  <2>1. \A v \in Worker : Issues(v, k)' = Issues(v, k) /\ Offers(v, k)' = Offers(v, k)
    BY <1>5 DEF Issues, Doing, Now, Offers, Later
  <2> QED
    BY <1>1, <1>5, <2>1, ChallengeFrame
<1>6. ASSUME NEW j \in StoredKey, Expire(j) PROVE OnceOnly(c, k)'
  <2>1. store'[k] \in {store[k], None}
    BY <1>1, <1>6 DEF Expire, Kinds
  <2> QED
    BY <1>5, <1>6, <2>1 DEF Expire, progress, world
<1>7. CASE Rotate \/ UNCHANGED vars
  <2>1. todo' = todo /\ drawn' = drawn /\ issued' = issued /\ store' = store
    BY <1>7 DEF Rotate, vars, progress, world
  <2>2. store'[k] \in {store[k], None}
    BY <2>1
  <2>3. UNCHANGED <<todo, drawn, issued>>
    BY <2>1
  <2> QED
    BY <1>5, <2>2, <2>3
<1> QED
  BY <1>3, <1>4, <1>6, <1>7, Changing

LEMMA SessionsKept ==
    ASSUME RecordsAssumption, Kinds, Kinds', \A w \in Worker : Held(w) /\ Held(w)', DrawnOnce, SessionsEnd, [Next]_vars
    PROVE  SessionsEnd'
<1> DEFINE Ended == \A s \in ended : <<"session", s>> \in known /\ store[<<"session", s>>] = None
           Told(v) == \A s \in Later(v) : s.op \in {"check", "logout"} => s.key \in known
           Signing(v) == raw[v] # Unread /\ Doing(v, {"logout"}) =>
                             raw[v] # None /\ store[Now(v).key] \in {raw[v], None}
<1>1. Ended /\ \A v \in Worker : Told(v) /\ Signing(v)
  BY DEF SessionsEnd
<1>2. ASSUME Ended', \A v \in Worker : Told(v)' /\ Signing(v)' PROVE SessionsEnd'
  BY <1>2 DEF SessionsEnd
<1>3. DOMAIN store = StoredKey /\ ended \subseteq Session /\ known \subseteq drawn
  BY DEF Kinds
<1>4. ASSUME NEW v \in Worker, Told(v), known \subseteq known',
             \A s \in Later(v)' : s \in Later(v) \/ s.op = "follow"
      PROVE  Told(v)'
  BY <1>4
<1>5. ASSUME NEW v \in Worker, Signing(v), UNCHANGED <<todo[v], raw[v]>>,
             Doing(v, {"logout"}) /\ raw[v] # Unread => store'[Now(v).key] \in {store[Now(v).key], None}
      PROVE  Signing(v)'
  BY <1>5 DEF Doing, Now
<1> HIDE DEF Ended, Told, Signing
<1>6. ASSUME NEW w \in Worker, NEW p \in Programs, Begin(w, p) PROVE SessionsEnd'
  <2>1. /\ UNCHANGED <<store, raw, known, ended>> /\ \A v \in Worker \ {w} : todo'[v] = todo[v] /\ Later(v)' = Later(v)
        /\ todo'[w] = p /\ Shaped(p) /\ p # <<>>
        /\ \A s \in Later(w)' : s = p[1] \/ \E k \in 1 .. Len(p) - 1 : s = p[k + 1] /\ Follows(p[k], s)
    BY <1>6, Beginning DEF Begin
  <2>2. Ended'
    BY <1>1, <2>1 DEF Ended
  <2>3. Told(w)'
    <3> SUFFICES ASSUME NEW s \in Later(w)', s.op \in {"check", "logout"} PROVE s.key \in known
      BY <2>1 DEF Told
    <3>1. s = p[1]
      BY <2>1 DEF Follows
    <3>2. p[1] = Head(p) /\ p[1] \in LegalStep
      BY <2>1 DEF Shaped
    <3>3. s.key[1] = "session"
      BY <3>1, <3>2 DEF LegalStep, Legal
    <3> QED
      BY <1>6, <3>1, <3>2, <3>3 DEF Begin, Blind
  <2>4. \A v \in Worker \ {w} : Told(v)'
    BY <1>1, <2>1 DEF Told
  <2>5. Signing(w)'
    <3>1. raw'[w] = Unread
      BY <1>6, <2>1 DEF Begin, Held, Doing
    <3> QED
      BY <3>1 DEF Signing
  <2>6. \A v \in Worker \ {w} : Signing(v)'
    BY <1>1, <1>5, <2>1
  <2> QED
    BY <1>2, <2>2, <2>3, <2>4, <2>5, <2>6
<1>7. ASSUME NEW w \in Worker, Does(w) PROVE SessionsEnd'
  <2> DEFINE K == Now(w).key
  <2>1. /\ todo[w] # <<>> /\ Now(w) \in Later(w) /\ Legal(Now(w)) /\ K \in StoredKey
        /\ Tail(todo[w]) # todo[w]
    BY <1>7, Ways, AtStep
  <2>2. known \subseteq known'
    BY <1>7, Elsewhere
  <2>3. \A v \in Worker : Told(v)'
    BY <1>1, <1>4, <1>7, <2>2, Progress
  <2>4. Now(w).op = "logout" => K \in known /\ K = <<"session", K[2]>>
    BY <1>1, <2>1 DEF Told, Legal
  <2>5. Writes(w) => Now(w).op \in {"offer", "create", "login", "claim", "confirm", "logout", "permit", "replace", "quota"}
    BY <2>1, WrittenIs DEF Writes
  \* A session key is written to only by its own sign-in and by sign-outs.
  <2>6. ASSUME NEW s \in Session, <<"session", s>> \in known
        PROVE  store'[<<"session", s>>] \in {store[<<"session", s>>], None}
    <3>1. CASE Writes(w) /\ K = <<"session", s>>
      <4>1. Now(w).op \in {"login", "logout"}
        BY <2>1, <2>5, <3>1 DEF Legal
      <4>2. Now(w).op # "login"
        <5>1. Now(w).op = "login" => Offers(w, K)
          BY <2>1 DEF Offers, Blind
        <5> QED
          BY <2>1, <2>6, <3>1, <5>1 DEF DrawnOnce
      <4>3. Written(Now(w), raw[w]) = None
        BY <4>1, <4>2 DEF Written
      <4> QED
        BY <1>3, <2>1, <3>1, <4>3 DEF Writes
    <3>2. CASE Writes(w) /\ K # <<"session", s>>
      <4>1. <<"session", s>> \in StoredKey
        BY KeyKinds
      <4> QED
        BY <1>3, <3>2, <4>1 DEF Writes
    <3> QED
      BY <1>7, <3>1, <3>2, Elsewhere
  <2>7. Ended'
    <3>1. ASSUME NEW s \in ended PROVE <<"session", s>> \in known' /\ store'[<<"session", s>>] = None
      BY <1>1, <1>3, <2>2, <2>6 DEF Ended
    <3>2. ASSUME Now(w).op = "logout", todo'[w] = <<>>, Read(w) \/ Write(w), faults' = faults
          PROVE  K \in known' /\ store'[K] = None
      <4>1. K \in known /\ K = <<"session", K[2]>>
        BY <2>4, <3>2
      <4>2. CASE Read(w)
        <5>1. Content(Now(w), store[K])
          BY <2>1, <3>2, <4>2 DEF Read, Refused
        <5> QED
          BY <2>2, <3>2, <4>1, <4>2, <5>1 DEF Read, Content
      <4>3. CASE Write(w) /\ Unchanged(w)
        <5>1. Written(Now(w), raw[w]) = None
          BY <3>2 DEF Written
        <5> QED
          BY <1>3, <2>1, <2>2, <4>1, <4>3, <5>1 DEF Write
      <4>4. CASE Write(w) /\ ~Unchanged(w)
        <5>1. store' = store /\ store[K] # raw[w] /\ raw[w] # Unread
          BY <3>2, <4>4 DEF Write, Unchanged, Expected, Blind
        <5>2. store[K] \in {raw[w], None}
          BY <1>1, <2>1, <3>2, <5>1 DEF Signing, Doing
        <5> QED
          BY <2>2, <4>1, <5>1, <5>2
      <4> QED
        BY <3>2, <4>2, <4>3, <4>4
    <3>3. \/ ended' = ended
          \/ /\ Now(w).op = "logout" /\ todo'[w] = <<>> /\ ended' = ended \cup {K[2]}
             /\ (Read(w) \/ Write(w)) /\ faults' = faults
      BY <1>7, Elsewhere
    <3> HIDE DEF K
    <3> QED
      BY <2>4, <3>1, <3>2, <3>3 DEF Ended
  <2>8. \A v \in Worker \ {w} : Signing(v)'
    <3> SUFFICES ASSUME NEW v \in Worker \ {w} PROVE Signing(v)'
      OBVIOUS
    <3>1. UNCHANGED <<todo[v], raw[v]>>
      BY <1>7, Progress
    <3>2. ASSUME Doing(v, {"logout"}) PROVE store'[Now(v).key] \in {store[Now(v).key], None}
      <4>1. Now(v) \in Later(v) /\ Legal(Now(v)) /\ Now(v).op = "logout"
        BY <3>2, AtStep DEF Doing
      <4>2. Now(v).key \in known /\ \E s \in Session : Now(v).key = <<"session", s>>
        BY <1>1, <4>1 DEF Told, Legal
      <4> QED
        BY <2>6, <4>2
    <3> QED
      BY <1>1, <1>5, <3>1, <3>2
  <2>9. Signing(w)'
    <3>1. CASE Advance(w) \/ Stop(w) \/ Retries(w)
      <4>1. raw'[w] = Unread
        BY <3>1 DEF Advance, Stop, Ready, Retries, Kinds
      <4> QED
        BY <4>1 DEF Signing
    <3>2. CASE Keeps(w)
      <4>1. /\ raw'[w] = store[K] /\ todo' = todo /\ store' = store /\ ~Content(Now(w), store[K])
        BY <3>2 DEF Keeps, Read, Kinds
      <4>2. Now(w)' = Now(w) /\ (Doing(w, {"logout"})' => Now(w).op = "logout")
        BY <4>1 DEF Now, Doing
      <4>3. Now(w).op = "logout" => store[K] # None
        BY <4>1 DEF Content
      <4> QED
        BY <4>1, <4>2, <4>3 DEF Signing
    <3>3. CASE Hops(w)
      <4>1. raw' = raw /\ Now(w).op = "follow"
        BY <3>3 DEF Hops, Follow, Doing
      <4>2. raw[w] = Unread
        BY <4>1 DEF Held, Doing
      <4> QED
        BY <4>1, <4>2 DEF Signing
    <3> QED
      BY <1>7, <3>1, <3>2, <3>3, Ways
  <2> QED
    BY <1>2, <2>3, <2>7, <2>8, <2>9
<1>8. ASSUME NEW k \in StoredKey, Expire(k) PROVE SessionsEnd'
  <2>1. UNCHANGED <<todo, raw, known, ended>> /\ \A j \in StoredKey : store'[j] \in {store[j], None}
    BY <1>3, <1>8 DEF Expire, progress, world
  <2>2. Ended'
    <3>1. \A s \in ended : <<"session", s>> \in StoredKey
      BY <1>3, KeyKinds
    <3> QED
      BY <1>1, <2>1, <3>1 DEF Ended
  <2>3. \A v \in Worker : Told(v)'
    BY <1>1, <2>1 DEF Told, Later
  <2>4. \A v \in Worker : Signing(v)'
    <3> SUFFICES ASSUME NEW v \in Worker PROVE Signing(v)'
      OBVIOUS
    <3>1. Doing(v, {"logout"}) => Now(v).key \in StoredKey
      BY AtStep DEF Doing
    <3> QED
      BY <1>1, <1>5, <2>1, <3>1
  <2> QED
    BY <1>2, <2>2, <2>3, <2>4
<1>9. CASE Rotate \/ UNCHANGED vars
  <2>1. todo' = todo /\ raw' = raw /\ known' = known /\ ended' = ended /\ store' = store
    BY <1>9 DEF Rotate, vars, progress, world
  <2>2. Ended'
    BY <1>1, <2>1 DEF Ended
  <2>3. \A v \in Worker : Told(v)'
    BY <1>1, <2>1 DEF Told, Later
  <2>4. \A v \in Worker : Signing(v)'
    BY <1>1, <1>5, <2>1
  <2> QED
    BY <1>2, <2>2, <2>3, <2>4
<1> QED
  BY <1>6, <1>7, <1>8, <1>9, Changing

-----------------------------------------------------------------------------
(* Changes of a budget *)

\* Permissions and replacements are written once; revoked stays revoked.
OnlyMore ==
    /\ past \subseteq past' /\ live \cup past \subseteq live' \cup past'
    /\ \A i \in Intent : store[<<"scope", i>>] # None => store'[<<"scope", i>>] = store[<<"scope", i>>]

LEMMA RootsStay ==
    ASSUME RecordsAssumption, OnlyMore, NEW i \in Intent, RootOf(i) # None
    PROVE  RootOf(i)' = RootOf(i)
  BY DEF OnlyMore, RootOf

LEMMA ReachedStays ==
    ASSUME RecordsAssumption, OnlyMore, NEW s, Legal(s), Reached(s)
    PROVE  Reached(s)'
<1>1. CASE s.op = "commit"
  <2>1. s.key[2] \in Intent
    BY <1>1 DEF Legal
  <2> QED
    BY <1>1, <2>1, RootsStay DEF Reached
<1>2. CASE s.op = "permit"
  <2>1. s.arg \in Intent
    BY <1>2 DEF Legal, RecordsAssumption
  <2>2. RootOf(s.arg) # None /\ s.arg \in past /\ s.key[2] \in live \cup past
    BY <1>2 DEF Reached
  <2>3. RootOf(s.arg)' = RootOf(s.arg)
    BY <2>1, <2>2, RootsStay
  <2> QED
    BY <1>2, <2>2, <2>3 DEF Reached, OnlyMore
<1>3. CASE s.op = "replace"
  <2>1. s.key[2] \in Intent /\ s.arg \in Intent
    BY <1>3 DEF Legal, RecordsAssumption
  <2>2. /\ RootOf(s.key[2]) # None /\ s.key[2] \in past /\ s.arg \in live \cup past
        /\ store[<<"scope", s.arg>>] = RootOf(s.key[2])
    BY <1>3 DEF Reached
  <2>3. RootOf(s.key[2])' = RootOf(s.key[2])
    BY <2>1, <2>2, RootsStay
  <2> QED
    BY <1>3, <2>1, <2>2, <2>3 DEF Reached, OnlyMore
<1> QED
  BY <1>1, <1>2, <1>3 DEF Reached

\* Every step only adds to what is permitted, replaced and revoked.
LEMMA MoreAndMore ==
    ASSUME RecordsAssumption, Kinds, \A w \in Worker : Held(w), [Next]_vars
    PROVE  OnlyMore
<1>1. ASSUME UNCHANGED <<store, live, past>> PROVE OnlyMore
  BY <1>1 DEF OnlyMore
<1>2. ASSUME NEW w \in Worker, Does(w) PROVE OnlyMore
  <2>1. CASE Commit(w)
    BY <2>1, CommitKinds DEF OnlyMore
  <2>2. CASE Writes(w)
    <3>1. UNCHANGED <<live, past>>
      BY <2>2 DEF Writes, Write
    <3>2. ASSUME NEW i \in Intent, store[<<"scope", i>>] # None
          PROVE  store'[<<"scope", i>>] = store[<<"scope", i>>]
      <4>1. todo[w] # <<>> /\ Legal(Now(w))
        BY <1>2, Ways, AtStep
      <4>2. Now(w).op \in {"offer", "create", "login", "claim", "confirm", "logout", "permit", "replace", "quota"}
        BY <2>2, <4>1, WrittenIs DEF Writes
      <4>3. Now(w).key # <<"scope", i>>
        <5>1. Now(w).op = "permit" => store[Now(w).key] = None
          BY <2>2 DEF Held, Writes, Unchanged, Expected, Blind
        <5>2. Now(w).key = <<"scope", i>> => Now(w).op = "permit"
          BY <4>1, <4>2 DEF Legal
        <5> QED
          BY <3>2, <5>1, <5>2
      <4> QED
        BY <2>2, <4>3, KeyKinds DEF Writes, Kinds
    <3> QED
      BY <3>1, <3>2 DEF OnlyMore
  <2>3. CASE UNCHANGED <<store, live, past>>
    BY <1>1, <2>3
  <2> QED
    BY <1>2, <2>1, <2>2, <2>3, Elsewhere
<1>3. ASSUME NEW k \in StoredKey, Expire(k) PROVE OnlyMore
  BY <1>3, ExpireKinds DEF OnlyMore, world, Expire
<1>4. ASSUME NEW w \in Worker, NEW p \in Programs, Begin(w, p) PROVE OnlyMore
  BY <1>1, <1>4 DEF Begin
<1>5. CASE Rotate \/ UNCHANGED vars
  <2>1. UNCHANGED <<store, live, past>>
    BY <1>5 DEF Rotate, vars, world
  <2> QED
    BY <1>1, <2>1
<1> QED
  BY <1>2, <1>3, <1>4, <1>5, Changing

\* What is committed beyond the operator's intents replaced what is revoked.
Succeeded == Root \subseteq live \cup past /\ \A n \in (live \cup past) \ Root : \E o \in past : <<o, n>> \in Changes

Linked(i) == LET n == store[<<"next", i>>] IN
    n # None => /\ <<i, n>> \in Changes /\ i \in past /\ n \in live \cup past
                /\ RootOf(i) # None /\ store[<<"scope", n>>] = RootOf(i)

LEMMA ChangesAre ==
    ChangesInOrder <=> (\A w \in Worker : todo[w] # <<>> => Reached(Now(w))) /\ Succeeded /\ \A i \in Intent : Linked(i)
  BY DEF ChangesInOrder, Succeeded, Linked

LEMMA SucceededKept ==
    ASSUME RecordsAssumption, Kinds, \A w \in Worker : Held(w), Succeeded, [Next]_vars
    PROVE  Succeeded'
<1>1. OnlyMore
  BY MoreAndMore
<1>2. CASE \E w \in Worker : Commit(w)
  <2> PICK w \in Worker : Commit(w)
    BY <1>2
  <2>1. /\ <<Now(w).key[2], Now(w).arg>> \in Changes
        /\ live' \cup past' \subseteq live \cup past \cup {Now(w).arg}
        /\ live' \cup past' = live \cup past \/ Now(w).key[2] \in past'
    BY CommitKinds
  <2> QED
    BY <1>1, <2>1 DEF Succeeded, OnlyMore
<1>3. CASE UNCHANGED <<live, past>>
  BY <1>3 DEF Succeeded
<1>4. ASSUME NEW w \in Worker, Does(w) PROVE UNCHANGED <<live, past>> \/ Commit(w)
  BY <1>4, Elsewhere
<1>5. (\E w \in Worker : Commit(w)) \/ UNCHANGED <<live, past>>
  BY <1>4, Changing DEF Begin, Expire, Rotate, vars, world
<1> QED
  BY <1>2, <1>3, <1>5

\* Of the step that is next, by its value.
LEMMA ReachedAt ==
    ASSUME NEW w \in Worker, NEW t, t = Now(w)', Reached(t)'
    PROVE  Reached(Now(w))'
  BY DEF Reached, RootOf

\* The step that follows finds the change as far as it needs it.
LEMMA ReachedNext ==
    ASSUME RecordsAssumption, Kinds, \A u \in Worker : Held(u), OnlyMore, Succeeded,
           NEW w \in Worker, Does(w), Advance(w), todo'[w] # <<>>,
           NEW s, s = Now(w), NEW t, t = Now(w)', Reached(s), Follows(s, t)
    PROVE  Reached(t)'
<1>1. (Read(w) /\ Content(s, store[s.key])) \/ Writes(w) \/ Commit(w)
  BY Goes
<1>2. todo[w] # <<>> /\ Legal(s) /\ s.key \in StoredKey
  BY Ways, AtStep
<1>3. Writes(w) => s.op \in {"offer", "create", "login", "claim", "confirm", "logout", "permit", "replace", "quota"}
  BY <1>2, WrittenIs DEF Writes
<1>4. Commit(w) => s.op = "commit"
  BY DEF Commit, Doing
<1>5. Read(w) => s.op \in Reading
  BY DEF Read, Doing
<1>6. CASE t.op = "commit"
  <2>1. s.op = "allowed" /\ s.key = t.key
    BY <1>6 DEF Follows
  <2>2. Content(s, store[s.key])
    BY <1>1, <1>3, <1>4, <2>1
  <2>3. PICK i \in Intent : s.key = <<"scope", i>>
    BY <1>2, <2>1 DEF Legal
  <2>4. RootOf(i) # None
    BY <2>1, <2>2, <2>3 DEF Content, RootOf, RecordsAssumption
  <2>5. RootOf(i)' = RootOf(i)
    BY <2>4, RootsStay
  <2> QED
    BY <1>6, <2>1, <2>3, <2>4, <2>5 DEF Reached
<1>7. CASE t.op = "permit"
  <2>1. s.op = "commit" /\ s.key[2] = t.arg /\ s.arg = t.key[2]
    BY <1>7 DEF Follows
  <2>2. Commit(w)
    BY <1>1, <1>3, <1>5, <2>1 DEF Reading
  <2>3. <<s.key[2], s.arg>> \in Changes /\ s.key[2] \in Intent /\ s.arg \notin Root
    BY <1>2, <2>1 DEF Legal, RecordsAssumption
  <2>4. RootOf(s.key[2]) # None
    BY <2>1 DEF Reached
  <2>5. RootOf(s.key[2])' = RootOf(s.key[2])
    BY <2>3, <2>4, RootsStay
  <2>6. s.arg \in live' \cup past'
    BY <2>2, CommitKinds
  <2>7. s.key[2] \in past'
    <3>1. CASE s.arg \in live \cup past
      <4>1. PICK o \in past : <<o, s.arg>> \in Changes
        BY <2>3, <3>1 DEF Succeeded
      <4>2. o = s.key[2]
        <5>1. \A a, b \in Changes : a[2] = b[2] => a = b
          BY DEF RecordsAssumption
        <5>2. <<o, s.arg>> = <<s.key[2], s.arg>>
          BY <2>3, <4>1, <5>1
        <5> QED
          BY <5>2
      <4> QED
        BY <4>1, <4>2 DEF OnlyMore
    <3>2. CASE s.arg \notin live \cup past
      <4>1. live' \cup past' # live \cup past
        BY <2>6, <3>2
      <4> QED
        BY <2>2, <4>1, CommitKinds
    <3> QED
      BY <3>1, <3>2
  <2>8. RootOf(t.arg)' # None
    BY <2>1, <2>4, <2>5 DEF RootOf
  <2> QED
    BY <1>7, <2>1, <2>6, <2>7, <2>8 DEF Reached
<1>8. CASE t.op = "replace"
  <2>1. s.op = "permit" /\ s.key[2] = t.arg /\ s.arg = t.key[2]
    BY <1>8 DEF Follows
  <2>2. PICK n \in Intent : s.key = <<"scope", n>>
    BY <1>2, <2>1 DEF Legal
  <2>3. s.arg \in Intent
    BY <1>2, <2>1 DEF Legal, RecordsAssumption
  <2>4. RootOf(s.arg) # None /\ s.arg \in past /\ n \in live \cup past
    BY <2>1, <2>2 DEF Reached
  <2>5. RootOf(s.arg)' = RootOf(s.arg)
    BY <2>3, <2>4, RootsStay
  <2>6. store'[s.key] = RootOf(s.arg)
    <3>1. CASE Read(w) /\ Content(s, store[s.key])
      BY <2>1, <3>1 DEF Content, Read
    <3>2. CASE Writes(w)
      <4>1. Written(s, raw[w]) = RootOf(s.arg)
        BY <2>1 DEF Written
      <4> QED
        BY <1>2, <3>2, <4>1 DEF Writes, Kinds
    <3> QED
      BY <1>1, <1>4, <2>1, <3>1, <3>2
  <2>7. RootOf(t.key[2])' = store'[<<"scope", t.arg>>] /\ RootOf(t.key[2])' # None
    BY <2>1, <2>2, <2>4, <2>5, <2>6 DEF RootOf
  <2> QED
    BY <1>8, <2>1, <2>2, <2>4, <2>7 DEF Reached, OnlyMore
<1> QED
  BY <1>6, <1>7, <1>8 DEF Reached

LEMMA ReachedKept ==
    ASSUME RecordsAssumption, Kinds, \A u \in Worker : Held(u), Succeeded,
           \A u \in Worker : todo[u] # <<>> => Reached(Now(u)), [Next]_vars,
           NEW v \in Worker, todo'[v] # <<>>
    PROVE  Reached(Now(v))'
<1>1. OnlyMore
  BY MoreAndMore
<1>2. ASSUME todo'[v] = todo[v] PROVE Reached(Now(v))'
  <2>1. Now(v)' = Now(v) /\ Legal(Now(v)) /\ Reached(Now(v))
    BY <1>2, AtStep DEF Now
  <2> PICK t : t = Now(v)
    OBVIOUS
  <2>2. Legal(t) /\ Reached(t)
    BY <2>1
  <2> QED
    BY <1>1, <2>1, <2>2, ReachedStays, ReachedAt
<1>3. ASSUME NEW w \in Worker, NEW p \in Programs, Begin(w, p) PROVE Reached(Now(v))'
  <2>1. CASE v # w
    BY <1>2, <1>3, <2>1, Beginning
  <2>2. CASE v = w
    <3>1. Now(v)'.op \notin {"commit", "permit", "replace"}
      BY <1>3, <2>2, Beginning
    <3> QED
      BY <3>1 DEF Reached
  <2> QED
    BY <2>1, <2>2
<1>4. ASSUME NEW w \in Worker, Does(w) PROVE Reached(Now(v))'
  <2>1. CASE v # w
    BY <1>2, <1>4, <2>1, Progress
  <2>2. CASE v = w
    <3>1. CASE Advance(w) /\ Follows(Now(w), Now(w)')
      <4> PICK t : t = Now(w)'
        OBVIOUS
      <4> PICK s : s = Now(w)
        OBVIOUS
      <4>1. Reached(t)'
        <5>1. Reached(s)
          BY <1>4, Ways
        <5>2. Advance(w) /\ Follows(s, t) /\ todo'[w] # <<>>
          BY <2>2, <3>1
        <5> QED
          BY <1>1, <1>4, <5>1, <5>2, ReachedNext
      <4> QED
        BY <2>2, <4>1, ReachedAt
    <3>2. CASE Now(w)'.op = "follow"
      BY <2>2, <3>2 DEF Reached
    <3> QED
      BY <1>2, <1>4, <2>2, <3>1, <3>2, Progress
  <2> QED
    BY <2>1, <2>2
<1>5. ASSUME NEW k \in StoredKey, Expire(k) PROVE Reached(Now(v))'
  BY <1>2, <1>5 DEF Expire, progress
<1>6. CASE Rotate \/ UNCHANGED vars
  <2>1. todo'[v] = todo[v]
    BY <1>6 DEF Rotate, vars, progress
  <2> QED
    BY <1>2, <2>1
<1> QED
  BY <1>3, <1>4, <1>5, <1>6, Changing

LEMMA LinkedKept ==
    ASSUME RecordsAssumption, Kinds, \A u \in Worker : Held(u),
           \A u \in Worker : todo[u] # <<>> => Reached(Now(u)), [Next]_vars,
           NEW i \in Intent, Linked(i)
    PROVE  Linked(i)'
<1> DEFINE k == <<"next", i>>
<1>1. OnlyMore /\ k \in StoredKey
  BY MoreAndMore, KeyKinds
<1>2. ASSUME NEW n \in Intent, store'[k] = n, <<i, n>> \in Changes, i \in past, n \in live \cup past,
             RootOf(i) # None, store[<<"scope", n>>] = RootOf(i)
      PROVE  Linked(i)'
  <2>1. RootOf(i)' = RootOf(i)
    BY <1>1, <1>2, RootsStay
  <2> QED
    BY <1>1, <1>2, <2>1 DEF Linked, OnlyMore
<1>3. CASE store'[k] = store[k]
  <2>1. CASE store[k] = None
    BY <1>3, <2>1 DEF Linked
  <2>2. CASE store[k] # None
    <3>1. store[k] \in Intent
      BY <2>2 DEF Kinds, TypeOK
    <3> QED
      BY <1>2, <1>3, <2>2, <3>1 DEF Linked
  <2> QED
    BY <2>1, <2>2
<1>4. ASSUME NEW w \in Worker, Writes(w), Now(w).key = k, todo[w] # <<>> PROVE Linked(i)'
  <2>1. Legal(Now(w)) /\ Reached(Now(w)) /\ DOMAIN store = StoredKey
    BY <1>4, AtStep DEF Kinds
  <2>2. Now(w).op \in {"offer", "create", "login", "claim", "confirm", "logout", "permit", "replace", "quota"}
    BY <1>4, WrittenIs DEF Writes
  <2>3. Now(w).op = "replace" /\ <<i, Now(w).arg>> \in Changes
    BY <1>4, <2>1, <2>2 DEF Legal
  <2>4. store'[k] = Now(w).arg
    BY <1>1, <1>4, <2>1, <2>3 DEF Writes, Written
  <2>5. Now(w).key[2] = i /\ Now(w).arg \in Intent
    BY <1>4, <2>3 DEF RecordsAssumption
  <2>6. /\ RootOf(i) # None /\ i \in past /\ Now(w).arg \in live \cup past
        /\ store[<<"scope", Now(w).arg>>] = RootOf(i)
    BY <2>1, <2>3, <2>5 DEF Reached
  <2> QED
    BY <1>2, <2>3, <2>4, <2>5, <2>6
<1>5. ASSUME NEW w \in Worker, Does(w) PROVE Linked(i)'
  <2>1. CASE Writes(w) /\ Now(w).key # k
    BY <1>1, <1>3, <2>1 DEF Writes, Kinds
  <2> QED
    BY <1>3, <1>4, <1>5, <2>1, Ways, Elsewhere
<1>6. ASSUME NEW j \in StoredKey, Expire(j) PROVE Linked(i)'
  BY <1>3, <1>6, ExpireKinds
<1>7. ASSUME NEW w \in Worker, NEW p \in Programs, Begin(w, p) PROVE Linked(i)'
  BY <1>3, <1>7 DEF Begin
<1>8. CASE Rotate \/ UNCHANGED vars
  BY <1>3, <1>8 DEF Rotate, vars
<1> QED
  BY <1>5, <1>6, <1>7, <1>8, Changing

LEMMA ChangesKept ==
    ASSUME RecordsAssumption, Kinds, \A w \in Worker : Held(w), ChangesInOrder, [Next]_vars
    PROVE  ChangesInOrder'
<1>1. (\A w \in Worker : todo[w] # <<>> => Reached(Now(w))) /\ Succeeded /\ \A i \in Intent : Linked(i)
  BY ChangesAre
<1>2. Succeeded'
  BY <1>1, SucceededKept
<1>3. \A w \in Worker : todo'[w] # <<>> => Reached(Now(w))'
  BY <1>1, ReachedKept
<1>4. \A i \in Intent : Linked(i)'
  BY <1>1, LinkedKept
<1> QED
  BY <1>2, <1>3, <1>4 DEF ChangesInOrder, Succeeded, Linked

-----------------------------------------------------------------------------
(* The invariant, and what it promises *)

LEMMA InitIInv == ASSUME RecordsAssumption, Init PROVE IInv
<1>1. /\ store = [k \in StoredKey |-> None] /\ todo = [w \in Worker |-> <<>>] /\ raw = [w \in Worker |-> Unread]
      /\ tries = [w \in Worker |-> 0] /\ code = 1 /\ live = Root /\ past = {} /\ issued = [c \in Challenge |-> 0]
      /\ granted = 0 /\ drawn = {} /\ known = {} /\ gaveUp = FALSE /\ ended = {} /\ faults = 0
  BY DEF Init
<1>2. \A k \in StoredKey : store[k] = None
  BY <1>1
<1>3. Units = 0 /\ 0 \in 0 .. MaxQuota
  BY <1>2, KeyKinds DEF Units, RecordsAssumption
<1>4. None # 0
  BY DEF RecordsAssumption
<1>5. TypeOK
  BY <1>1, <1>2, <1>3, KeyKinds DEF TypeOK, RecordsAssumption
<1>6. Shaped(<<>>) /\ <<>> \in Seq(LegalStep)
  BY DEF Shaped
<1>7. Kinds
  <2>1. DOMAIN store = StoredKey /\ TypeOK /\ store[<<"quota", "window">>] # 0
    BY <1>1, <1>2, <1>4, <1>5, KeyKinds
  <2>2. todo \in [Worker -> Seq(LegalStep)] /\ \A w \in Worker : Shaped(todo[w])
    BY <1>1, <1>6
  <2>3. DOMAIN raw = Worker /\ tries \in [Worker -> Nat] /\ issued \in [Challenge -> Nat]
    BY <1>1
  <2>4. code \in {1, 2} /\ {granted, faults} \subseteq Nat /\ known \subseteq drawn /\ ended \subseteq Session
    BY <1>1
  <2>5. gaveUp \in BOOLEAN
    BY <1>1
  <2> QED
    BY <2>1, <2>2, <2>3, <2>4, <2>5 DEF Kinds
<1>8. \A w \in Worker : todo[w] = <<>> /\ raw[w] = Unread /\ tries[w] = 0 /\ Later(w) = {}
  BY <1>1 DEF Later
<1>9. \A w \in Worker : Held(w) /\ RoundsLost(w)
  BY <1>8 DEF Held, RoundsLost, Doing
<1>10. QuotaKept
  BY <1>1, <1>3 DEF QuotaKept
<1>11. DrawnOnce
  BY <1>8 DEF DrawnOnce, Offers
<1>12. ChallengeOnce
  <2> SUFFICES ASSUME NEW c \in Challenge PROVE OnceOnly(c, <<"challenge", c>>)
    BY DEF ChallengeOnce
  <2>1. store[<<"challenge", c>>] = None /\ issued[c] = 0
    BY <1>1, <1>2, KeyKinds
  <2> QED
    BY <1>8, <2>1 DEF OnceOnly, Issues, Doing
<1>13. SessionsEnd
  BY <1>1, <1>8 DEF SessionsEnd
<1>14. ChangesInOrder
  BY <1>1, <1>2, <1>8, KeyKinds DEF ChangesInOrder
<1> QED
  BY <1>7, <1>9, <1>10, <1>11, <1>12, <1>13, <1>14 DEF IInv

LEMMA NextIInv == ASSUME RecordsAssumption, IInv, [Next]_vars PROVE IInv'
<1>1. /\ Kinds /\ \A w \in Worker : Held(w) /\ RoundsLost(w)
      /\ QuotaKept /\ DrawnOnce /\ ChallengeOnce /\ SessionsEnd /\ ChangesInOrder
  BY DEF IInv
<1>2. Kinds'
  BY <1>1, KindsKept
<1>3. \A w \in Worker : Held(w)' /\ RoundsLost(w)'
  BY <1>1, HeldKept, RoundsKept
<1>4. QuotaKept' /\ DrawnOnce' /\ ChallengeOnce'
  BY <1>1, <1>2, QuotasKept, DrawnKept, ChallengesKept
<1>5. SessionsEnd' /\ ChangesInOrder'
  BY <1>1, <1>2, <1>3, SessionsKept, ChangesKept
<1> QED
  BY <1>2, <1>3, <1>4, <1>5 DEF IInv

LEMMA LinksArePermitted == ASSUME RecordsAssumption, IInv PROVE ReplacementsPermitted
<1> SUFFICES ASSUME NEW i \in Intent, NEW n, n = store[<<"next", i>>], n # None
             PROVE  RootOf(n) # None /\ RootOf(n) = RootOf(i)
  BY DEF ReplacementsPermitted
<1>1. <<i, n>> \in Changes /\ RootOf(i) # None /\ store[<<"scope", n>>] = RootOf(i)
  BY DEF IInv, ChangesInOrder
<1>2. n \notin Root
  BY <1>1 DEF RecordsAssumption
<1> QED
  BY <1>1, <1>2 DEF RootOf

LEMMA LinksHappened == ASSUME RecordsAssumption, IInv PROVE ReplacementsHappened
<1> SUFFICES ASSUME NEW i \in Intent, NEW j \in Intent, NEW n, n = store[<<"next", i>>], n # None
             PROVE  i \in past /\ n \in live \cup past /\ (store[<<"next", j>>] = n => i = j)
  BY DEF ReplacementsHappened
<1>1. <<i, n>> \in Changes /\ i \in past /\ n \in live \cup past
  BY DEF IInv, ChangesInOrder
<1>2. ASSUME store[<<"next", j>>] = n PROVE i = j
  <2>1. <<j, n>> \in Changes
    BY <1>2 DEF IInv, ChangesInOrder
  <2>2. \A a, b \in Changes : a[2] = b[2] => a = b
    BY DEF RecordsAssumption
  <2>3. <<i, n>> = <<j, n>>
    BY <1>1, <2>1, <2>2
  <2> QED
    BY <2>3
<1> QED
  BY <1>1, <1>2

\* Over a confirmed receipt nothing is written.
LEMMA ReceiptKept ==
    ASSUME RecordsAssumption, IInv, [Next]_vars, NEW e \in Evidence,
           store[<<"evidence", e>>] # None, store[<<"evidence", e>>].confirmed
    PROVE  store'[<<"evidence", e>>] = store[<<"evidence", e>>]
<1> DEFINE k == <<"evidence", e>>
<1>1. Kinds /\ \A w \in Worker : Held(w)
  BY DEF IInv
<1>2. k \in StoredKey /\ DOMAIN store = StoredKey
  BY <1>1, KeyKinds DEF Kinds
<1>3. ASSUME NEW w \in Worker, Does(w) PROVE store'[k] = store[k]
  <2>1. todo[w] # <<>> /\ Legal(Now(w))
    BY <1>1, <1>3, Ways, AtStep
  <2>2. CASE Writes(w) /\ Now(w).key = k
    <3>1. Now(w).op \in {"offer", "create", "login", "claim", "confirm", "logout", "permit", "replace", "quota"}
      BY <1>1, <2>1, <2>2, WrittenIs DEF Writes
    <3>2. Now(w).op \in {"create", "confirm"}
      BY <2>1, <2>2, <3>1 DEF Legal
    <3>3. Now(w).op = "create" => store[k] = None
      BY <2>2 DEF Writes, Unchanged, Expected, Blind
    <3>4. Now(w).op = "confirm" => store[k] = None \/ ~store[k].confirmed
      BY <1>1, <2>2 DEF Writes, Unchanged, Expected, Blind, Held
    <3> QED
      BY <3>2, <3>3, <3>4
  <2>3. CASE Writes(w) /\ Now(w).key # k
    BY <1>2, <2>3 DEF Writes
  <2> QED
    BY <1>1, <1>3, <2>2, <2>3, Elsewhere
<1>4. ASSUME NEW j \in StoredKey, Expire(j) PROVE store'[k] = store[k]
  <2>1. j # k /\ store' = [store EXCEPT ![j] = None]
    BY <1>4 DEF Expire
  <2> QED
    BY <1>2, <2>1
<1>5. ASSUME NEW w \in Worker, NEW p \in Programs, Begin(w, p) PROVE store'[k] = store[k]
  BY <1>5 DEF Begin
<1>6. CASE Rotate \/ UNCHANGED vars
  <2>1. store' = store
    BY <1>6 DEF Rotate, vars
  <2> QED
    BY <2>1
<1> QED
  BY <1>3, <1>4, <1>5, <1>6, Changing

\* A check goes on only with a session that is there, and one that was signed out is not.
LEMMA NotSignedOut ==
    ASSUME RecordsAssumption, IInv, [Next]_vars, NEW v \in Worker, Doing(v, {"check"}), todo'[v] = Tail(todo[v])
    PROVE  Now(v).key[2] \notin ended
<1>1. Kinds /\ Held(v) /\ todo[v] # <<>> /\ Now(v).op = "check"
  BY DEF IInv, Doing
<1>2. Legal(Now(v)) /\ Shaped(todo[v]) /\ todo'[v] # todo[v]
  BY <1>1, AtStep
<1>3. todo'[v] # <<>>
  <2> SUFFICES ASSUME Tail(todo[v]) = <<>> PROVE FALSE
    OBVIOUS
  <2>1. todo[v] \in Seq(LegalStep) /\ todo[v][Len(todo[v])].op # "check" /\ Now(v) = todo[v][1]
    BY <1>1, <1>2 DEF Shaped, Now
  <2>2. Len(todo[v]) \in Nat \ {0} /\ Len(Tail(todo[v])) = Len(todo[v]) - 1
    BY <1>1, <2>1
  <2>3. Len(todo[v]) = 1
    <3>1. \A n \in Nat \ {0} : n - 1 = 0 => n = 1
      OBVIOUS
    <3>2. Len(<<>>) = 0
      OBVIOUS
    <3>3. Len(todo[v]) - 1 = 0
      BY <2>2, <3>2, Zenon
    <3> QED
      BY <2>2, <3>1, <3>3, Zenon
  <2> QED
    BY <1>1, <2>1, <2>3
<1>4. ASSUME NEW w \in Worker, Does(w) PROVE Now(v).key[2] \notin ended
  <2>1. w = v
    BY <1>1, <1>2, <1>4, Progress
  <2>2. Advance(v)
    <3>1. Advance(v) \/ Stop(v) \/ Keeps(v) \/ Retries(v) \/ Hops(v)
      BY <1>1, <1>4, <2>1, Ways
    <3>2. ~Stop(v)
      BY <1>1, <1>3 DEF Stop, Kinds
    <3> QED
      BY <1>1, <1>2, <3>1, <3>2 DEF Keeps, Retries, Hops, Follow, Doing
  <2>3. Content(Now(v), store[Now(v).key])
    <3>1. ~Writes(v) /\ ~Commit(v)
      BY <1>1 DEF Writes, Commit, Held, Doing, Blind
    <3> QED
      BY <1>1, <1>3, <1>4, <2>1, <2>2, <3>1, Goes
  <2>4. store[Now(v).key] # None /\ Now(v).key = <<"session", Now(v).key[2]>>
    BY <1>1, <1>2, <2>3 DEF Content, Legal
  <2> QED
    BY <2>4 DEF IInv, SessionsEnd
<1>5. CASE \E w \in Worker, p \in Programs : Begin(w, p)
  <2> PICK w \in Worker, p \in Programs : Begin(w, p)
    BY <1>5
  <2>1. w # v /\ todo'[v] = todo[v]
    BY <1>1, Beginning
  <2> QED
    BY <1>2, <2>1
<1>6. CASE \E k \in StoredKey : Expire(k)
  BY <1>2, <1>6 DEF Expire, progress
<1>7. CASE Rotate \/ UNCHANGED vars
  BY <1>2, <1>7 DEF Rotate, vars, progress
<1> QED
  BY <1>4, <1>5, <1>6, <1>7, Changing

\* However many requests are served at once, whatever crashes, is lost or expires
\* between their reads and writes: a challenge is claimed for one request, a window
\* gives what its quota allows and no less, replaced demo intents were revoked and
\* their successors committed and permitted, a confirmed receipt stays, and a session
\* that was signed out opens nothing.
THEOREM RecordsAreKept ==
    ASSUME RecordsAssumption
    PROVE  Spec => /\ []TypeOK
                   /\ []ClaimedOnce
                   /\ []QuotaKept
                   /\ []ReplacementsPermitted
                   /\ []ReplacementsHappened
                   /\ ReceiptStays
                   /\ SignedOutStays
<1>1. Init => IInv
  BY InitIInv
<1>2. IInv /\ [Next]_vars => IInv'
  BY NextIInv
<1>3. IInv => TypeOK /\ ClaimedOnce /\ QuotaKept
  <2>1. IInv => ClaimedOnce
    <3> SUFFICES ASSUME IInv, NEW c \in Challenge PROVE issued[c] <= 1
      BY DEF ClaimedOnce
    <3>1. issued[c] # 0 => issued[c] = 1
      BY DEF IInv, ChallengeOnce, OnceOnly
    <3> QED
      BY <3>1
  <2> QED
    BY <2>1 DEF IInv, Kinds
<1>4. IInv => ReplacementsPermitted /\ ReplacementsHappened
  BY LinksArePermitted, LinksHappened
<1>5. IInv /\ [Next]_vars =>
        [\A e \in Evidence : LET r == store[<<"evidence", e>>] IN
            r # None /\ r.confirmed => store'[<<"evidence", e>>] = r]_vars
  BY ReceiptKept
<1>6. IInv /\ [Next]_vars =>
        [\A w \in Worker : Doing(w, {"check"}) /\ todo'[w] = Tail(todo[w]) => Now(w).key[2] \notin ended]_vars
  BY NotSignedOut
<1> QED
  BY <1>1, <1>2, <1>3, <1>4, <1>5, <1>6, PTL DEF Spec, ReceiptStays, SignedOutStays

=============================================================================
