------------------------------ MODULE AskLoop ------------------------------
(***************************************************************************)
(* One question to the agent (src/server/agent/narrate.ts): a language     *)
(* model that may say and call anything, tools bound to one snapshot       *)
(* (tools.ts), and a guard that lets through only what a tool's result     *)
(* says (guard.ts, answer-options.ts); then the drawer that reads the      *)
(* evidence (src/lib/agent-evidence.ts).                                   *)
(*                                                                         *)
(* Wording is left out: a passage is the result it is rendered from.       *)
(***************************************************************************)
EXTENDS Integers, Sequences, FiniteSets, SequencesExt

CONSTANTS
    Intent,
    Change,        \* the hypothetical changes there are
    Committed,     \* stands for no change at all
    Malformed,     \* an argument that is no intent hash
    Start,         \* what may settle at the first block
    MaxTurns,      \* configuration: calls of the model
    MaxToolCalls,  \* configuration: calls of tools
    MaxPerTurn,    \* bound: tool calls in one response
    MaxBlock       \* bound: how many blocks there are

AskAssumption ==
    /\ Committed \notin Change /\ Malformed \notin Intent
    /\ {MaxTurns, MaxToolCalls, MaxPerTurn, MaxBlock} \subseteq Nat \ {0}

VARIABLES
    blocks,    \* block -> the live intents, and the changes each settles with
    selected,  \* the intent of the question
    pinned,    \* the block of the snapshot
    phase,
    turns,     \* responses of the model so far
    calls,     \* tool calls of the last response, not run yet
    log,       \* results so far, as given to the model
    text,      \* what the model says in the end
    capacity,  \* how often the funds were read
    baseline,  \* the diagnosis of the selected intent, once it is made
    diagnosed, \* how often it was made
    answer     \* what the caller gets

vars == <<blocks, selected, pinned, phase, turns, calls, log, text, capacity,
          baseline, diagnosed, answer>>

\* Results of tools.  found is what the search found; FALSE proves nothing.
Result(tool, i, c, b, found) ==
    [tool |-> tool, intent |-> i, change |-> c, block |-> b, found |-> found]
Failure(tool, i) == [tool |-> tool, intent |-> i, change |-> "error", block |-> 0, found |-> FALSE]

Passages ==
    {Result("diagnose_intent", i, Committed, b, f) : i \in Intent, b \in 1 .. MaxBlock, f \in BOOLEAN}
    \cup {Result("what_if", i, c, b, f) :
            i \in Intent, c \in Change, b \in 1 .. MaxBlock, f \in BOOLEAN}
    \cup {Result("pool_overview", Malformed, Committed, b, FALSE) : b \in 1 .. MaxBlock}
Prose == Failure("prose", Malformed)
Silence == Failure("", Malformed)
NoBaseline == Failure("none", Malformed)
NoAnswer == [passage |-> Silence, fallback |-> FALSE, evidence |-> <<>>]

\* What the model may call: arguments are not checked by anybody else.
Calls ==
    {[tool |-> "diagnose_intent", intent |-> i, change |-> Committed] : i \in Intent \cup {Malformed}}
    \cup {[tool |-> "what_if", intent |-> i, change |-> c] :
            i \in Intent \cup {Malformed}, c \in Change \cup {Malformed}}
    \cup {[tool |-> t, intent |-> Malformed, change |-> Committed] : t \in {"pool_overview", "made_up"}}

Init ==
    /\ blocks \in {<<b>> : b \in Start}
    /\ selected \in Intent
    /\ pinned = 0
    /\ phase = "begin"
    /\ turns = 0
    /\ calls = <<>>
    /\ log = <<>>
    /\ text = Silence
    /\ capacity = 0
    /\ baseline = NoBaseline
    /\ diagnosed = 0
    /\ answer = NoAnswer

-----------------------------------------------------------------------------
\* The block every tool reads.
SnapshotBlock == pinned

Live(i) == i \in blocks[SnapshotBlock].live

\* A search finds nothing, or something that is there.
Findings(i, c) == {FALSE} \cup {Live(i) /\ (<<i, c>> \in blocks[SnapshotBlock].settles)}

\* The funds are read once for all, and only when an intent is live.
FundsRead(i) ==
    IF Live(i) /\ capacity = 0 THEN capacity' = 1 ELSE UNCHANGED capacity

Made(i) == i = selected /\ baseline # NoBaseline

\* The diagnosis of the selected intent is made once.
Diagnoses(i) ==
    IF Made(i) THEN {baseline}
    ELSE {Result("diagnose_intent", i, Committed, SnapshotBlock, f) : f \in Findings(i, Committed)}

Diagnose(i, r) ==
    /\ IF Made(i) THEN UNCHANGED capacity ELSE FundsRead(i)
    /\ IF i = selected /\ ~Made(i)
       THEN baseline' = r /\ diagnosed' = diagnosed + 1
       ELSE UNCHANGED <<baseline, diagnosed>>

-----------------------------------------------------------------------------
\* Mutated form of Supports: of any intent.
SupportsAnyIntent(r) ==
    IF r.block = pinned /\ r.change # "error" THEN {r} ELSE {}

\* The passage rendered from a result: of this block, and this intent's.
Supports(r) ==
    IF /\ r.block = pinned /\ r.change # "error"
       /\ r.tool = "pool_overview" \/ r.intent = selected
    THEN {r} ELSE {}

\* checkAnswer, before the fallback joins the evidence.
Certified ==
    /\ text \in UNION {Supports(r) : r \in Range(log)}
    /\ \A r \in Range(log) : r.change = "error" \/ r.block = pinned

Evidence == IF baseline \in Range(log) THEN log ELSE Append(log, baseline)

-----------------------------------------------------------------------------
\* A snapshot of some block; without a model the diagnosis is the answer.
Pin ==
    /\ phase = "begin"
    /\ pinned' \in 1 .. Len(blocks)
    /\ phase' \in {"model", "fallback"}
    /\ UNCHANGED <<blocks, selected, turns, calls, log, text, capacity, baseline, diagnosed, answer>>

\* One more response of the model, with n calls of tools.
Turn(n) == turns' = turns + 1

\* The model declines or runs out of tokens, says something, or calls tools.
Decline ==
    /\ phase = "model" /\ turns < MaxTurns
    /\ Turn(0)
    /\ phase' = "fallback"
    /\ UNCHANGED <<blocks, selected, pinned, calls, log, text, capacity, baseline, diagnosed, answer>>

Say ==
    /\ phase = "model" /\ turns < MaxTurns
    /\ Turn(0)
    /\ text' \in Passages \cup {Prose, Silence}
    /\ phase' = "fallback"
    /\ UNCHANGED <<blocks, selected, pinned, calls, log, capacity, baseline, diagnosed, answer>>

TooMany(asked) == Len(log) + Len(asked) > MaxToolCalls

CallTools ==
    /\ phase = "model" /\ turns < MaxTurns
    /\ \E n \in 0 .. MaxPerTurn : \E asked \in [1 .. n -> Calls] :
        /\ Turn(n)
        /\ IF TooMany(asked)
           THEN phase' = "fallback" /\ UNCHANGED calls
           ELSE phase' = "tools" /\ calls' = asked
    /\ UNCHANGED <<blocks, selected, pinned, log, text, capacity, baseline, diagnosed, answer>>

OutOfTurns ==
    /\ phase = "model" /\ turns = MaxTurns
    /\ phase' = "fallback"
    /\ UNCHANGED <<blocks, selected, pinned, turns, calls, log, text, capacity, baseline, diagnosed, answer>>

Logged(r) == log' = Append(log, r)

\* One tool after the other; a malformed hash is taken for the selected one in
\* a diagnosis and refused in a what-if.
RunTool ==
    /\ phase = "tools" /\ calls # <<>>
    /\ calls' = Tail(calls)
    /\ LET c == Head(calls) IN
        \/ /\ c.tool = "diagnose_intent"
           /\ LET i == IF c.intent = Malformed THEN selected ELSE c.intent
              IN  \E r \in Diagnoses(i) : Diagnose(i, r) /\ Logged(r)
        \/ /\ c.tool = "what_if" /\ Malformed \notin {c.intent, c.change}
           /\ FundsRead(c.intent)
           /\ \E f \in Findings(c.intent, c.change) :
                Logged(Result(c.tool, c.intent, c.change, SnapshotBlock, f))
           /\ UNCHANGED <<baseline, diagnosed>>
        \/ /\ c.tool = "made_up" \/ (c.tool = "what_if" /\ Malformed \in {c.intent, c.change})
           /\ Logged(Failure(c.tool, c.intent))
           /\ UNCHANGED <<capacity, baseline, diagnosed>>
        \/ /\ c.tool = "pool_overview"
           /\ Logged(Result(c.tool, Malformed, Committed, SnapshotBlock, FALSE))
           /\ UNCHANGED <<capacity, baseline, diagnosed>>
    /\ UNCHANGED <<blocks, selected, pinned, phase, turns, text, answer>>

ToolsRun ==
    /\ phase = "tools" /\ calls = <<>>
    /\ phase' = "model"
    /\ UNCHANGED <<blocks, selected, pinned, turns, calls, log, text, capacity, baseline, diagnosed, answer>>

\* The selected intent is diagnosed if no tool was asked to.
Fallback ==
    /\ phase = "fallback"
    /\ \E r \in Diagnoses(selected) : Diagnose(selected, r)
    /\ phase' = "guard"
    /\ UNCHANGED <<blocks, selected, pinned, turns, calls, log, text, answer>>

Guard ==
    /\ phase = "guard" /\ baseline.block = pinned
    /\ answer' = [passage |-> IF Certified THEN text ELSE baseline,
                  fallback |-> ~Certified,
                  evidence |-> Evidence]
    /\ phase' = "answered"
    /\ UNCHANGED <<blocks, selected, pinned, turns, calls, log, text, capacity, baseline, diagnosed>>

\* The snapshot, the model or a read of funds fails, and the request with it;
\* or a diagnosis is of another block.
Fail ==
    /\ phase \in {"begin", "model", "tools", "fallback"}
        \/ (phase = "guard" /\ baseline.block # pinned)
    /\ phase' = "failed"
    /\ UNCHANGED <<blocks, selected, pinned, turns, calls, log, text, capacity, baseline, diagnosed, answer>>

Mine ==
    /\ Len(blocks) < MaxBlock
    /\ \E b \in Start \ {blocks[Len(blocks)]} : blocks' = Append(blocks, b)
    /\ UNCHANGED <<selected, pinned, phase, turns, calls, log, text, capacity, baseline, diagnosed, answer>>

AskStep ==
    \/ Pin \/ Decline \/ Say \/ CallTools \/ OutOfTurns
    \/ RunTool \/ ToolsRun \/ Fallback \/ Guard \/ Fail

Next == AskStep \/ Mine

Spec == Init /\ [][Next]_vars

\* The request is worked on: the model answers or its call is given up.
FairSpec == Spec /\ WF_vars(AskStep)

-----------------------------------------------------------------------------
TypeOK ==
    /\ pinned \in 0 .. Len(blocks)
    /\ phase \in {"begin", "model", "tools", "fallback", "guard", "answered", "failed"}
    /\ Range(calls) \subseteq Calls
    /\ turns \in 0 .. MaxTurns
    /\ Len(log) + Len(calls) <= MaxToolCalls

TrueAt(b, r) == r.found => r.intent \in blocks[b].live /\ <<r.intent, r.change>> \in blocks[b].settles

(* Whatever the model says, an answer is about the selected intent, or the *)
(* pool as a whole, at the one block of the request, and true there; it is *)
(* the rendering of a result that is among the evidence (tools.ts:14-16,   *)
(* narrate.ts:13-14 "so a copied amount cannot be used to assert a         *)
(* different payer, outcome or hypothetical").                             *)
AnswerTrue ==
    phase = "answered" =>
        /\ answer.passage \in Range(answer.evidence)
        /\ answer.passage.intent = selected \/ answer.passage.tool = "pool_overview"
        /\ answer.passage.block = pinned
        /\ TrueAt(pinned, answer.passage)

(* The model is never credited with a result of a tool it did not call     *)
(* (guard.ts:63 "the model cannot claim it used an uncalled tool").        *)
OwnWork ==
    phase = "answered" /\ ~answer.fallback => answer.passage \in Range(log)

(* However the tools are called, the selected intent is diagnosed once and *)
(* the funds are read once, so that two results never disagree             *)
(* (tools.ts:95-98).                                                       *)
ReadOnce ==
    /\ capacity <= 1
    /\ diagnosed <= 1
    /\ \A r, s \in Range(log) :
          r.tool = "diagnose_intent" /\ s.tool = "diagnose_intent"
              /\ r.intent = selected /\ s.intent = selected => r = s

\* readDrawerEvidence: entries of other intents and unknown tools are omitted.
Shown(evidence) ==
    SelectSeq(evidence, LAMBDA r :
        /\ r.tool \in {"diagnose_intent", "what_if", "pool_overview"}
        /\ r.tool = "pool_overview" \/ r.intent = selected)

(* The drawer takes every answer the server gives: its evidence is of the  *)
(* answer's block and always holds the diagnosis of the selected intent,   *)
(* whatever else the model asked for (agent-evidence.ts:69-121).           *)
DrawerTakesIt ==
    phase = "answered" =>
        /\ \A r \in Range(Shown(answer.evidence)) : r.change = "error" \/ r.block = pinned
        /\ \E r \in Range(Shown(answer.evidence)) : r.tool = "diagnose_intent" /\ r = baseline

(* A question ends: turns and tool calls are bounded (narrate.ts:22-24),   *)
(* and so are responses that call none.                                    *)
AskEnds == <>(phase \in {"answered", "failed"})

=============================================================================
