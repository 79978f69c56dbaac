----------------------------- MODULE GraphPages -----------------------------
(***************************************************************************)
(* Complete reads of the index in pages (src/shared/graph).  The gateway's *)
(* indexers go on indexing and may have to take blocks back between two    *)
(* pages; the reader pins the first page's block and accepts all or        *)
(* nothing.  A block's hash stands for its ancestry: it is the sequence of *)
(* what the index held after each block, with the fork of each.            *)
(***************************************************************************)
EXTENDS Integers, Sequences, FiniteSets

CONSTANTS
    Root,           \* the lists of one query
    Content,        \* what the index may hold: the ids of every list
    PageSize,
    MaxPages,
    MaxBlock,       \* bound: blocks of the chain
    MaxReorgs,      \* bound: reorganisations
    MaxFaults       \* bound: wrong answers of the gateway

Id == UNION {UNION {c[l] : l \in Root} : c \in Content}
PagesAssumption ==
    /\ Content \subseteq [Root -> SUBSET Nat] /\ 0 \notin Id
    /\ {PageSize, MaxPages, MaxBlock} \subseteq Nat \ {0}
    /\ {MaxReorgs, MaxFaults} \subseteq Nat

VARIABLES
    chain,      \* the blocks of the chain, each with its fork and content
    reorgs,
    read,       \* the read under way
    asked,      \* an intent looked up after the read, what was answered, and of
                \* which block
    cooling,    \* whether the provider has refused and is not asked for a while
    faults

vars == <<chain, reorgs, read, asked, cooling, faults>>

NoRead == [stage |-> "none", floor |-> 0, at |-> <<>>, after |-> [l \in Root |-> 0],
           open |-> {}, rows |-> [l \in Root |-> <<>>], pages |-> 0]
NotAsked == [list |-> "none", id |-> 0, live |-> FALSE, of |-> <<>>]

Block(f, c) == [fork |-> f, content |-> c]
Hash(n) == SubSeq(chain, 1, n)
Held(h) == h[Len(h)].content

Init ==
    /\ \E c \in Content : chain = <<Block(0, c)>>
    /\ reorgs = 0
    /\ read = NoRead
    /\ asked = NotAsked
    /\ cooling = FALSE
    /\ faults = 0

-----------------------------------------------------------------------------
(* readGraphPages *)

Begin(floor) ==
    /\ read.stage # "reading"
    /\ read' = [NoRead EXCEPT !.stage = "reading", !.floor = floor, !.open = Root]
    /\ asked' = NotAsked
    /\ UNCHANGED <<chain, reorgs, cooling, faults>>

Fails == read' = [NoRead EXCEPT !.stage = "failed"]

\* The first ids of a list after a cursor, in order.
FirstAfter(ids, cursor) ==
    LET later == {i \in ids : i > cursor}
        page == {i \in later : Cardinality({k \in later : k < i}) < PageSize}
    IN  [n \in 1 .. Cardinality(page) |->
            CHOOSE i \in page : Cardinality({k \in page : k < i}) = n - 1]

\* A full page always requires another one.
Continues(rows) == Len(rows) = PageSize

\* Ids ascend from the cursor on.
Advances(rows, cursor) ==
    \A n \in 1 .. Len(rows) : rows[n] > (IF n = 1 THEN cursor ELSE rows[n - 1])

\* The metadata of a page: not below the floor, and the block of the first one.
Attests(h) == Len(h) >= read.floor /\ (read.at # <<>> => h = read.at)

\* A page that attests to block h and holds these rows.
Accept(h, rows) ==
    IF Attests(h) /\ \A l \in read.open : Advances(rows[l], read.after[l])
    THEN LET open == {l \in read.open : Continues(rows[l])} IN
         read' = [read EXCEPT
             !.at = h,
             !.rows = [l \in Root |-> IF l \in read.open THEN @[l] \o rows[l] ELSE @[l]],
             !.after = [l \in Root |->
                 IF l \in read.open /\ rows[l] # <<>> THEN rows[l][Len(rows[l])] ELSE @[l]],
             !.open = open,
             !.pages = @ + 1,
             !.stage = IF open = {} THEN "done" ELSE "reading"]
    ELSE Fails

Rows(h, after) == [l \in Root |-> FirstAfter(Held(h)[l], after[l])]

\* Which blocks an indexer may answer for: the pinned one while it has it, else
\* any at or above the floor.
Served ==
    IF read.at # <<>>
    THEN IF Len(read.at) <= Len(chain) /\ Hash(Len(read.at)) = read.at THEN {read.at} ELSE {}
    ELSE {Hash(n) : n \in {k \in 1 .. Len(chain) : k >= read.floor}}

\* One page asked for and answered.
Page ==
    /\ read.stage = "reading" /\ ~cooling /\ read.pages < MaxPages
    /\ \E h \in Served : Accept(h, Rows(h, read.after))
    /\ UNCHANGED <<chain, reorgs, asked, cooling, faults>>

\* No indexer has the block, or the floor is not reached yet.
Refused ==
    /\ read.stage = "reading" /\ ~cooling /\ Served = {}
    /\ Fails
    /\ UNCHANGED <<chain, reorgs, asked, cooling, faults>>

\* A wrong answer: another block than the pinned one, or an earlier page again.
Misled ==
    /\ read.stage = "reading" /\ ~cooling /\ read.pages \in 1 .. MaxPages - 1
    /\ faults < MaxFaults /\ faults' = faults + 1
    /\ \/ \E n \in 1 .. Len(chain) : Accept(Hash(n), Rows(Hash(n), read.after))
       \/ Accept(read.at, Rows(read.at, [l \in Root |-> 0]))
    /\ UNCHANGED <<chain, reorgs, asked, cooling>>

\* The number of pages is a bound on resources, the time-out another.
TooMany ==
    /\ read.stage = "reading" /\ read.pages = MaxPages
    /\ Fails
    /\ UNCHANGED <<chain, reorgs, asked, cooling, faults>>

TimeOut ==
    /\ read.stage = "reading" /\ faults < MaxFaults
    /\ faults' = faults + 1
    /\ Fails
    /\ UNCHANGED <<chain, reorgs, asked, cooling>>

\* 429: nobody in this process asks again before the time the provider names.
Throttled ==
    /\ read.stage = "reading" /\ faults < MaxFaults /\ ~cooling
    /\ faults' = faults + 1
    /\ cooling' = TRUE
    /\ Fails
    /\ UNCHANGED <<chain, reorgs, asked>>

CoolDown ==
    /\ read.stage = "reading" /\ cooling
    /\ Fails
    /\ UNCHANGED <<chain, reorgs, asked, cooling, faults>>

-----------------------------------------------------------------------------
(* getIntentById, for an intent that the finished read does not have *)

\* It is asked for by the number of the snapshot's block, not by its hash: what
\* answers is the block that has this number now.
LookupBlocks(n) == {n} \cap (1 .. Len(chain))

Lookup(list, i) ==
    /\ read.stage = "done" /\ ~cooling /\ asked = NotAsked
    /\ \E n \in LookupBlocks(Len(read.at)) :
          asked' = [list |-> list, id |-> i, live |-> i \in Held(Hash(n))[list], of |-> Hash(n)]
    /\ UNCHANGED <<chain, reorgs, read, cooling, faults>>

-----------------------------------------------------------------------------
Mine ==
    /\ Len(chain) < MaxBlock
    /\ \E c \in Content : chain' = Append(chain, Block(reorgs, c))
    /\ UNCHANGED <<reorgs, read, asked, cooling, faults>>

Reorganise ==
    /\ reorgs < MaxReorgs
    /\ reorgs' = reorgs + 1
    /\ \E keep \in 1 .. Len(chain) - 1, c \in Content :
          chain' = Append(Hash(keep), Block(reorgs + 1, c))
    /\ UNCHANGED <<read, asked, cooling, faults>>

WarmUp == cooling /\ cooling' = FALSE /\ UNCHANGED <<chain, reorgs, read, asked, faults>>

ReadStep == Page \/ Refused \/ Misled \/ TooMany \/ TimeOut \/ Throttled \/ CoolDown

Next ==
    \/ \E floor \in 0 .. MaxBlock : Begin(floor)
    \/ ReadStep
    \/ \E l \in Root, i \in Id : Lookup(l, i)
    \/ Mine \/ Reorganise \/ WarmUp

Spec == Init /\ [][Next]_vars

\* Requests are answered.
FairSpec == Spec /\ WF_vars(ReadStep)

-----------------------------------------------------------------------------
TypeOK ==
    /\ reorgs \in 0 .. MaxReorgs /\ faults \in 0 .. MaxFaults
    /\ Len(chain) \in 1 .. MaxBlock /\ cooling \in BOOLEAN
    /\ read.stage \in {"none", "reading", "done", "failed"}
    /\ read.pages \in 0 .. MaxPages
    /\ read.stage = "reading" <=> read.open # {}

(* What is returned is the whole content of one block, not below the floor,*)
(* although ids came and went between the pages and the block itself was   *)
(* taken back or another was answered for; every list is in order, nothing *)
(* twice (pages.ts:49-54, 84-106).                                         *)
CompleteAtOneBlock ==
    read.stage = "done" =>
        /\ Len(read.at) >= read.floor
        /\ \A l \in Root :
            /\ {read.rows[l][n] : n \in 1 .. Len(read.rows[l])} = Held(read.at)[l]
            /\ \A m, n \in 1 .. Len(read.rows[l]) : m < n => read.rows[l][m] < read.rows[l][n]

(* What is looked up later agrees with the snapshot it explains, although  *)
(* intents were committed and closed since, unless the snapshot's block    *)
(* itself was replaced by another of the same number (snapshot.ts:265      *)
(* compares number and deployment).                                        *)
LookupAgrees == asked # NotAsked =>
    \/ asked.live <=> asked.id \in Held(read.at)[asked.list]
    \/ asked.of # read.at /\ Len(asked.of) = Len(read.at)

(* What the comment of getIntentById says, and does not hold after such a  *)
(* replacement: "historical state is checked at its exact block and        *)
(* deployment" (snapshot.ts:253).                                          *)
LookupExact == asked # NotAsked => asked.of = read.at

(* A read ends, whatever happens to the index meanwhile.                   *)
ReadEnds == read.stage = "reading" ~> read.stage # "reading"

=============================================================================
