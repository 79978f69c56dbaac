----------------------------- MODULE AtomicStore -----------------------------
(***************************************************************************)
(* What a caller of src/server/durable-store.ts may rely on: compareAndSet *)
(* happens at one moment between the call and its answer, guard, expected  *)
(* value and write together.  The Redis backend does it in one Lua script; *)
(* FileStore is the other backend, shown to do no less.                    *)
(***************************************************************************)
CONSTANTS Client, Key, Lasting, Value, None, NoKey

\* compareAndSet(key, expected, next, { guard: { key, value } }).
Request == [key : Key, expected : Value \cup {None}, next : Value \cup {None},
            guard : Key \cup {NoKey}, held : Value]

VARIABLES
    kept,   \* key -> its unexpired value, or None
    call,   \* client -> where its call stands
    asked   \* client -> the request of that call, or anything

storeVars == <<kept, call, asked>>

StoreInit ==
    /\ kept \in [Key -> Value \cup {None}]
    /\ call = [c \in Client |-> "none"]
    /\ asked \in [Client -> Request]

\* Time passes in every step: values with a time to live may end (PX).
Later(values) ==
    {[k \in Key |-> IF k \in ended THEN None ELSE values[k]] : ended \in SUBSET (Key \ Lasting)}

Ask(c, r) ==
    /\ call[c] = "none"
    /\ call' = [call EXCEPT ![c] = "asked"]
    /\ asked' = [asked EXCEPT ![c] = r]
    /\ kept' \in Later(kept)

Holds(r) ==
    /\ r.guard # NoKey => kept[r.guard] = r.held
    /\ kept[r.key] = r.expected

\* The CAS script.
Apply(c) ==
    /\ call[c] = "asked"
    /\ IF Holds(asked[c])
       THEN /\ kept' \in Later([kept EXCEPT ![asked[c].key] = asked[c].next])
            /\ call' = [call EXCEPT ![c] = "true"]
       ELSE call' = [call EXCEPT ![c] = "false"] /\ kept' \in Later(kept)
    /\ UNCHANGED asked

\* StorageUnavailable, before the script ran or after.
Fail(c) ==
    /\ call[c] \in {"asked", "true", "false"}
    /\ call' = [call EXCEPT ![c] = "error"]
    /\ kept' \in Later(kept)
    /\ UNCHANGED asked

\* The caller has its answer, or is gone and will never have it.
Return(c) ==
    /\ call[c] # "none"
    /\ call' = [call EXCEPT ![c] = "none"]
    /\ kept' \in Later(kept)
    /\ \E r \in Request : asked' = [asked EXCEPT ![c] = r]

Lapse ==
    /\ kept' \in Later(kept)
    /\ UNCHANGED <<call, asked>>

StoreNext ==
    \/ Lapse
    \/ \E c \in Client : (\E r \in Request : Ask(c, r)) \/ Apply(c) \/ Fail(c) \/ Return(c)

StoreSpec == StoreInit /\ [][StoreNext]_storeVars

=============================================================================
