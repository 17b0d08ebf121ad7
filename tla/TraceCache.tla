------------------------------ MODULE TraceCache ------------------------------
(***************************************************************************)
(* The lock-free cache of compiled traces (src/jit/trace_cache.cpp) and    *)
(* its one client, TraceCompiler::compile_and_cache: look the signature    *)
(* up; on a miss compile, insert, and run what was compiled.               *)
(*                                                                         *)
(* Each atomic access is an action.  The acquire loads and release stores  *)
(* of `published', and the acq_rel compare-exchange on `key', order the    *)
(* plain `owner' between them, so sequentially consistent steps are enough.*)
(* Every compiler sets rebind_fn, so a hit is always used.                 *)
(***************************************************************************)
EXTENDS Naturals

CONSTANTS
    Threads,
    Hashes,        \* the signatures that are traced
    kCapacity,     \* entries of the table (1024 in the code)
    FoldedZero,    \* what the signature 0 is folded onto (0x9E3779B97F4A7C15)
    NoHandle,      \* the null pointer
    MaxCalls       \* bound: calls of compile_and_cache

ASSUME HashesAssumption == Hashes \subseteq Nat
ASSUME kCapacityAssumption == kCapacity \in Nat \ {0}
ASSUME FoldedZeroAssumption == FoldedZero \in Nat \ {0}
ASSUME MaxCallsAssumption == MaxCalls \in Nat

VARIABLES
    key,           \* per entry: 0, or the signature it is claimed for
    owner,         \* per entry: the shared_ptr
    published,     \* per entry: the raw pointer
    op,            \* per thread: the call it is inside of
    hit_count, miss_count,
    calls          \* calls so far

vars == <<key, owner, published, op, hit_count, miss_count, calls>>

Entries == 0 .. kCapacity - 1

normalize(h) == IF h = 0 THEN FoldedZero ELSE h

\* The entry the probe-th step of a probe run for k looks at.
Slot(k, probe) == (k + probe) % kCapacity

Keys == {normalize(h) : h \in Hashes}

\* A compiled trace: the signature it is for, and whose compilation it is.
Handles == [key : Keys, by : Threads]

Points == {"idle", "key", "published", "owner", "compile", "claim", "store", "publish"}

\* k is the signature, probe the step of the probe run; known: the signature was published
\* when the lookup began; result is what the last call ran.
Call(pc, k, probe, known, result) ==
    [pc |-> pc, k |-> k, probe |-> probe, known |-> known, result |-> result]

Init ==
    /\ key = [i \in Entries |-> 0]
    /\ owner = [i \in Entries |-> NoHandle]
    /\ published = [i \in Entries |-> NoHandle]
    /\ op = [t \in Threads |-> Call("idle", FoldedZero, 0, FALSE, NoHandle)]
    /\ hit_count = 0
    /\ miss_count = 0
    /\ calls = 0

Goto(t, pc) == op' = [op EXCEPT ![t].pc = pc]

\* The next step of the probe run.
Advance(t) == op' = [op EXCEPT ![t].probe = @ + 1]

At(t) == Slot(op[t].k, op[t].probe)

Mine(t) == [key |-> op[t].k, by |-> t]

-----------------------------------------------------------------------------
(***************************************************************************)
(* lookup.                                                                 *)
(***************************************************************************)

IsPublished(k) == \E i \in Entries : key[i] = k /\ published[i] # NoHandle

\* Mutant: the signature 0 is not folded.
LookupUnfolded(t, h) ==
    /\ op[t].pc = "idle"
    /\ calls < MaxCalls
    /\ calls' = calls + 1
    /\ op' = [op EXCEPT ![t] = Call("key", h, 0, IsPublished(h), NoHandle)]
    /\ UNCHANGED <<key, owner, published, hit_count, miss_count>>

Lookup(t, h) ==
    /\ op[t].pc = "idle"
    /\ calls < MaxCalls
    /\ calls' = calls + 1
    /\ op' = [op EXCEPT ![t] = Call("key", normalize(h), 0, IsPublished(normalize(h)), NoHandle)]
    /\ UNCHANGED <<key, owner, published, hit_count, miss_count>>

\* Mutant: the first foreign entry ends it too.
LookupMissForeign(t) ==
    /\ op[t].pc = "key"
    /\ key[At(t)] # op[t].k
    /\ Goto(t, "compile")
    /\ miss_count' = miss_count + 1
    /\ UNCHANGED <<key, owner, published, hit_count, calls>>

\* An empty entry ends the probe run, as does its end: a miss.
LookupMiss(t) ==
    /\ op[t].pc = "key"
    /\ key[At(t)] = 0 \/ (key[At(t)] # op[t].k /\ op[t].probe + 1 >= kCapacity)
    /\ Goto(t, "compile")
    /\ miss_count' = miss_count + 1
    /\ UNCHANGED <<key, owner, published, hit_count, calls>>

LookupProbe(t) ==
    /\ op[t].pc = "key"
    /\ key[At(t)] \notin {0, op[t].k}
    /\ op[t].probe + 1 < kCapacity
    /\ Advance(t)
    /\ UNCHANGED <<key, owner, published, hit_count, miss_count, calls>>

\* Mutant: the key is not compared.
LookupFoundAny(t) ==
    /\ op[t].pc = "key"
    /\ key[At(t)] # 0
    /\ Goto(t, "published")
    /\ UNCHANGED <<key, owner, published, hit_count, miss_count, calls>>

LookupFound(t) ==
    /\ op[t].pc = "key"
    /\ key[At(t)] = op[t].k
    /\ Goto(t, "published")
    /\ UNCHANGED <<key, owner, published, hit_count, miss_count, calls>>

\* Claimed and not published: reported as a miss, so that this thread compiles its own.
LookupPublished(t) ==
    /\ op[t].pc = "published"
    /\ IF published[At(t)] = NoHandle
       THEN Goto(t, "compile") /\ miss_count' = miss_count + 1 /\ UNCHANGED hit_count
       ELSE Goto(t, "owner") /\ hit_count' = hit_count + 1 /\ UNCHANGED miss_count
    /\ UNCHANGED <<key, owner, published, calls>>

\* The copy of the shared_ptr, which compile_and_cache rebinds and runs.
LookupHit(t) ==
    /\ op[t].pc = "owner"
    /\ op' = [op EXCEPT ![t].pc = "idle", ![t].result = owner[At(t)]]
    /\ UNCHANGED <<key, owner, published, hit_count, miss_count, calls>>

-----------------------------------------------------------------------------
(***************************************************************************)
(* Compilation, and insert.  The thread runs what it compiled itself,      *)
(* whether or not it went into the table.                                  *)
(***************************************************************************)

Compile(t) ==
    /\ op[t].pc = "compile"
    /\ op' = [op EXCEPT ![t].pc = "claim", ![t].probe = 0]
    /\ UNCHANGED <<key, owner, published, hit_count, miss_count, calls>>

\* The compiler throws (no CUDA hook, no kernel): the call ends with nothing inserted and
\* nothing run.
CompileThrows(t) ==
    /\ op[t].pc = "compile"
    /\ Goto(t, "idle")
    /\ UNCHANGED <<key, owner, published, hit_count, miss_count, calls>>

RunOwn(t) == op' = [op EXCEPT ![t].pc = "idle", ![t].result = Mine(t)]

\* compare_exchange_strong(0, k) succeeds.
InsertClaim(t) ==
    /\ op[t].pc = "claim"
    /\ key[At(t)] = 0
    /\ key' = [key EXCEPT ![At(t)] = op[t].k]
    /\ Goto(t, "store")
    /\ UNCHANGED <<owner, published, hit_count, miss_count, calls>>

\* It fails on another signature's entry: probe on; a full table leaves the trace uncached.
InsertProbe(t) ==
    /\ op[t].pc = "claim"
    /\ key[At(t)] \notin {0, op[t].k}
    /\ IF op[t].probe + 1 < kCapacity THEN Advance(t) ELSE RunOwn(t)
    /\ UNCHANGED <<key, owner, published, hit_count, miss_count, calls>>

\* Mutants: another thread's claim for the same signature is probed past, or overwritten.
InsertPastClaim(t) ==
    /\ op[t].pc = "claim"
    /\ key[At(t)] = op[t].k
    /\ IF op[t].probe + 1 < kCapacity THEN Advance(t) ELSE RunOwn(t)
    /\ UNCHANGED <<key, owner, published, hit_count, miss_count, calls>>

InsertOverwrite(t) ==
    /\ op[t].pc = "claim"
    /\ key[At(t)] = op[t].k
    /\ Goto(t, "store")
    /\ UNCHANGED <<key, owner, published, hit_count, miss_count, calls>>

\* Somebody else's claim for the same signature: ours is dropped.
InsertLost(t) ==
    /\ op[t].pc = "claim"
    /\ key[At(t)] = op[t].k
    /\ RunOwn(t)
    /\ UNCHANGED <<key, owner, published, hit_count, miss_count, calls>>

\* Mutant: the raw pointer is published before the shared_ptr is written.
PublishFirst(t) ==
    /\ op[t].pc = "store"
    /\ published' = [published EXCEPT ![At(t)] = Mine(t)]
    /\ Goto(t, "publish")
    /\ UNCHANGED <<key, owner, hit_count, miss_count, calls>>

InsertStore(t) ==
    /\ op[t].pc = "store"
    /\ owner' = [owner EXCEPT ![At(t)] = Mine(t)]
    /\ Goto(t, "publish")
    /\ UNCHANGED <<key, published, hit_count, miss_count, calls>>

InsertPublish(t) ==
    /\ op[t].pc = "publish"
    /\ published' = [published EXCEPT ![At(t)] = owner[At(t)]]
    /\ RunOwn(t)
    /\ UNCHANGED <<key, owner, hit_count, miss_count, calls>>

\* clear, "Not safe against concurrent lookup/insert": nobody is in a call.
Clear ==
    /\ \A t \in Threads : op[t].pc = "idle"
    /\ key' = [i \in Entries |-> 0]
    /\ owner' = [i \in Entries |-> NoHandle]
    /\ published' = [i \in Entries |-> NoHandle]
    /\ hit_count' = 0
    /\ miss_count' = 0
    /\ UNCHANGED <<op, calls>>

-----------------------------------------------------------------------------

Thread(t) ==
    \/ \E h \in Hashes : Lookup(t, h)
    \/ LookupMiss(t) \/ LookupProbe(t) \/ LookupFound(t) \/ LookupPublished(t) \/ LookupHit(t)
    \/ Compile(t) \/ CompileThrows(t)
    \/ InsertClaim(t) \/ InsertProbe(t) \/ InsertLost(t) \/ InsertStore(t) \/ InsertPublish(t)

Next == (\E t \in Threads : Thread(t)) \/ Clear

Spec == Init /\ [][Next]_vars

-----------------------------------------------------------------------------
(***************************************************************************)
(* Properties.                                                             *)
(***************************************************************************)

\* The type of the state.
TypeOK ==
    /\ key \in [Entries -> Keys \cup {0}]
    /\ owner \in [Entries -> Handles \cup {NoHandle}]
    /\ published \in [Entries -> Handles \cup {NoHandle}]
    /\ op \in [Threads -> [pc : Points, k : Keys \cup {FoldedZero}, probe : Nat,
                          known : BOOLEAN, result : Handles \cup {NoHandle}]]
    /\ hit_count \in Nat /\ miss_count \in Nat
    /\ calls \in 0 .. MaxCalls

\* A signature is claimed in at most one entry, however many threads insert it at once.
UniqueKeys == \A i, j \in Entries : key[i] = key[j] /\ key[i] # 0 => i = j

\* "A reader that sees a published pointer is guaranteed to see the fully written
\* shared_ptr beside it": and it is a trace of the entry's own signature.
PublishedIsWritten ==
    \A i \in Entries : published[i] # NoHandle =>
        owner[i] = published[i] /\ key[i] # 0 /\ owner[i].key = key[i]

\* compile_and_cache never runs a trace compiled for another signature.
RightTrace ==
    \A t \in Threads : op[t].result # NoHandle => op[t].result.key = op[t].k

\* A lookup that starts after its signature was published never misses: no probe run is cut
\* short by an empty entry, and no entry is lost.
NoFalseMiss ==
    \A t \in Threads : op[t].known => op[t].pc \in {"idle", "key", "published", "owner"}

\* "Nothing ever rewrites an entry": a reader's copy of a published entry cannot race with a
\* writer.
EntriesKept ==
    \A i \in Entries : published[i] # NoHandle =>
        \/ key'[i] = key[i] /\ owner'[i] = owner[i] /\ published'[i] = published[i]
        \/ \A t \in Threads : op[t].pc = "idle"

WriteOnce == [][EntriesKept]_vars

-----------------------------------------------------------------------------
(***************************************************************************)
(* What makes them inductive.                                              *)
(***************************************************************************)

\* The entries a probe run for k passes before its probe-th are other signatures'.
Reached(k, probe) == \A q \in 0 .. probe - 1 : key[Slot(k, q)] \notin {0, k}

\* Every claimed entry can be reached from its signature's first entry.
KeysReachable ==
    \A i \in Entries : key[i] # 0 =>
        \E p \in Entries : Slot(key[i], p) = i /\ Reached(key[i], p)

ProbesReached ==
    \A t \in Threads : op[t].pc \in {"key", "claim"} => Reached(op[t].k, op[t].probe)

\* A thread past its probe run is at its signature's entry.
FoundMine ==
    \A t \in Threads : op[t].pc \in {"published", "owner", "store", "publish"} => key[At(t)] = op[t].k

\* An entry that is being written is not published, and has one writer.
OneWriter ==
    \A t \in Threads : op[t].pc \in {"store", "publish"} =>
        /\ published[At(t)] = NoHandle
        /\ op[t].pc = "publish" => owner[At(t)] = Mine(t)
        /\ \A u \in Threads : op[u].pc \in {"store", "publish"} /\ At(u) = At(t) => u = t

\* What a lookup was promised or has seen is still there.
StillPublished ==
    \A t \in Threads :
        /\ op[t].known /\ op[t].pc \in {"key", "published"} => IsPublished(op[t].k)
        /\ op[t].pc = "owner" => published[At(t)] # NoHandle

CallTypes ==
    \A t \in Threads : op[t].probe \in Entries /\ (op[t].pc # "idle" => op[t].k \in Keys)

IInv ==
    /\ TypeOK /\ CallTypes
    /\ KeysReachable /\ ProbesReached /\ FoundMine /\ OneWriter /\ StillPublished
    /\ PublishedIsWritten /\ RightTrace /\ NoFalseMiss
=============================================================================
