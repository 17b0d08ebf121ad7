--------------------------- MODULE TraceCacheProofs ---------------------------
(***************************************************************************)
(* TraceCache is correct for any number of threads and signatures and any  *)
(* capacity.  The argument is about probe runs: a claimed entry is         *)
(* reachable from its signature's first entry through other signatures'    *)
(* entries, and a thread that has come to the probe-th entry has seen only *)
(* such entries.  Entries are write-once, so both stay true, and a thread  *)
(* can neither claim a signature twice nor run past one that is there.     *)
(***************************************************************************)
EXTENDS TraceCache, TLAPS

\* Probing stays inside the table.
LEMMA SlotType ==
    ASSUME NEW k \in Nat, NEW probe \in Nat
    PROVE  Slot(k, probe) \in Entries
BY kCapacityAssumption DEF Slot, Entries

\* No signature is 0, the mark of an empty entry.
LEMMA KeysType == Keys \subseteq Nat \ {0} /\ FoldedZero \in Nat \ {0}
BY HashesAssumption, FoldedZeroAssumption DEF Keys, normalize

\* A thread always probes an entry of the table.
LEMMA AtType ==
    ASSUME TypeOK, CallTypes, NEW t \in Threads
    PROVE  At(t) \in Entries /\ op[t].k \in Nat \ {0} /\ op[t].probe \in Nat
<1>1. op[t].k \in Nat \ {0} /\ op[t].probe \in Nat  BY KeysType DEF TypeOK, CallTypes
<1> QED  BY <1>1, SlotType DEF At

\* What is reachable is unique.
LEMMA ReachableUnique ==
    ASSUME TypeOK, KeysReachable
    PROVE  UniqueKeys
<1> SUFFICES ASSUME NEW i \in Entries, NEW j \in Entries, key[i] = key[j], key[i] # 0
             PROVE  i = j
  BY DEF UniqueKeys
<1>1. PICK p \in Entries : Slot(key[i], p) = i /\ Reached(key[i], p)  BY DEF KeysReachable
<1>2. PICK q \in Entries : Slot(key[i], q) = j /\ Reached(key[i], q)  BY DEF KeysReachable
<1>3. p \in Nat /\ q \in Nat  BY DEF Entries
<1>4. ~(p < q)
  <2> SUFFICES ASSUME p < q PROVE FALSE  OBVIOUS
  <2>1. p \in 0 .. q - 1  BY <1>3
  <2> QED  BY <1>1, <1>2, <2>1 DEF Reached
<1>5. ~(q < p)
  <2> SUFFICES ASSUME q < p PROVE FALSE  OBVIOUS
  <2>1. q \in 0 .. p - 1  BY <1>3
  <2> QED  BY <1>1, <1>2, <2>1 DEF Reached
<1> QED  BY <1>1, <1>2, <1>3, <1>4, <1>5

\* A probe run that has passed only other signatures' entries does not miss its own.
LEMMA NotMissed ==
    ASSUME TypeOK, CallTypes, KeysReachable, NEW t \in Threads, op[t].pc # "idle",
           Reached(op[t].k, op[t].probe), NEW i \in Entries, key[i] = op[t].k
    PROVE  /\ key[At(t)] # 0
           /\ key[At(t)] = op[t].k \/ op[t].probe + 1 < kCapacity
<1>1. op[t].k # 0 /\ op[t].probe \in Nat /\ op[t].k \in Nat  BY AtType
<1>2. PICK p \in Entries : Slot(op[t].k, p) = i /\ Reached(op[t].k, p)
  BY <1>1 DEF KeysReachable
<1>3. p \in Nat /\ p < kCapacity  BY kCapacityAssumption DEF Entries
<1>4. ~(p < op[t].probe)
  <2> SUFFICES ASSUME p < op[t].probe PROVE FALSE  OBVIOUS
  <2>1. p \in 0 .. op[t].probe - 1  BY <1>1, <1>3
  <2> QED  BY <1>2, <2>1 DEF Reached
<1>5. CASE p = op[t].probe
  BY <1>1, <1>2, <1>5 DEF At
<1>6. CASE op[t].probe < p
  <2>1. op[t].probe \in 0 .. p - 1  BY <1>1, <1>3, <1>6
  <2>2. key[At(t)] # 0  BY <1>2, <2>1 DEF Reached, At
  <2>3. op[t].probe + 1 < kCapacity  BY <1>1, <1>3, <1>6, kCapacityAssumption
  <2> QED  BY <2>2, <2>3
<1> QED  BY <1>1, <1>3, <1>4, <1>5, <1>6

\* The initial state.
LEMMA InitInv == Init => IInv
<1> SUFFICES ASSUME Init PROVE IInv  OBVIOUS
<1>1. TypeOK
  BY MaxCallsAssumption DEF Init, TypeOK, Call, Points
<1>2. 0 \in Entries  BY kCapacityAssumption DEF Entries
<1>3. CallTypes  BY <1>2 DEF Init, CallTypes, Call
<1>4. KeysReachable /\ PublishedIsWritten  BY DEF Init, KeysReachable, PublishedIsWritten
<1>5. ProbesReached /\ FoundMine /\ OneWriter /\ StillPublished /\ RightTrace /\ NoFalseMiss
  BY DEF Init, Call, ProbesReached, FoundMine, OneWriter, StillPublished, RightTrace, NoFalseMiss
<1> QED  BY <1>1, <1>3, <1>4, <1>5 DEF IInv

-----------------------------------------------------------------------------
(***************************************************************************)
(* Steps that leave the table alone: only t's own call changes.            *)
(***************************************************************************)

\* Facts about the table alone survive.
LEMMA TableUnchanged ==
    ASSUME IInv, UNCHANGED <<key, owner, published>>
    PROVE  /\ KeysReachable' /\ PublishedIsWritten'
           /\ \A k, p : Reached(k, p)' <=> Reached(k, p)
           /\ \A k : IsPublished(k)' <=> IsPublished(k)
BY DEF IInv, KeysReachable, PublishedIsWritten, Reached, IsPublished

\* The other threads' part of the invariant survives; t's new call must satisfy its own.
LEMMA CallStep ==
    ASSUME IInv, UNCHANGED <<key, owner, published>>, TypeOK',
           NEW t \in Threads, NEW c, op' = [op EXCEPT ![t] = c],
           c.probe \in Entries, c.pc # "idle" => c.k \in Keys,
           c.pc \in {"key", "claim"} => Reached(c.k, c.probe),
           c.pc \in {"published", "owner", "store", "publish"} => key[Slot(c.k, c.probe)] = c.k,
           c.pc \in {"store", "publish"} =>
               op[t].pc \in {"store", "publish"} /\ c.k = op[t].k /\ c.probe = op[t].probe /\ c.pc = op[t].pc,
           c.known /\ c.pc \in {"key", "published"} => IsPublished(c.k),
           c.pc = "owner" => published[Slot(c.k, c.probe)] # NoHandle,
           c.result # NoHandle => c.result.key = c.k,
           c.known => c.pc \in {"idle", "key", "published", "owner"}
    PROVE  IInv'
<1>1. op'[t] = c /\ \A u \in Threads \ {t} : op'[u] = op[u]  BY DEF IInv, TypeOK
<1>2. At(t)' = Slot(c.k, c.probe) /\ \A u \in Threads \ {t} : At(u)' = At(u) /\ Mine(u)' = Mine(u)
  BY <1>1 DEF At, Mine
<1>3. CallTypes'  BY <1>1 DEF IInv, CallTypes
<1>4. KeysReachable' /\ PublishedIsWritten'  BY TableUnchanged
<1>5. ProbesReached'
  <2> SUFFICES ASSUME NEW u \in Threads, op'[u].pc \in {"key", "claim"}
               PROVE  Reached(op[u].k, op[u].probe)'
    BY DEF ProbesReached
  <2>1. CASE u = t  BY <1>1, <2>1 DEF Reached
  <2>2. CASE u # t  BY <1>1, <2>2 DEF IInv, ProbesReached, Reached
  <2> QED  BY <2>1, <2>2
<1>6. FoundMine'  BY <1>1, <1>2 DEF IInv, FoundMine
<1>7. OneWriter'
  <2>1. \A u \in Threads : op'[u].pc \in {"store", "publish"} =>
            op[u].pc = op'[u].pc /\ At(u)' = At(u) /\ Mine(u)' = Mine(u)
    BY <1>1, <1>2 DEF At, Mine
  <2> QED  BY <2>1 DEF IInv, OneWriter
<1>8. StillPublished'
  <2> SUFFICES ASSUME NEW u \in Threads
               PROVE  /\ op'[u].known /\ op'[u].pc \in {"key", "published"} => IsPublished(op[u].k)'
                      /\ op'[u].pc = "owner" => published'[At(u)'] # NoHandle
    BY DEF StillPublished
  <2>1. CASE u = t  BY <1>1, <1>2, <2>1 DEF IsPublished
  <2>2. CASE u # t  BY <1>1, <1>2, <2>2 DEF IInv, StillPublished, IsPublished
  <2> QED  BY <2>1, <2>2
<1>9. RightTrace'  BY <1>1 DEF IInv, RightTrace
<1>10. NoFalseMiss'  BY <1>1 DEF IInv, NoFalseMiss
<1> QED  BY <1>3, <1>4, <1>5, <1>6, <1>7, <1>8, <1>9, <1>10 DEF IInv

\* A record of op, and its EXCEPT forms.
LEMMA OpRecord ==
    ASSUME TypeOK, NEW t \in Threads
    PROVE  op[t] \in [pc : Points, k : Keys \cup {FoldedZero}, probe : Nat,
                      known : BOOLEAN, result : Handles \cup {NoHandle}]
BY DEF TypeOK

\* lookup and compile, and the steps of insert that claim nothing.
LEMMA ReadStep ==
    ASSUME IInv, NEW t \in Threads,
           \/ \E h \in Hashes : Lookup(t, h)
           \/ LookupMiss(t) \/ LookupProbe(t) \/ LookupFound(t) \/ LookupPublished(t) \/ LookupHit(t)
           \/ Compile(t) \/ CompileThrows(t) \/ InsertProbe(t) \/ InsertLost(t)
    PROVE  IInv'
<1> DEFINE Ops == [pc : Points, k : Keys \cup {FoldedZero}, probe : Nat,
                   known : BOOLEAN, result : Handles \cup {NoHandle}]
<1>0. TypeOK /\ CallTypes /\ KeysReachable  BY DEF IInv
<1>1. op[t] \in Ops  BY <1>0, OpRecord
<1>2. /\ At(t) \in Entries /\ op[t].k \in Nat \ {0} /\ op[t].probe \in Nat /\ op[t].probe \in Entries
      /\ kCapacity \in Nat \ {0} /\ 0 \in Entries
  BY <1>0, AtType, kCapacityAssumption DEF CallTypes, Entries
<1>3. At(t) = Slot(op[t].k, op[t].probe)  BY DEF At
<1>4. /\ op[t].pc # "idle" => op[t].k \in Keys
      /\ op[t].pc \in {"key", "claim"} => Reached(op[t].k, op[t].probe)
      /\ op[t].result # NoHandle => op[t].result.key = op[t].k
      /\ op[t].known => op[t].pc \in {"idle", "key", "published", "owner"}
  BY DEF IInv, CallTypes, ProbesReached, RightTrace, NoFalseMiss
<1>5. op[t].known /\ op[t].pc \in {"key", "published"} => IsPublished(op[t].k)
  BY DEF IInv, StillPublished
<1>6. op[t].pc \in {"published", "owner", "store", "publish"} => key[At(t)] = op[t].k
  BY DEF IInv, FoundMine
\* TypeOK' whenever op'[t] is again a call.
<1>7. ASSUME NEW c \in Ops, op' = [op EXCEPT ![t] = c], UNCHANGED <<key, owner, published>>,
             hit_count' \in Nat, miss_count' \in Nat, calls' \in 0 .. MaxCalls
      PROVE  TypeOK'
  <2>1. op' \in [Threads -> Ops]  BY <1>0, <1>7 DEF TypeOK
  <2> QED  BY <1>0, <1>7, <2>1 DEF TypeOK
<1>8. hit_count \in Nat /\ miss_count \in Nat /\ calls \in 0 .. MaxCalls
      /\ hit_count + 1 \in Nat /\ miss_count + 1 \in Nat
  BY <1>0 DEF TypeOK
\* The next step of a probe run has passed one more entry.
<1>9. ASSUME op[t].pc \in {"key", "claim"}, key[At(t)] \notin {0, op[t].k}, op[t].probe + 1 < kCapacity
      PROVE  Reached(op[t].k, op[t].probe + 1) /\ op[t].probe + 1 \in Entries
  <2>1. op[t].probe + 1 \in Entries  BY <1>2, <1>9 DEF Entries
  <2>2. ASSUME NEW q \in 0 .. (op[t].probe + 1) - 1
        PROVE  key[Slot(op[t].k, q)] \notin {0, op[t].k}
    <3>1. q \in 0 .. op[t].probe - 1 \/ q = op[t].probe  BY <1>2
    <3>2. CASE q = op[t].probe  BY <1>3, <1>9, <3>2
    <3>3. CASE q \in 0 .. op[t].probe - 1  BY <1>4, <1>9, <3>3 DEF Reached
    <3> QED  BY <3>1, <3>2, <3>3
  <2> QED  BY <2>1, <2>2 DEF Reached
\* What the thread compiled is a trace of its signature.
<1>10. op[t].pc # "idle" => Mine(t) \in Handles /\ Mine(t).key = op[t].k
  BY <1>4 DEF Mine, Handles
<1>11. ASSUME NEW h \in Hashes, Lookup(t, h) PROVE IInv'
  <2> DEFINE k == normalize(h)
             c == Call("key", k, 0, IsPublished(k), NoHandle)
  <2>1. k \in Keys  BY DEF Keys
  <2>2. /\ op' = [op EXCEPT ![t] = c] /\ calls' = calls + 1 /\ calls < MaxCalls
        /\ UNCHANGED <<key, owner, published, hit_count, miss_count>>
    BY <1>11 DEF Lookup
  <2>3. IsPublished(k) \in BOOLEAN  BY DEF IsPublished
  <2>4. c \in Ops /\ c.pc = "key" /\ c.k = k /\ c.probe = 0 /\ c.known = IsPublished(k) /\ c.result = NoHandle
    BY <2>1, <2>3 DEF Call, Points
  <2>5. calls' \in 0 .. MaxCalls  BY <1>8, <2>2, MaxCallsAssumption
  <2> HIDE DEF c, k
  <2>6. TypeOK'  BY <1>7, <1>8, <2>2, <2>4, <2>5
  <2>7. Reached(k, 0)  BY DEF Reached
  <2> QED  BY <1>2, <2>1, <2>2, <2>4, <2>6, <2>7, CallStep
<1>12. ASSUME LookupMiss(t) PROVE IInv'
  <2> DEFINE c == [op[t] EXCEPT !.pc = "compile"]
  <2>1. /\ op' = [op EXCEPT ![t] = c] /\ miss_count' = miss_count + 1 /\ op[t].pc = "key"
        /\ UNCHANGED <<key, owner, published, hit_count, calls>>
    BY <1>12 DEF LookupMiss, Goto
  <2>2. /\ c \in Ops /\ c.pc = "compile" /\ c.k = op[t].k /\ c.probe = op[t].probe
        /\ c.known = op[t].known /\ c.result = op[t].result
    BY <1>1 DEF Points
  <2> HIDE DEF c
  <2>3. TypeOK'  BY <1>7, <1>8, <2>1, <2>2
  <2>4. ~op[t].known
    <3> SUFFICES ASSUME op[t].known PROVE FALSE  OBVIOUS
    <3>1. PICK i \in Entries : key[i] = op[t].k  BY <1>5, <2>1 DEF IsPublished
    <3>2. /\ key[At(t)] # 0
          /\ key[At(t)] = op[t].k \/ op[t].probe + 1 < kCapacity
      BY <1>0, <1>4, <2>1, <3>1, NotMissed
    <3> QED  BY <1>2, <1>12, <3>2 DEF LookupMiss
  <2> QED  BY <1>2, <1>4, <2>1, <2>2, <2>3, <2>4, CallStep
<1>13. ASSUME LookupProbe(t) PROVE IInv'
  <2> DEFINE c == [op[t] EXCEPT !.probe = @ + 1]
  <2>1. /\ op' = [op EXCEPT ![t] = c] /\ op[t].pc = "key"
        /\ UNCHANGED <<key, owner, published, hit_count, miss_count, calls>>
        /\ key[At(t)] \notin {0, op[t].k} /\ op[t].probe + 1 < kCapacity
    BY <1>13 DEF LookupProbe, Advance
  <2>2. /\ c \in Ops /\ c.pc = "key" /\ c.k = op[t].k /\ c.probe = op[t].probe + 1
        /\ c.known = op[t].known /\ c.result = op[t].result
    BY <1>1, <1>2, <2>1
  <2> HIDE DEF c
  <2>3. TypeOK'  BY <1>7, <1>8, <2>1, <2>2
  <2> QED  BY <1>4, <1>5, <1>9, <2>1, <2>2, <2>3, CallStep
<1>14. ASSUME LookupFound(t) PROVE IInv'
  <2> DEFINE c == [op[t] EXCEPT !.pc = "published"]
  <2>1. /\ op' = [op EXCEPT ![t] = c] /\ op[t].pc = "key" /\ key[At(t)] = op[t].k
        /\ UNCHANGED <<key, owner, published, hit_count, miss_count, calls>>
    BY <1>14 DEF LookupFound, Goto
  <2>2. /\ c \in Ops /\ c.pc = "published" /\ c.k = op[t].k /\ c.probe = op[t].probe
        /\ c.known = op[t].known /\ c.result = op[t].result
    BY <1>1 DEF Points
  <2> HIDE DEF c
  <2>3. TypeOK'  BY <1>7, <1>8, <2>1, <2>2
  <2> QED  BY <1>2, <1>3, <1>4, <1>5, <2>1, <2>2, <2>3, CallStep
<1>15. ASSUME LookupPublished(t), published[At(t)] = NoHandle PROVE IInv'
  <2> DEFINE c == [op[t] EXCEPT !.pc = "compile"]
  <2>1. /\ op' = [op EXCEPT ![t] = c] /\ op[t].pc = "published" /\ miss_count' = miss_count + 1
        /\ UNCHANGED <<key, owner, published, hit_count, calls>>
    BY <1>15 DEF LookupPublished, Goto
  <2>2. /\ c \in Ops /\ c.pc = "compile" /\ c.k = op[t].k /\ c.probe = op[t].probe
        /\ c.known = op[t].known /\ c.result = op[t].result
    BY <1>1 DEF Points
  <2> HIDE DEF c
  <2>3. TypeOK'  BY <1>7, <1>8, <2>1, <2>2
  <2>4. ~op[t].known
    <3> SUFFICES ASSUME op[t].known PROVE FALSE  OBVIOUS
    <3>1. PICK i \in Entries : key[i] = op[t].k /\ published[i] # NoHandle
      BY <1>5, <2>1 DEF IsPublished
    <3>2. key[At(t)] = op[t].k  BY <1>6, <2>1
    <3>3. i = At(t)  BY <1>0, <1>2, <3>1, <3>2, ReachableUnique DEF UniqueKeys
    <3> QED  BY <1>15, <3>1, <3>3
  <2> QED  BY <1>2, <1>4, <2>1, <2>2, <2>3, <2>4, CallStep
<1>16. ASSUME LookupPublished(t), published[At(t)] # NoHandle PROVE IInv'
  <2> DEFINE c == [op[t] EXCEPT !.pc = "owner"]
  <2>1. /\ op' = [op EXCEPT ![t] = c] /\ op[t].pc = "published" /\ hit_count' = hit_count + 1
        /\ UNCHANGED <<key, owner, published, miss_count, calls>>
    BY <1>16 DEF LookupPublished, Goto
  <2>2. /\ c \in Ops /\ c.pc = "owner" /\ c.k = op[t].k /\ c.probe = op[t].probe
        /\ c.known = op[t].known /\ c.result = op[t].result
    BY <1>1 DEF Points
  <2> HIDE DEF c
  <2>3. TypeOK'  BY <1>7, <1>8, <2>1, <2>2
  <2> QED  BY <1>2, <1>3, <1>4, <1>6, <1>16, <2>1, <2>2, <2>3, CallStep
<1>17. ASSUME LookupHit(t) PROVE IInv'
  <2> DEFINE c == [op[t] EXCEPT !.pc = "idle", !.result = owner[At(t)]]
  <2>1. /\ op' = [op EXCEPT ![t] = c] /\ op[t].pc = "owner"
        /\ UNCHANGED <<key, owner, published, hit_count, miss_count, calls>>
    BY <1>17 DEF LookupHit
  <2>2. owner[At(t)] \in Handles \cup {NoHandle}  BY <1>0, <1>2 DEF TypeOK
  <2>3. /\ c \in Ops /\ c.pc = "idle" /\ c.k = op[t].k /\ c.probe = op[t].probe
        /\ c.known = op[t].known /\ c.result = owner[At(t)]
    BY <1>1, <2>2 DEF Points
  <2> HIDE DEF c
  <2>4. TypeOK'  BY <1>7, <1>8, <2>1, <2>3
  <2>5. published[At(t)] # NoHandle  BY <2>1 DEF IInv, StillPublished
  <2>6. owner[At(t)].key = op[t].k  BY <1>2, <1>6, <2>1, <2>5 DEF IInv, PublishedIsWritten
  <2> QED  BY <1>2, <2>1, <2>3, <2>4, <2>6, CallStep
<1>18. ASSUME Compile(t) PROVE IInv'
  <2> DEFINE c == [op[t] EXCEPT !.pc = "claim", !.probe = 0]
  <2>1. /\ op' = [op EXCEPT ![t] = c] /\ op[t].pc = "compile"
        /\ UNCHANGED <<key, owner, published, hit_count, miss_count, calls>>
    BY <1>18 DEF Compile
  <2>2. /\ c \in Ops /\ c.pc = "claim" /\ c.k = op[t].k /\ c.probe = 0
        /\ c.known = op[t].known /\ c.result = op[t].result
    BY <1>1 DEF Points
  <2> HIDE DEF c
  <2>3. TypeOK'  BY <1>7, <1>8, <2>1, <2>2
  <2>4. Reached(op[t].k, 0)  BY DEF Reached
  <2>5. ~op[t].known  BY <1>4, <2>1
  <2> QED  BY <1>2, <1>4, <2>1, <2>2, <2>3, <2>4, <2>5, CallStep
<1>19. ASSUME InsertProbe(t), op[t].probe + 1 < kCapacity PROVE IInv'
  <2> DEFINE c == [op[t] EXCEPT !.probe = @ + 1]
  <2>1. /\ op' = [op EXCEPT ![t] = c] /\ op[t].pc = "claim" /\ key[At(t)] \notin {0, op[t].k}
        /\ UNCHANGED <<key, owner, published, hit_count, miss_count, calls>>
    BY <1>19 DEF InsertProbe, Advance
  <2>2. /\ c \in Ops /\ c.pc = "claim" /\ c.k = op[t].k /\ c.probe = op[t].probe + 1
        /\ c.known = op[t].known /\ c.result = op[t].result
    BY <1>1, <1>2, <2>1
  <2> HIDE DEF c
  <2>3. TypeOK'  BY <1>7, <1>8, <2>1, <2>2
  <2> QED  BY <1>4, <1>9, <1>19, <2>1, <2>2, <2>3, CallStep
<1>20. ASSUME InsertLost(t) \/ (InsertProbe(t) /\ ~(op[t].probe + 1 < kCapacity)) PROVE IInv'
  <2> DEFINE c == [op[t] EXCEPT !.pc = "idle", !.result = Mine(t)]
  <2>1. /\ op' = [op EXCEPT ![t] = c] /\ op[t].pc = "claim"
        /\ UNCHANGED <<key, owner, published, hit_count, miss_count, calls>>
    BY <1>20 DEF InsertLost, InsertProbe, RunOwn
  <2>2. /\ c \in Ops /\ c.pc = "idle" /\ c.k = op[t].k /\ c.probe = op[t].probe
        /\ c.known = op[t].known /\ c.result = Mine(t)
    BY <1>1, <1>10, <2>1 DEF Points
  <2> HIDE DEF c
  <2>3. TypeOK'  BY <1>7, <1>8, <2>1, <2>2
  <2> QED  BY <1>2, <1>10, <2>1, <2>2, <2>3, CallStep
<1>21. ASSUME CompileThrows(t) PROVE IInv'
  <2> DEFINE c == [op[t] EXCEPT !.pc = "idle"]
  <2>1. /\ op' = [op EXCEPT ![t] = c] /\ op[t].pc = "compile"
        /\ UNCHANGED <<key, owner, published, hit_count, miss_count, calls>>
    BY <1>21 DEF CompileThrows, Goto
  <2>2. /\ c \in Ops /\ c.pc = "idle" /\ c.k = op[t].k /\ c.probe = op[t].probe
        /\ c.known = op[t].known /\ c.result = op[t].result
    BY <1>1 DEF Points
  <2> HIDE DEF c
  <2>3. TypeOK'  BY <1>7, <1>8, <2>1, <2>2
  <2> QED  BY <1>2, <1>4, <2>1, <2>2, <2>3, CallStep
<1> QED
  BY <1>11, <1>12, <1>13, <1>14, <1>15, <1>16, <1>17, <1>18, <1>19, <1>20, <1>21

-----------------------------------------------------------------------------
(***************************************************************************)
(* Steps that write the table.                                             *)
(***************************************************************************)

\* The compare-exchange claims an empty entry for a signature that has none.
LEMMA ClaimStep ==
    ASSUME IInv, NEW t \in Threads, InsertClaim(t)
    PROVE  IInv'
<1> DEFINE c == [op[t] EXCEPT !.pc = "store"]
<1>0. TypeOK /\ CallTypes  BY DEF IInv
<1>1. /\ At(t) \in Entries /\ op[t].k \in Nat \ {0} /\ op[t].k \in Keys /\ op[t].pc = "claim"
      /\ op[t].probe \in Entries /\ op[t].probe \in Nat
  BY <1>0, AtType DEF InsertClaim, CallTypes
<1>2. /\ key[At(t)] = 0 /\ key' = [key EXCEPT ![At(t)] = op[t].k] /\ op' = [op EXCEPT ![t] = c]
      /\ UNCHANGED <<owner, published, hit_count, miss_count, calls>>
  BY DEF InsertClaim, Goto
<1>3. /\ op'[t] = c /\ \A u \in Threads \ {t} : op'[u] = op[u]
      /\ c.pc = "store" /\ c.k = op[t].k /\ c.probe = op[t].probe
      /\ c.known = op[t].known /\ c.result = op[t].result
  BY <1>0, <1>2, OpRecord DEF TypeOK
<1>4. key'[At(t)] = op[t].k /\ \A i \in Entries \ {At(t)} : key'[i] = key[i]
  BY <1>0, <1>1, <1>2 DEF TypeOK
<1>5. \A u \in Threads : At(u)' = At(u) /\ Mine(u)' = Mine(u)
  BY <1>3 DEF At, Mine
<1>6. TypeOK'
  <2>1. key' \in [Entries -> Keys \cup {0}]  BY <1>0, <1>1, <1>2 DEF TypeOK
  <2>2. c \in [pc : Points, k : Keys \cup {FoldedZero}, probe : Nat,
               known : BOOLEAN, result : Handles \cup {NoHandle}]
    BY <1>0, OpRecord DEF Points
  <2> HIDE DEF c
  <2> QED  BY <1>0, <1>2, <2>1, <2>2 DEF TypeOK
<1> HIDE DEF c
<1>7. CallTypes'  BY <1>0, <1>1, <1>3 DEF CallTypes
<1>8. ASSUME NEW k \in Nat, NEW p \in Nat, Reached(k, p)
      PROVE  \A q \in 0 .. p - 1 : key'[Slot(k, q)] = key[Slot(k, q)]
  <2> SUFFICES ASSUME NEW q \in 0 .. p - 1 PROVE key'[Slot(k, q)] = key[Slot(k, q)]  OBVIOUS
  <2>1. Slot(k, q) \in Entries  BY SlotType
  <2>2. key[Slot(k, q)] # 0  BY <1>8 DEF Reached
  <2> QED  BY <1>2, <1>4, <2>1, <2>2
<1>9. ASSUME NEW k \in Nat, NEW p \in Nat, Reached(k, p)
      PROVE  \A q \in 0 .. p - 1 : key'[Slot(k, q)] \notin {0, k}
  BY <1>8, <1>9 DEF Reached
<1>10. KeysReachable'
  <2> SUFFICES ASSUME NEW i \in Entries, key'[i] # 0
               PROVE  \E p \in Entries : Slot(key'[i], p) = i /\ \A q \in 0 .. p - 1 :
                          key'[Slot(key'[i], q)] \notin {0, key'[i]}
    BY DEF KeysReachable, Reached
  <2>1. CASE i = At(t)
    <3>1. Reached(op[t].k, op[t].probe)  BY <1>1 DEF IInv, ProbesReached
    <3>2. Slot(op[t].k, op[t].probe) = i  BY <2>1 DEF At
    <3> QED  BY <1>1, <1>4, <1>9, <2>1, <3>1, <3>2
  <2>2. CASE i # At(t)
    <3>1. key'[i] = key[i] /\ key[i] \in Nat  BY <1>0, <1>4, <2>2, KeysType DEF TypeOK
    <3>2. PICK p \in Entries : Slot(key[i], p) = i /\ Reached(key[i], p)
      BY <3>1 DEF IInv, KeysReachable
    <3>3. p \in Nat  BY DEF Entries
    <3> QED  BY <1>9, <3>1, <3>2, <3>3
  <2> QED  BY <2>1, <2>2
<1>11. ProbesReached'
  <2> SUFFICES ASSUME NEW u \in Threads, op'[u].pc \in {"key", "claim"}
               PROVE  \A q \in 0 .. op'[u].probe - 1 : key'[Slot(op'[u].k, q)] \notin {0, op'[u].k}
    BY DEF ProbesReached, Reached
  <2>1. u # t /\ op'[u] = op[u]  BY <1>3
  <2>2. op[u].k \in Nat /\ op[u].probe \in Nat  BY <1>0, AtType
  <2>3. Reached(op[u].k, op[u].probe)  BY <2>1 DEF IInv, ProbesReached
  <2> QED  BY <1>9, <2>1, <2>2, <2>3
\* Entries other threads are at are claimed, so they are not this one.
<1>12. \A u \in Threads \ {t} : op[u].pc \in {"published", "owner", "store", "publish"} =>
           At(u) \in Entries /\ At(u) # At(t) /\ key[At(u)] = op[u].k
  BY <1>0, <1>2, AtType DEF IInv, FoundMine
<1>13. FoundMine'
  BY <1>3, <1>4, <1>5, <1>12 DEF FoundMine
<1>14. \A i \in Entries : published[i] # NoHandle => key'[i] = key[i] /\ i # At(t)
  BY <1>2, <1>4 DEF IInv, PublishedIsWritten
<1>15. OneWriter'
  <2> SUFFICES ASSUME NEW u \in Threads, op'[u].pc \in {"store", "publish"}
               PROVE  /\ published[At(u)] = NoHandle
                      /\ op'[u].pc = "publish" => owner[At(u)] = Mine(u)
                      /\ \A v \in Threads : op'[v].pc \in {"store", "publish"} /\ At(v) = At(u) => v = u
    BY <1>2, <1>5 DEF OneWriter
  <2>1. CASE u = t  BY <1>1, <1>3, <1>12, <1>14, <2>1
  <2>2. CASE u # t  BY <1>3, <1>12, <2>2 DEF IInv, OneWriter
  <2> QED  BY <2>1, <2>2
<1>16. StillPublished'
  <2> SUFFICES ASSUME NEW u \in Threads
               PROVE  /\ op'[u].known /\ op'[u].pc \in {"key", "published"} =>
                             \E i \in Entries : key'[i] = op'[u].k /\ published[i] # NoHandle
                      /\ op'[u].pc = "owner" => published[At(u)] # NoHandle
    BY <1>2, <1>5 DEF StillPublished, IsPublished
  <2>1. CASE u = t  BY <1>3, <2>1
  <2>2. CASE u # t  BY <1>3, <1>14, <2>2 DEF IInv, StillPublished, IsPublished
  <2> QED  BY <2>1, <2>2
<1>17. PublishedIsWritten'  BY <1>2, <1>14 DEF IInv, PublishedIsWritten
<1>18. RightTrace'  BY <1>3 DEF IInv, RightTrace
<1>19. NoFalseMiss'
  <2>1. ~op[t].known  BY <1>1 DEF IInv, NoFalseMiss
  <2> QED  BY <1>3, <2>1 DEF IInv, NoFalseMiss
<1> QED  BY <1>6, <1>7, <1>10, <1>11, <1>13, <1>15, <1>16, <1>17, <1>18, <1>19 DEF IInv

\* The owning pointer is written into the entry only this thread writes.
LEMMA StoreStep ==
    ASSUME IInv, NEW t \in Threads, InsertStore(t)
    PROVE  IInv'
<1> DEFINE c == [op[t] EXCEPT !.pc = "publish"]
<1>0. TypeOK /\ CallTypes  BY DEF IInv
<1>1. /\ At(t) \in Entries /\ op[t].k \in Keys /\ op[t].pc = "store" /\ key[At(t)] = op[t].k
      /\ op[t].probe \in Entries /\ published[At(t)] = NoHandle /\ ~op[t].known
  BY <1>0, AtType DEF InsertStore, CallTypes, IInv, FoundMine, OneWriter, NoFalseMiss
<1>2. /\ owner' = [owner EXCEPT ![At(t)] = Mine(t)] /\ op' = [op EXCEPT ![t] = c]
      /\ UNCHANGED <<key, published, hit_count, miss_count, calls>>
  BY DEF InsertStore, Goto
<1>3. /\ op'[t] = c /\ \A u \in Threads \ {t} : op'[u] = op[u]
      /\ c.pc = "publish" /\ c.k = op[t].k /\ c.probe = op[t].probe
      /\ c.known = op[t].known /\ c.result = op[t].result
  BY <1>0, <1>2, OpRecord DEF TypeOK
<1>4. owner'[At(t)] = Mine(t) /\ \A i \in Entries \ {At(t)} : owner'[i] = owner[i]
  BY <1>0, <1>1, <1>2 DEF TypeOK
<1>5. \A u \in Threads : At(u)' = At(u) /\ Mine(u)' = Mine(u) /\ At(u) \in Entries
  BY <1>0, <1>3, AtType DEF At, Mine
<1>6. TypeOK'
  <2>1. Mine(t) \in Handles  BY <1>1 DEF Mine, Handles
  <2>2. owner' \in [Entries -> Handles \cup {NoHandle}]  BY <1>0, <1>1, <1>2, <2>1 DEF TypeOK
  <2>3. c \in [pc : Points, k : Keys \cup {FoldedZero}, probe : Nat,
               known : BOOLEAN, result : Handles \cup {NoHandle}]
    BY <1>0, OpRecord DEF Points
  <2> HIDE DEF c
  <2> QED  BY <1>0, <1>2, <2>2, <2>3 DEF TypeOK
<1> HIDE DEF c
<1>7. CallTypes'  BY <1>0, <1>1, <1>3 DEF CallTypes
<1>8. KeysReachable'  BY <1>2 DEF IInv, KeysReachable, Reached
<1>9. ProbesReached'
  <2> SUFFICES ASSUME NEW u \in Threads, op'[u].pc \in {"key", "claim"}
               PROVE  Reached(op'[u].k, op'[u].probe)
    BY <1>2 DEF ProbesReached, Reached
  <2> QED  BY <1>3 DEF IInv, ProbesReached
<1>10. FoundMine'  BY <1>1, <1>2, <1>3, <1>5 DEF IInv, FoundMine
<1>11. OneWriter'
  <2> SUFFICES ASSUME NEW u \in Threads, op'[u].pc \in {"store", "publish"}
               PROVE  /\ published[At(u)] = NoHandle
                      /\ op'[u].pc = "publish" => owner'[At(u)] = Mine(u)
                      /\ \A v \in Threads : op'[v].pc \in {"store", "publish"} /\ At(v) = At(u) => v = u
    BY <1>2, <1>5 DEF OneWriter
  <2>1. op[u].pc \in {"store", "publish"}  BY <1>1, <1>3
  <2>2. \A v \in Threads : op'[v].pc \in {"store", "publish"} => op[v].pc \in {"store", "publish"}
    BY <1>1, <1>3
  <2>3. CASE u = t  BY <1>1, <1>4, <2>1, <2>2, <2>3 DEF IInv, OneWriter
  <2>4. CASE u # t
    <3>1. At(u) # At(t)  BY <1>1, <2>1, <2>4 DEF IInv, OneWriter
    <3>2. op'[u] = op[u] /\ owner'[At(u)] = owner[At(u)]  BY <1>3, <1>4, <1>5, <2>4, <3>1
    <3> QED  BY <2>1, <2>2, <3>2 DEF IInv, OneWriter
  <2> QED  BY <2>3, <2>4
<1>12. StillPublished'
  <2> SUFFICES ASSUME NEW u \in Threads
               PROVE  /\ op'[u].known /\ op'[u].pc \in {"key", "published"} => IsPublished(op'[u].k)
                      /\ op'[u].pc = "owner" => published[At(u)] # NoHandle
    BY <1>2, <1>5 DEF StillPublished, IsPublished
  <2>1. CASE u = t  BY <1>3, <2>1
  <2>2. CASE u # t  BY <1>3, <2>2 DEF IInv, StillPublished
  <2> QED  BY <2>1, <2>2
<1>13. PublishedIsWritten'
  <2>1. \A i \in Entries : published[i] # NoHandle => owner'[i] = owner[i]  BY <1>1, <1>4
  <2> QED  BY <1>2, <2>1 DEF IInv, PublishedIsWritten
<1>14. RightTrace'  BY <1>3 DEF IInv, RightTrace
<1>15. NoFalseMiss'  BY <1>1, <1>3 DEF IInv, NoFalseMiss
<1> QED  BY <1>6, <1>7, <1>8, <1>9, <1>10, <1>11, <1>12, <1>13, <1>14, <1>15 DEF IInv

\* Publishing what was written.
LEMMA PublishStep ==
    ASSUME IInv, NEW t \in Threads, InsertPublish(t)
    PROVE  IInv'
<1> DEFINE c == [op[t] EXCEPT !.pc = "idle", !.result = Mine(t)]
<1>0. TypeOK /\ CallTypes  BY DEF IInv
<1>1. /\ At(t) \in Entries /\ op[t].k \in Keys /\ op[t].pc = "publish" /\ key[At(t)] = op[t].k
      /\ op[t].probe \in Entries /\ published[At(t)] = NoHandle /\ ~op[t].known
      /\ owner[At(t)] = Mine(t) /\ op[t].k # 0
  BY <1>0, AtType DEF InsertPublish, CallTypes, IInv, FoundMine, OneWriter, NoFalseMiss
<1>2. /\ published' = [published EXCEPT ![At(t)] = Mine(t)] /\ op' = [op EXCEPT ![t] = c]
      /\ UNCHANGED <<key, owner, hit_count, miss_count, calls>>
  BY <1>1 DEF InsertPublish, RunOwn
<1>3. Mine(t) \in Handles /\ Mine(t).key = op[t].k  BY <1>1 DEF Mine, Handles
<1>4. /\ op'[t] = c /\ \A u \in Threads \ {t} : op'[u] = op[u]
      /\ c.pc = "idle" /\ c.k = op[t].k /\ c.probe = op[t].probe
      /\ c.known = op[t].known /\ c.result = Mine(t)
  BY <1>0, <1>2, OpRecord DEF TypeOK
<1>5. published'[At(t)] = Mine(t) /\ \A i \in Entries \ {At(t)} : published'[i] = published[i]
  BY <1>0, <1>1, <1>2 DEF TypeOK
<1>6. \A u \in Threads : At(u)' = At(u) /\ Mine(u)' = Mine(u) /\ At(u) \in Entries
  BY <1>0, <1>4, AtType DEF At, Mine
<1>7. TypeOK'
  <2>1. published' \in [Entries -> Handles \cup {NoHandle}]  BY <1>0, <1>1, <1>2, <1>3 DEF TypeOK
  <2>2. c \in [pc : Points, k : Keys \cup {FoldedZero}, probe : Nat,
               known : BOOLEAN, result : Handles \cup {NoHandle}]
    BY <1>0, <1>3, OpRecord DEF Points
  <2> HIDE DEF c
  <2> QED  BY <1>0, <1>2, <2>1, <2>2 DEF TypeOK
<1> HIDE DEF c
<1>8. CallTypes'  BY <1>0, <1>1, <1>4 DEF CallTypes
<1>9. KeysReachable'  BY <1>2 DEF IInv, KeysReachable, Reached
<1>10. ProbesReached'
  <2> SUFFICES ASSUME NEW u \in Threads, op'[u].pc \in {"key", "claim"}
               PROVE  Reached(op'[u].k, op'[u].probe)
    BY <1>2 DEF ProbesReached, Reached
  <2> QED  BY <1>4 DEF IInv, ProbesReached
<1>11. FoundMine'  BY <1>1, <1>2, <1>4, <1>6 DEF IInv, FoundMine
<1>12. OneWriter'
  <2> SUFFICES ASSUME NEW u \in Threads, op'[u].pc \in {"store", "publish"}
               PROVE  /\ published'[At(u)] = NoHandle
                      /\ op'[u].pc = "publish" => owner[At(u)] = Mine(u)
                      /\ \A v \in Threads : op'[v].pc \in {"store", "publish"} /\ At(v) = At(u) => v = u
    BY <1>2, <1>6 DEF OneWriter
  <2>1. u # t /\ op'[u] = op[u]  BY <1>4
  <2>2. \A v \in Threads : op'[v].pc \in {"store", "publish"} => op[v].pc \in {"store", "publish"}
    BY <1>4
  <2>3. At(u) # At(t)  BY <1>1, <2>1 DEF IInv, OneWriter
  <2>4. published'[At(u)] = published[At(u)]  BY <1>5, <1>6, <2>3
  <2> QED  BY <2>1, <2>2, <2>4 DEF IInv, OneWriter
\* What was published stays so.
<1>13. \A i \in Entries : published[i] # NoHandle => published'[i] = published[i]
  BY <1>1, <1>5
<1>14. StillPublished'
  <2> SUFFICES ASSUME NEW u \in Threads
               PROVE  /\ op'[u].known /\ op'[u].pc \in {"key", "published"} =>
                             \E i \in Entries : key[i] = op'[u].k /\ published'[i] # NoHandle
                      /\ op'[u].pc = "owner" => published'[At(u)] # NoHandle
    BY <1>2, <1>6 DEF StillPublished, IsPublished
  <2>1. CASE u = t  BY <1>4, <2>1
  <2>2. CASE u # t  BY <1>4, <1>6, <1>13, <2>2 DEF IInv, StillPublished, IsPublished
  <2> QED  BY <2>1, <2>2
<1>15. PublishedIsWritten'
  <2> SUFFICES ASSUME NEW i \in Entries, published'[i] # NoHandle
               PROVE  owner[i] = published'[i] /\ key[i] # 0 /\ owner[i].key = key[i]
    BY <1>2 DEF PublishedIsWritten
  <2>1. CASE i = At(t)  BY <1>1, <1>3, <1>5, <2>1
  <2>2. CASE i # At(t)  BY <1>5, <2>2 DEF IInv, PublishedIsWritten
  <2> QED  BY <2>1, <2>2
<1>16. RightTrace'  BY <1>3, <1>4 DEF IInv, RightTrace
<1>17. NoFalseMiss'  BY <1>1, <1>4 DEF IInv, NoFalseMiss
<1> QED  BY <1>7, <1>8, <1>9, <1>10, <1>11, <1>12, <1>14, <1>15, <1>16, <1>17 DEF IInv

\* clear with nobody in a call.
LEMMA ClearStep ==
    ASSUME IInv, Clear
    PROVE  IInv'
<1>1. /\ \A t \in Threads : op[t].pc = "idle"
      /\ op' = op /\ calls' = calls /\ hit_count' = 0 /\ miss_count' = 0
      /\ key' = [i \in Entries |-> 0]
      /\ owner' = [i \in Entries |-> NoHandle]
      /\ published' = [i \in Entries |-> NoHandle]
  BY DEF Clear
<1>2. TypeOK' /\ CallTypes'  BY <1>1 DEF IInv, TypeOK, CallTypes
<1>3. KeysReachable' /\ PublishedIsWritten'  BY <1>1 DEF KeysReachable, PublishedIsWritten
<1>4. ProbesReached' /\ FoundMine' /\ OneWriter' /\ StillPublished'
  BY <1>1 DEF ProbesReached, FoundMine, OneWriter, StillPublished
<1>5. RightTrace' /\ NoFalseMiss'  BY <1>1 DEF IInv, RightTrace, NoFalseMiss
<1> QED  BY <1>2, <1>3, <1>4, <1>5 DEF IInv

\* Every step keeps the invariant.
LEMMA NextInv == IInv /\ [Next]_vars => IInv'
<1> SUFFICES ASSUME IInv, [Next]_vars PROVE IInv'  OBVIOUS
<1>1. CASE UNCHANGED vars
  BY <1>1 DEF vars, IInv, TypeOK, CallTypes, KeysReachable, ProbesReached, Reached, FoundMine,
              OneWriter, StillPublished, IsPublished, PublishedIsWritten, RightTrace, NoFalseMiss,
              At, Mine
<1>2. CASE Clear  BY <1>2, ClearStep
<1>3. ASSUME NEW t \in Threads, Thread(t) PROVE IInv'
  BY <1>3, ReadStep, ClaimStep, StoreStep, PublishStep DEF Thread
<1> QED  BY <1>1, <1>2, <1>3 DEF Next

\* The state always has its type and the cache its inductive invariant.
THEOREM TraceCacheCorrect == Spec => []IInv
<1> QED  BY InitInv, NextInv, PTL DEF Spec

\* The table and the calls keep their types: every entry's shared_ptr and published pointer
\* is a trace that was compiled, every probe an entry that exists.
THEOREM CacheTypes == Spec => []TypeOK
<1>1. IInv => TypeOK  BY DEF IInv
<1> QED  BY <1>1, TraceCacheCorrect, PTL

\* However many threads insert a signature at once, it gets one entry.
THEOREM UniqueKeysHolds == Spec => []UniqueKeys
<1>1. IInv => UniqueKeys  BY ReachableUnique DEF IInv
<1> QED  BY <1>1, TraceCacheCorrect, PTL

\* compile_and_cache only ever runs a trace compiled for the signature it asked for.
THEOREM RightTraceHolds == Spec => []RightTrace
<1>1. IInv => RightTrace  BY DEF IInv
<1> QED  BY <1>1, TraceCacheCorrect, PTL

\* A published pointer always has the complete shared_ptr beside it.
THEOREM PublishedIsWrittenHolds == Spec => []PublishedIsWritten
<1>1. IInv => PublishedIsWritten  BY DEF IInv
<1> QED  BY <1>1, TraceCacheCorrect, PTL

\* A lookup that starts after its signature was published hits.
THEOREM NoFalseMissHolds == Spec => []NoFalseMiss
<1>1. IInv => NoFalseMiss  BY DEF IInv
<1> QED  BY <1>1, TraceCacheCorrect, PTL

\* No step of insert touches a published entry.
THEOREM WriteOnceHolds == Spec => WriteOnce
<1>1. IInv /\ [Next]_vars => [EntriesKept]_vars
  <2> SUFFICES ASSUME IInv, Next, NEW i \in Entries, published[i] # NoHandle
               PROVE  \/ key'[i] = key[i] /\ owner'[i] = owner[i] /\ published'[i] = published[i]
                      \/ \A t \in Threads : op[t].pc = "idle"
    BY DEF EntriesKept
  <2>0. TypeOK /\ CallTypes /\ key[i] # 0  BY DEF IInv, PublishedIsWritten
  <2>1. ASSUME NEW t \in Threads, InsertClaim(t)
        PROVE  key'[i] = key[i] /\ UNCHANGED <<owner, published>>
    BY <2>0, <2>1, AtType DEF InsertClaim, TypeOK
  <2>2. ASSUME NEW t \in Threads, InsertStore(t)
        PROVE  owner'[i] = owner[i] /\ UNCHANGED <<key, published>>
    <3>1. published[At(t)] = NoHandle /\ At(t) \in Entries
      BY <2>0, <2>2, AtType DEF InsertStore, IInv, OneWriter
    <3> QED  BY <2>0, <2>2, <3>1 DEF InsertStore, TypeOK
  <2>3. ASSUME NEW t \in Threads, InsertPublish(t)
        PROVE  published'[i] = published[i] /\ UNCHANGED <<key, owner>>
    <3>1. published[At(t)] = NoHandle /\ At(t) \in Entries
      BY <2>0, <2>3, AtType DEF InsertPublish, IInv, OneWriter
    <3> QED  BY <2>0, <2>3, <3>1 DEF InsertPublish, TypeOK
  <2>4. ASSUME NEW t \in Threads, Thread(t)
        PROVE  \/ InsertClaim(t) \/ InsertStore(t) \/ InsertPublish(t)
               \/ UNCHANGED <<key, owner, published>>
    BY <2>4 DEF Thread, Lookup, LookupMiss, LookupProbe, LookupFound, LookupPublished, LookupHit,
                Compile, CompileThrows, InsertProbe, InsertLost
  <2>5. CASE Clear  BY <2>5 DEF Clear
  <2> QED  BY <2>1, <2>2, <2>3, <2>4, <2>5 DEF Next
<1> QED  BY <1>1, TraceCacheCorrect, PTL DEF Spec, WriteOnce
=============================================================================
