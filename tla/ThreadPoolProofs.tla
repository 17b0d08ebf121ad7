--------------------------- MODULE ThreadPoolProofs ---------------------------
(***************************************************************************)
(* ThreadPool's safety for any number of workers, runs and indices.  The   *)
(* argument: outstanding_ is the number of workers that have yet to count  *)
(* down for the published generation (Counted), so when the caller sees 0  *)
(* none of them can touch the job any more; and each index below cursor_   *)
(* has been run once or is in the hands of one thread (Indexed), so when   *)
(* the last thread has left, all have been run.                            *)
(***************************************************************************)
EXTENDS ThreadPool, FiniteSetTheorems, TLAPS

\* Counting the workers still draining.
LEMMA DrainingFacts ==
    ASSUME NEW D, D \subseteq Workers
    PROVE  /\ Cardinality(D) \in Nat
           /\ Cardinality(D) = 0 <=> D = {}
           /\ \A w \in D : Cardinality(D \ {w}) = Cardinality(D) - 1
<1>1. IsFiniteSet(D)  BY FS_Subset, WorkersAssumption
<1> QED  BY <1>1, FS_EmptySet, FS_CardinalityType, FS_RemoveElement

\* A step between two points on the same side of a worker's count-down does not change who
\* is draining.
LEMMA SameDraining ==
    ASSUME UNCHANGED <<generation_, seen>>,
           \A w \in Workers : pc'[w] \in {"check", "claim", "fn", "finish"}
                                <=> pc[w] \in {"check", "claim", "fn", "finish"}
    PROVE  Draining' = Draining
BY DEF Draining

\* The caller is none of the workers.
LEMMA CallerApart == Caller \in Procs /\ Workers \subseteq Procs /\ Caller \notin Workers
BY WorkersAssumption DEF Procs

\* The bounds are numbers.
LEMMA BoundsNat == MaxN \in Nat /\ MaxRuns \in Nat /\ MaxShutdowns \in Nat
BY BoundsAssumption

\* Whoever is draining does so between the publication of a job and the return of its run().
LEMMA Working ==
    ASSUME IInv, NEW p \in Procs, pc[p] \in {"claim", "fn", "finish"}
    PROVE  ~shutdown_ /\ pc[Caller] \in RunPoints
<1> USE CallerApart DEF IInv
<1>1. CASE p = Caller
  BY <1>1 DEF TypeOK, Lifetime, CallerPoints, RunPoints, StopPoints
<1>2. CASE p \in Workers
  <2>1. ~shutdown_ /\ p \in Draining  BY <1>2 DEF Lifetime, Draining
  <2> QED  BY <2>1 DEF TypeOK, Lifetime, Counted, CallerPoints, SetupPoints, RunPoints, StopPoints
<1> QED  BY <1>1, <1>2 DEF Procs

-----------------------------------------------------------------------------
(***************************************************************************)
(* What each action preserves.                                             *)
(***************************************************************************)

\* The constructor leaves the pool with no job and nobody draining.
LEMMA InitIInv == Init => IInv
<1> SUFFICES ASSUME Init PROVE IInv  OBVIOUS
<1> USE CallerApart, BoundsNat DEF Init
<1>1. TypeOK
  <2>1. pc \in [Procs -> CallerPoints \cup WorkerPoints]  BY DEF CallerPoints, WorkerPoints
  <2>2. pc[Caller] \in CallerPoints /\ \A w \in Workers : pc[w] \in WorkerPoints
    BY DEF CallerPoints, WorkerPoints
  <2>3. t_active \in [Procs -> BOOLEAN] /\ shutdown_ \in BOOLEAN  BY Zenon
  <2> QED  BY <2>1, <2>2, <2>3 DEF TypeOK
<1>2. Lifetime  BY DEF Lifetime, StopPoints
<1>3. Draining = {}  BY DEF Draining
<1>4. Counted  BY <1>3 DEF Counted, SetupPoints, RunPoints
<1>5. Generations  BY DEF Generations
<1>6. Active  BY DEF Active, Procs
<1>7. JobHeld /\ InHand /\ Progress
  BY DEF JobHeld, InHand, Progress, Claimed, SetupPoints, RunPoints, StopPoints, Procs, Indices
<1> QED  BY <1>1, <1>2, <1>4, <1>5, <1>6, <1>7 DEF IInv

\* run() begins, or runs, a job when the last one is over: nobody has an index in hand.
LEMMA RunStep ==
    ASSUME IInv, NEW n \in 1 .. MaxN, Run(n)
    PROVE  IInv'
<1> USE CallerApart, BoundsNat DEF IInv, Run, Goto
<1>0. \A p \in Procs : pc[p] # "fn"  BY Working DEF RunPoints
<1>1. TypeOK'
  <2>1. ran' \in [Indices -> Nat]  BY DEF Indices
  <2>2. pc' \in [Procs -> CallerPoints \cup WorkerPoints]  BY DEF TypeOK, CallerPoints
  <2>3. pc'[Caller] \in CallerPoints /\ \A w \in Workers : pc'[w] \in WorkerPoints
    BY DEF TypeOK, CallerPoints
  <2>4. job' \in 0 .. MaxRuns /\ size' \in 0 .. MaxN  BY DEF TypeOK
  <2> QED  BY <2>1, <2>2, <2>3, <2>4 DEF TypeOK
<1>2. Lifetime'  BY DEF TypeOK, Lifetime, StopPoints, Sequential
<1>3. Draining' = Draining  BY SameDraining DEF TypeOK
<1>4. Counted'  BY <1>3 DEF TypeOK, Lifetime, Counted, SetupPoints, RunPoints, StopPoints
<1>5. Generations'  BY DEF TypeOK, Generations
<1>6. Active'  BY DEF TypeOK, Active, Procs
<1>7. JobHeld'  BY DEF TypeOK, JobHeld, SetupPoints, RunPoints
<1>8. InHand'
  <2>1. \A p \in Procs : pc'[p] # "fn"  BY <1>0 DEF TypeOK
  <2> QED  BY <2>1 DEF InHand
<1>9. Progress'
  <2>1. CASE Sequential(Caller, n)
    <3>1. pc'[Caller] = "idle" /\ \A i \in Indices : ran'[i] = IF i < n THEN 1 ELSE 0
      BY <2>1
    <3> QED  BY <3>1 DEF Progress, RunPoints
  <2>2. CASE ~Sequential(Caller, n)
    BY <2>2 DEF TypeOK, Progress, RunPoints, StopPoints, Indices
  <2> QED  BY <2>1, <2>2
<1> QED  BY <1>1, <1>2, <1>4, <1>5, <1>6, <1>7, <1>8, <1>9

\* A nested call finds t_active set and leaves the shared job state alone.
LEMMA NestedRunStep ==
    ASSUME IInv, NEW p \in Procs, NEW n \in 1 .. MaxN, NestedRun(p, n)
    PROVE  IInv'
<1> USE DEF IInv
<1>1. Sequential(p, n)  BY DEF NestedRun, Active, Sequential
<1>2. UNCHANGED <<poolVars, t_active, pc, seen, index, rem, job, size, ran, shutdowns>>
  BY <1>1 DEF NestedRun
<1>3. nested' \subseteq Procs  BY DEF NestedRun, TypeOK
<1>4. TypeOK'  BY <1>2, <1>3 DEF TypeOK, poolVars
<1>5. Lifetime' /\ Counted' /\ Generations' /\ Active'
  BY <1>2 DEF Lifetime, Counted, Draining, Generations, Active, poolVars
<1>6. JobHeld' /\ InHand' /\ Progress'
  BY <1>2 DEF JobHeld, InHand, Progress, Claimed, poolVars
<1> QED  BY <1>4, <1>5, <1>6

\* run() resets cursor_ while nobody is draining.
LEMMA StoreCursorStep ==
    ASSUME IInv, StoreCursor
    PROVE  IInv'
<1> USE CallerApart, BoundsNat DEF IInv, StoreCursor, Goto
<1>0. \A p \in Procs : pc[p] # "fn"  BY Working DEF RunPoints
<1>1. TypeOK'  BY DEF TypeOK, CallerPoints, WorkerPoints, Indices
<1>2. Lifetime'  BY DEF TypeOK, Lifetime, StopPoints
<1>3. Draining' = Draining  BY SameDraining DEF TypeOK
<1>4. Counted'  BY <1>3 DEF TypeOK, Lifetime, Counted, SetupPoints, RunPoints, StopPoints
<1>5. Generations'  BY DEF TypeOK, Generations
<1>6. Active'  BY DEF TypeOK, Active, Procs
<1>7. JobHeld'  BY DEF TypeOK, JobHeld, SetupPoints, RunPoints
<1>8. InHand'
  <2>1. \A p \in Procs : pc'[p] # "fn"  BY <1>0 DEF TypeOK
  <2> QED  BY <2>1 DEF InHand
<1>9. Progress'  BY DEF TypeOK, Progress, Claimed, SetupPoints, RunPoints, StopPoints, Indices
<1> QED  BY <1>1, <1>2, <1>4, <1>5, <1>6, <1>7, <1>8, <1>9

\* run() sets the count to the number of workers.
LEMMA StoreOutstandingStep ==
    ASSUME IInv, StoreOutstanding
    PROVE  IInv'
<1> USE CallerApart, BoundsNat DEF IInv, StoreOutstanding, Goto
<1>1. TypeOK'
  <2>1. workers_ \subseteq Workers  BY DEF TypeOK
  <2>2. Cardinality(workers_) \in Nat  BY <2>1, DrainingFacts
  <2> QED  BY <2>2 DEF TypeOK, CallerPoints, WorkerPoints, Indices
<1>2. Lifetime'  BY DEF TypeOK, Lifetime, StopPoints
<1>3. Draining' = Draining  BY SameDraining DEF TypeOK
<1>4. Counted'  BY <1>3 DEF TypeOK, Lifetime, Counted, SetupPoints, RunPoints, StopPoints
<1>5. Generations'  BY DEF TypeOK, Generations
<1>6. Active'  BY DEF TypeOK, Active, Procs
<1>7. JobHeld'  BY DEF TypeOK, JobHeld, SetupPoints, RunPoints
<1>8. InHand'  BY DEF TypeOK, InHand
<1>9. Progress'  BY DEF TypeOK, Progress, Claimed, SetupPoints, RunPoints, StopPoints, Indices
<1> QED  BY <1>1, <1>2, <1>4, <1>5, <1>6, <1>7, <1>8, <1>9

\* The new generation makes every worker one that has yet to count down.
LEMMA PublishStep ==
    ASSUME IInv, Publish
    PROVE  IInv'
<1> USE CallerApart, BoundsNat DEF IInv, Publish, Bump, Goto
<1>0. ~shutdown_ /\ Draining = {}
  BY DEF Lifetime, Counted, SetupPoints, StopPoints
<1>1. TypeOK'  BY DEF TypeOK, CallerPoints, WorkerPoints, Indices
<1>2. Lifetime'  BY DEF TypeOK, Lifetime, StopPoints
<1>4. Counted'
  <2>1. Draining' = Workers  BY DEF Draining, Generations, TypeOK
  <2> QED  BY <1>0, <2>1 DEF Counted, TypeOK, SetupPoints, RunPoints
<1>5. Generations'  BY <1>0 DEF TypeOK, Generations, Draining
<1>6. Active'  BY DEF TypeOK, Active, Procs
<1>7. JobHeld'  BY DEF TypeOK, JobHeld, SetupPoints, RunPoints
<1>8. InHand'  BY DEF TypeOK, InHand
<1>9. Progress'  BY DEF TypeOK, Progress, Claimed, SetupPoints, RunPoints, StopPoints, Indices
<1> QED  BY <1>1, <1>2, <1>4, <1>5, <1>6, <1>7, <1>8, <1>9

\* Waking the workers changes neither the count nor the indices.
LEMMA NotifyWorkersStep ==
    ASSUME IInv, NotifyWorkers
    PROVE  IInv'
<1> USE CallerApart, BoundsNat DEF IInv, NotifyWorkers, WakeWorkers, poolVars
<1>1. TypeOK'  BY DEF TypeOK, CallerPoints, WorkerPoints, Indices
<1>2. Lifetime'  BY DEF TypeOK, Lifetime, StopPoints
<1>3. Draining' = Draining  BY SameDraining DEF TypeOK
<1>4. Counted'  BY <1>3 DEF TypeOK, Lifetime, Counted, SetupPoints, RunPoints, StopPoints
<1>5. Generations'  BY DEF TypeOK, Generations
<1>6. Active'  BY DEF TypeOK, Active, Procs
<1>7. JobHeld'  BY DEF TypeOK, JobHeld, SetupPoints, RunPoints
<1>8. InHand'  BY DEF TypeOK, InHand
<1>9. Progress'  BY DEF TypeOK, Progress, Claimed, SetupPoints, RunPoints, StopPoints, Indices
<1> QED  BY <1>1, <1>2, <1>4, <1>5, <1>6, <1>7, <1>8, <1>9

\* fetch_add gives an index to one thread, and past n_ the thread leaves.
LEMMA ClaimStep ==
    ASSUME IInv, NEW p \in Procs, Claim(p)
    PROVE  IInv'
<1> USE CallerApart, BoundsNat DEF IInv, Claim, Goto
<1>0. ~shutdown_ /\ pc[Caller] \in RunPoints  BY Working
<1>1. TypeOK'
  <2>1. pc' \in [Procs -> CallerPoints \cup WorkerPoints]
    BY DEF TypeOK, CallerPoints, WorkerPoints
  <2>2. pc'[Caller] \in CallerPoints /\ \A w \in Workers : pc'[w] \in WorkerPoints
    BY DEF TypeOK, CallerPoints, WorkerPoints
  <2>3. cursor_' \in Nat /\ index' \in [Procs -> Nat]  BY DEF TypeOK
  <2>4. t_active' \in [Procs -> BOOLEAN]  BY Zenon DEF TypeOK
  <2> QED  BY <2>1, <2>2, <2>3, <2>4 DEF TypeOK
<1>2. Lifetime'  BY DEF TypeOK, Lifetime, StopPoints
<1>3. Draining' = Draining  BY SameDraining DEF TypeOK
<1>4. Counted'  BY <1>3 DEF TypeOK, Lifetime, Counted, SetupPoints, RunPoints, StopPoints
<1>5. Generations'  BY DEF TypeOK, Generations
<1>6. Active'  BY DEF TypeOK, Active, Procs
<1>7. JobHeld'  BY DEF TypeOK, JobHeld, SetupPoints, RunPoints
<1>8. InHand'
  <2>1. CASE cursor_ < n_
    <3>1. cursor_ \in Indices /\ ran[cursor_] = 0  BY <1>0, <2>1 DEF TypeOK, Progress, Indices
    <3>2. \A q \in Procs : q # p => pc'[q] = pc[q] /\ index'[q] = index[q]
      BY <2>1 DEF TypeOK
    <3>3. index'[p] = cursor_  BY <2>1 DEF TypeOK
    <3>4. \A q \in Procs : pc[q] = "fn" => index[q] < cursor_  BY DEF InHand
    <3> QED  BY <2>1, <3>1, <3>2, <3>3, <3>4 DEF TypeOK, InHand
  <2>2. CASE ~(cursor_ < n_)
    BY <2>2 DEF TypeOK, InHand
  <2> QED  BY <2>1, <2>2
<1>9. Progress'
  <2>1. \A i \in Indices : i < n_ /\ i < cursor_ => ran[i] = 1 \/ Claimed(i)'
    BY <1>0 DEF TypeOK, Progress, Claimed
  <2>2. \A i \in Indices : i < n_ /\ i = cursor_ => Claimed(i)'
    BY DEF TypeOK, Claimed
  <2>3. \A i \in Indices : i < n_ /\ i >= cursor_ => ran[i] = 0  BY <1>0 DEF Progress
  <2>4. \A i \in Indices : i < n_ =>
           (i >= cursor_ + 1 => ran[i] = 0) /\ (i < cursor_ + 1 => ran[i] = 1 \/ Claimed(i)')
    BY <2>1, <2>2, <2>3 DEF TypeOK, Indices
  <2>5. pc'[Caller] \in {"join", "join_wait", "join_asleep"} => cursor_ + 1 >= n_
    BY DEF TypeOK, Progress
  <2>6. pc'[Caller] \in RunPoints  BY <1>0 DEF TypeOK, RunPoints
  <2> QED  BY <2>4, <2>5, <2>6 DEF Progress, RunPoints, StopPoints
<1> QED  BY <1>1, <1>2, <1>4, <1>5, <1>6, <1>7, <1>8, <1>9

\* An index in hand becomes an index that has been run.
LEMMA CallReturnsStep ==
    ASSUME IInv, NEW p \in Procs, CallReturns(p)
    PROVE  IInv'
<1> USE CallerApart, BoundsNat DEF IInv, CallReturns, Goto, poolVars
<1>0. /\ pc[Caller] \in RunPoints /\ pc'[Caller] \in RunPoints
      /\ index[p] \in Indices /\ index[p] < n_ /\ index[p] < cursor_ /\ ran[index[p]] = 0
  <2>1. pc[Caller] \in RunPoints  BY Working
  <2> QED  BY <2>1 DEF TypeOK, InHand, Indices, RunPoints
<1>1. TypeOK'
  <2>1. ran' \in [Indices -> Nat]  BY <1>0 DEF TypeOK
  <2> QED  BY <2>1 DEF TypeOK, CallerPoints, WorkerPoints
<1>2. Lifetime'  BY DEF TypeOK, Lifetime, StopPoints
<1>3. Draining' = Draining  BY SameDraining DEF TypeOK
<1>4. Counted'  BY <1>3 DEF TypeOK, Lifetime, Counted, SetupPoints, RunPoints, StopPoints
<1>5. Generations'  BY DEF TypeOK, Generations
<1>6. Active'  BY DEF TypeOK, Active, Procs
<1>7. JobHeld'  BY DEF TypeOK, JobHeld, SetupPoints, RunPoints
<1>8. InHand'  BY <1>0 DEF TypeOK, InHand
<1>9. Progress'
  <2>1. \A i \in Indices : ran'[i] = IF i = index[p] THEN 1 ELSE ran[i]
    BY <1>0 DEF TypeOK
  <2>2. \A i \in Indices : i # index[p] /\ Claimed(i) => Claimed(i)'
    BY DEF TypeOK, Claimed
  <2>3. \A i \in Indices : i < n_ =>
           (i >= cursor_ => ran'[i] = 0) /\ (i < cursor_ => ran'[i] = 1 \/ Claimed(i)')
    BY <1>0, <2>1, <2>2, SMTT(30) DEF TypeOK, Progress, Indices
  <2>4. \A i \in Indices : ran'[i] <= 1  BY <2>1 DEF Progress
  <2>5. pc'[Caller] \in {"join", "join_wait", "join_asleep"} => cursor_ >= n_
    BY DEF TypeOK, Progress
  <2> QED  BY <1>0, <2>3, <2>4, <2>5 DEF Progress, RunPoints, StopPoints
<1> QED  BY <1>1, <1>2, <1>4, <1>5, <1>6, <1>7, <1>8, <1>9

\* Seeing 0, the caller knows that nobody is draining, so every index has been run.
LEMMA JoinStep ==
    ASSUME IInv, Join
    PROVE  IInv'
<1> USE CallerApart, BoundsNat DEF IInv, Join, Goto, poolVars
<1>1. TypeOK'  BY DEF TypeOK, CallerPoints, WorkerPoints, Indices
<1>2. Lifetime'  BY DEF TypeOK, Lifetime, StopPoints
<1>3. Draining' = Draining  BY SameDraining DEF TypeOK
<1>4. Counted'
  <2>1. Draining \subseteq Workers  BY DEF Draining
  <2>2. Cardinality(Draining) = 0 => Draining = {}  BY <2>1, DrainingFacts
  <2> QED  BY <1>3, <2>2 DEF TypeOK, Lifetime, Counted, SetupPoints, RunPoints
<1>5. Generations'  BY DEF TypeOK, Generations
<1>6. Active'  BY DEF TypeOK, Active, Procs
<1>7. JobHeld'  BY DEF TypeOK, JobHeld, SetupPoints, RunPoints
<1>8. InHand'  BY DEF TypeOK, InHand
<1>9. Progress'
  <2>1. pc[Caller] \in RunPoints /\ pc[Caller] # "fn" /\ cursor_ >= n_ /\ n_ = size
    BY DEF Progress, JobHeld, RunPoints
  <2>2. CASE outstanding_ = 0
    <3>1. Draining = {}
      <4>1. Draining \subseteq Workers  BY DEF Draining
      <4> QED  BY <2>1, <2>2, <4>1, DrainingFacts DEF Counted
    <3>2. \A p \in Procs : pc[p] # "fn"  BY <2>1, <3>1 DEF Draining, Procs
    <3>3. \A i \in Indices : i < n_ => ran[i] = 1
      BY <2>1, <3>2 DEF TypeOK, Progress, Claimed, Indices
    <3> QED  BY <2>1, <2>2, <3>3 DEF TypeOK, Progress, RunPoints, StopPoints
  <2>3. CASE outstanding_ # 0
    BY <2>1, <2>3 DEF TypeOK, Progress, Claimed, RunPoints, StopPoints
  <2> QED  BY <2>2, <2>3
<1> QED  BY <1>1, <1>2, <1>4, <1>5, <1>6, <1>7, <1>8, <1>9

\* Waiting for the count to change changes nothing else.
LEMMA JoinWaitStep ==
    ASSUME IInv, JoinWait
    PROVE  IInv'
<1> USE CallerApart, BoundsNat DEF IInv, JoinWait, Goto, poolVars
<1>1. TypeOK'  BY DEF TypeOK, CallerPoints, WorkerPoints, Indices
<1>2. Lifetime'  BY DEF TypeOK, Lifetime, StopPoints
<1>3. Draining' = Draining  BY SameDraining DEF TypeOK
<1>4. Counted'  BY <1>3 DEF TypeOK, Lifetime, Counted, SetupPoints, RunPoints, StopPoints
<1>5. Generations'  BY DEF TypeOK, Generations
<1>6. Active'  BY DEF TypeOK, Active, Procs
<1>7. JobHeld'  BY DEF TypeOK, JobHeld, SetupPoints, RunPoints
<1>8. InHand'  BY DEF TypeOK, InHand
<1>9. Progress'  BY DEF TypeOK, Progress, Claimed, SetupPoints, RunPoints, StopPoints, Indices
<1> QED  BY <1>1, <1>2, <1>4, <1>5, <1>6, <1>7, <1>8, <1>9

\* A worker that waits is on the same side of its count-down.
LEMMA WorkerWaitStep ==
    ASSUME IInv, NEW w \in Workers, WorkerWait(w)
    PROVE  IInv'
<1> USE CallerApart, BoundsNat DEF IInv, WorkerWait, Goto, poolVars
<1>1. TypeOK'  BY DEF TypeOK, CallerPoints, WorkerPoints, Indices
<1>2. Lifetime'  BY DEF TypeOK, Lifetime, StopPoints
<1>3. Draining' = Draining
  <2>1. \A v \in Workers : pc'[v] \in {"check", "claim", "fn", "finish"}
                               <=> pc[v] \in {"check", "claim", "fn", "finish"}
    BY DEF TypeOK
  <2> QED  BY <2>1, SameDraining
<1>4. Counted'  BY <1>3 DEF TypeOK, Lifetime, Counted, SetupPoints, RunPoints, StopPoints
<1>5. Generations'  BY DEF TypeOK, Generations
<1>6. Active'  BY DEF TypeOK, Active, Procs
<1>7. JobHeld'  BY DEF TypeOK, JobHeld, SetupPoints, RunPoints
<1>8. InHand'  BY DEF TypeOK, InHand
<1>9. Progress'  BY DEF TypeOK, Progress, Claimed, SetupPoints, RunPoints, StopPoints, Indices
<1> QED  BY <1>1, <1>2, <1>4, <1>5, <1>6, <1>7, <1>8, <1>9

\* A worker takes up the published generation, and is still draining.
LEMMA WorkerLoadStep ==
    ASSUME IInv, NEW w \in Workers, WorkerLoad(w)
    PROVE  IInv'
<1> USE CallerApart, BoundsNat DEF IInv, WorkerLoad, Goto, poolVars
<1>1. TypeOK'  BY DEF TypeOK, CallerPoints, WorkerPoints, Indices
<1>2. Lifetime'  BY DEF TypeOK, Lifetime, StopPoints
<1>3. Draining' = Draining  BY DEF Draining, Generations, TypeOK
<1>4. Counted'  BY <1>3 DEF TypeOK, Lifetime, Counted, SetupPoints, RunPoints, StopPoints
<1>5. Generations'  BY DEF TypeOK, Generations
<1>6. Active'  BY DEF TypeOK, Active, Procs
<1>7. JobHeld'  BY DEF TypeOK, JobHeld, SetupPoints, RunPoints
<1>8. InHand'  BY DEF TypeOK, InHand
<1>9. Progress'  BY DEF TypeOK, Progress, Claimed, SetupPoints, RunPoints, StopPoints, Indices
<1> QED  BY <1>1, <1>2, <1>4, <1>5, <1>6, <1>7, <1>8, <1>9

\* A worker joins the job, or exits when the pool is shut down.
LEMMA WorkerCheckStep ==
    ASSUME IInv, NEW w \in Workers, WorkerCheck(w)
    PROVE  IInv'
<1> USE CallerApart, BoundsNat DEF IInv, WorkerCheck, Goto, poolVars
<1>1. TypeOK'  BY DEF TypeOK, CallerPoints, WorkerPoints, Indices
<1>2. Lifetime'  BY DEF TypeOK, Lifetime, StopPoints
<1>4. Counted'
  <2>1. CASE shutdown_
    <3>1. pc'[Caller] = pc[Caller]  BY DEF TypeOK
    <3> QED  BY <2>1, <3>1 DEF Lifetime, Counted, SetupPoints, RunPoints, StopPoints
  <2>2. CASE ~shutdown_
    <3>1. Draining' = Draining  BY <2>2 DEF Draining, TypeOK
    <3> QED  BY <2>2, <3>1 DEF TypeOK, Counted
  <2> QED  BY <2>1, <2>2
<1>5. Generations'  BY DEF TypeOK, Generations
<1>6. Active'  BY DEF TypeOK, Active, Procs
<1>7. JobHeld'  BY DEF TypeOK, JobHeld, SetupPoints, RunPoints
<1>8. InHand'  BY DEF TypeOK, InHand
<1>9. Progress'  BY DEF TypeOK, Progress, Claimed, SetupPoints, RunPoints, StopPoints, Indices
<1> QED  BY <1>1, <1>2, <1>4, <1>5, <1>6, <1>7, <1>8, <1>9

\* The count-down takes one worker from those draining and one from outstanding_.
LEMMA WorkerFinishStep ==
    ASSUME IInv, NEW w \in Workers, WorkerFinish(w)
    PROVE  IInv'
<1> USE CallerApart, BoundsNat DEF IInv, WorkerFinish, Goto
<1>0. /\ ~shutdown_ /\ w \in Draining /\ pc[Caller] \in RunPoints
      /\ outstanding_ = Cardinality(Draining) /\ outstanding_ > 0
  <2>1. w \in Draining  BY DEF Draining
  <2>2. ~shutdown_ /\ pc[Caller] \in RunPoints  BY Working
  <2>3. Draining \subseteq Workers  BY DEF Draining
  <2>4. Cardinality(Draining) \in Nat \ {0}  BY <2>1, <2>3, DrainingFacts
  <2> QED  BY <2>1, <2>2, <2>4 DEF Counted
<1>1. TypeOK'  BY <1>0 DEF TypeOK, CallerPoints, WorkerPoints, Indices
<1>2. Lifetime'  BY DEF TypeOK, Lifetime, StopPoints
<1>4. Counted'
  <2>1. Draining' = Draining \ {w}  BY <1>0 DEF Draining, Generations, TypeOK
  <2>2. Draining \subseteq Workers  BY DEF Draining
  <2>3. Cardinality(Draining \ {w}) = Cardinality(Draining) - 1  BY <1>0, <2>2, DrainingFacts
  <2>4. pc'[Caller] = pc[Caller]  BY DEF TypeOK
  <2> QED  BY <1>0, <2>1, <2>3, <2>4 DEF Counted, SetupPoints, RunPoints
<1>5. Generations'  BY DEF TypeOK, Generations
<1>6. Active'  BY DEF TypeOK, Active, Procs
<1>7. JobHeld'  BY DEF TypeOK, JobHeld, SetupPoints, RunPoints
<1>8. InHand'  BY DEF TypeOK, InHand
<1>9. Progress'  BY DEF TypeOK, Progress, Claimed, SetupPoints, RunPoints, StopPoints, Indices
<1> QED  BY <1>1, <1>2, <1>4, <1>5, <1>6, <1>7, <1>8, <1>9

\* The notification only wakes the caller.
LEMMA WorkerNotifyStep ==
    ASSUME IInv, NEW w \in Workers, WorkerNotify(w)
    PROVE  IInv'
<1> USE CallerApart, BoundsNat DEF IInv, WorkerNotify, poolVars
<1>1. TypeOK'  BY DEF TypeOK, CallerPoints, WorkerPoints, Indices
<1>2. Lifetime'  BY DEF TypeOK, Lifetime, StopPoints
<1>3. Draining' = Draining  BY SameDraining DEF TypeOK
<1>4. Counted'  BY <1>3 DEF TypeOK, Lifetime, Counted, SetupPoints, RunPoints, StopPoints
<1>5. Generations'  BY DEF TypeOK, Generations
<1>6. Active'  BY DEF TypeOK, Active, Procs
<1>7. JobHeld'  BY DEF TypeOK, JobHeld, SetupPoints, RunPoints
<1>8. InHand'  BY DEF TypeOK, InHand
<1>9. Progress'  BY DEF TypeOK, Progress, Claimed, SetupPoints, RunPoints, StopPoints, Indices
<1> QED  BY <1>1, <1>2, <1>4, <1>5, <1>6, <1>7, <1>8, <1>9

\* shutdown() is called when nobody is draining.
LEMMA ShutdownStep ==
    ASSUME IInv, Shutdown
    PROVE  IInv'
<1> USE CallerApart, BoundsNat DEF IInv, Shutdown, Goto
<1>1. TypeOK'  BY DEF TypeOK, CallerPoints, WorkerPoints, Indices
<1>2. Lifetime'  BY DEF TypeOK, Lifetime, StopPoints, Counted, Draining
<1>3. Draining' = Draining  BY SameDraining DEF TypeOK
<1>4. Counted'  BY <1>3 DEF TypeOK, Lifetime, Counted, SetupPoints, RunPoints, StopPoints
<1>5. Generations'  BY DEF TypeOK, Generations
<1>6. Active'  BY DEF TypeOK, Active, Procs
<1>7. JobHeld'  BY DEF TypeOK, JobHeld, SetupPoints, RunPoints
<1>8. InHand'  BY DEF TypeOK, InHand
<1>9. Progress'  BY DEF TypeOK, Progress, Claimed, SetupPoints, RunPoints, StopPoints, Indices
<1> QED  BY <1>1, <1>2, <1>4, <1>5, <1>6, <1>7, <1>8, <1>9

\* The generation of a shutdown publishes no job.
LEMMA ShutdownBumpStep ==
    ASSUME IInv, ShutdownBump
    PROVE  IInv'
<1> USE CallerApart, BoundsNat DEF IInv, ShutdownBump, Bump, Goto
<1>0. shutdown_  BY DEF Lifetime, StopPoints
<1>1. TypeOK'  BY DEF TypeOK, CallerPoints, WorkerPoints, Indices
<1>2. Lifetime'  BY DEF TypeOK, Lifetime, StopPoints
<1>4. Counted'  BY <1>0 DEF TypeOK, Counted, RunPoints
<1>5. Generations'  BY <1>0 DEF TypeOK, Generations
<1>6. Active'  BY DEF TypeOK, Active, Procs
<1>7. JobHeld'  BY DEF TypeOK, JobHeld, SetupPoints, RunPoints
<1>8. InHand'  BY DEF TypeOK, InHand
<1>9. Progress'  BY DEF TypeOK, Progress, Claimed, SetupPoints, RunPoints, StopPoints, Indices
<1> QED  BY <1>1, <1>2, <1>4, <1>5, <1>6, <1>7, <1>8, <1>9

\* The sleeping workers are woken to exit.
LEMMA ShutdownNotifyStep ==
    ASSUME IInv, ShutdownNotify
    PROVE  IInv'
<1> USE CallerApart, BoundsNat DEF IInv, ShutdownNotify, WakeWorkers, poolVars
<1>1. TypeOK'  BY DEF TypeOK, CallerPoints, WorkerPoints, Indices
<1>2. Lifetime'  BY DEF TypeOK, Lifetime, StopPoints
<1>3. Draining' = Draining  BY SameDraining DEF TypeOK
<1>4. Counted'  BY <1>3 DEF TypeOK, Lifetime, Counted, SetupPoints, RunPoints, StopPoints
<1>5. Generations'  BY DEF TypeOK, Generations
<1>6. Active'  BY DEF TypeOK, Active, Procs
<1>7. JobHeld'  BY DEF TypeOK, JobHeld, SetupPoints, RunPoints
<1>8. InHand'  BY DEF TypeOK, InHand
<1>9. Progress'  BY DEF TypeOK, Progress, Claimed, SetupPoints, RunPoints, StopPoints, Indices
<1> QED  BY <1>1, <1>2, <1>4, <1>5, <1>6, <1>7, <1>8, <1>9

\* workers_ is emptied for good.
LEMMA ShutdownJoinStep ==
    ASSUME IInv, ShutdownJoin
    PROVE  IInv'
<1> USE CallerApart, BoundsNat DEF IInv, ShutdownJoin, Goto
<1>1. TypeOK'  BY DEF TypeOK, CallerPoints, WorkerPoints, Indices
<1>2. Lifetime'  BY DEF TypeOK, Lifetime, StopPoints
<1>3. Draining' = Draining  BY SameDraining DEF TypeOK
<1>4. Counted'  BY <1>3 DEF TypeOK, Lifetime, Counted, SetupPoints, RunPoints, StopPoints
<1>5. Generations'  BY DEF TypeOK, Generations
<1>6. Active'  BY DEF TypeOK, Active, Procs
<1>7. JobHeld'  BY DEF TypeOK, JobHeld, SetupPoints, RunPoints
<1>8. InHand'  BY DEF TypeOK, InHand
<1>9. Progress'  BY DEF TypeOK, Progress, Claimed, SetupPoints, RunPoints, StopPoints, Indices
<1> QED  BY <1>1, <1>2, <1>4, <1>5, <1>6, <1>7, <1>8, <1>9

-----------------------------------------------------------------------------

\* A step of any thread preserves the invariant.
LEMMA NextIInv == IInv /\ [Next]_vars => IInv'
<1> SUFFICES ASSUME IInv, [Next]_vars PROVE IInv'  OBVIOUS
<1>1. ASSUME NEW n \in 1 .. MaxN, Run(n) PROVE IInv'  BY <1>1, RunStep
<1>2. ASSUME NEW n \in 1 .. MaxN, NEW p \in Procs, NestedRun(p, n) PROVE IInv'
  BY <1>2, NestedRunStep
<1>3. CASE Shutdown  BY <1>3, ShutdownStep
<1>4. CASE CallerStep
  BY <1>4, CallerApart, StoreCursorStep, StoreOutstandingStep, PublishStep, NotifyWorkersStep,
     ClaimStep, CallReturnsStep, JoinStep, JoinWaitStep, ShutdownBumpStep, ShutdownNotifyStep,
     ShutdownJoinStep DEF CallerStep, Drain
<1>5. ASSUME NEW w \in Workers, WorkerStep(w) PROVE IInv'
  BY <1>5, CallerApart, WorkerWaitStep, WorkerLoadStep, WorkerCheckStep, ClaimStep,
     CallReturnsStep, WorkerFinishStep, WorkerNotifyStep DEF WorkerStep, Drain
<1>6. CASE UNCHANGED vars
  <2> USE <1>6 DEF vars, poolVars, IInv
  <2>1. TypeOK'  BY DEF TypeOK
  <2>2. Lifetime' /\ Counted' /\ Generations' /\ Active'
    BY DEF Lifetime, Counted, Draining, Generations, Active
  <2>3. JobHeld' /\ InHand' /\ Progress'  BY DEF JobHeld, InHand, Progress, Claimed
  <2> QED  BY <2>1, <2>2, <2>3
<1> QED  BY <1>1, <1>2, <1>3, <1>4, <1>5, <1>6 DEF Next

\* The pool's counters, generations and indices agree in every reachable state, whatever the
\* number of workers (src/cpu/thread_pool.cpp: run, worker_loop, shutdown).
THEOREM PoolCorrect == Spec => []IInv
<1>1. Init => IInv  BY InitIInv
<1>2. IInv /\ [Next]_vars => IInv'  BY NextIInv
<1> QED  BY <1>1, <1>2, PTL DEF Spec

\* The pool keeps its types: no counter goes below zero (outstanding_, cursor_, rem) and a
\* job is never larger than the run() that published it.
THEOREM PoolTypes == Spec => []TypeOK
<1>1. IInv => TypeOK  BY DEF IInv
<1> QED  BY <1>1, PoolCorrect, PTL

\* Each index of a job is run once, and all have been run when run() returns.
THEOREM EachIndexOnceHolds == Spec => []EachIndexOnce
<1>1. IInv => EachIndexOnce  BY DEF IInv, Progress, EachIndexOnce
<1> QED  BY <1>1, PoolCorrect, PTL

\* No worker reads cursor_, n_ or fn_, or is in fn, once run() has returned.
THEOREM JobStillRunningHolds == Spec => []JobStillRunning
<1>1. IInv => JobStillRunning
  <2> SUFFICES ASSUME IInv, NEW w \in Workers, pc[w] \in {"claim", "fn"}
               PROVE  pc[Caller] \in RunPoints /\ fn_ = job /\ n_ = size
    BY DEF JobStillRunning, RunPoints
  <2>1. pc[Caller] \in RunPoints  BY CallerApart, Working
  <2> QED  BY <2>1 DEF IInv, JobHeld
<1> QED  BY <1>1, PoolCorrect, PTL
===============================================================================
