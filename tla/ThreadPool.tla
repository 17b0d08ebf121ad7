------------------------------ MODULE ThreadPool ------------------------------
(***************************************************************************)
(* The CPU backend's lock-free thread pool (src/cpu/thread_pool.cpp): one  *)
(* calling thread hands run(n, fn) to the workers and drains indices with  *)
(* them.  Each atomic access is an action.  std::atomic::wait is two: a    *)
(* thread that finds the old value goes to sleep, and from then on only a  *)
(* notify_all wakes it, to look again.  The release increments of          *)
(* generation_ and the acq_rel decrements of outstanding_ order the plain  *)
(* and relaxed accesses to fn_, n_ and cursor_ between them, so            *)
(* sequentially consistent steps are enough.                               *)
(*                                                                         *)
(* As the header asks, one thread calls run() and shutdown().  fn may call *)
(* run() again (a nested call); it does not throw.                         *)
(***************************************************************************)
EXTENDS Naturals, FiniteSets

CONSTANTS
    Workers,         \* the worker threads
    Caller,          \* the thread that calls run() and shutdown()
    MaxN,            \* bound: indices of a job
    MaxRuns,         \* bound: calls of run() that are not nested
    MaxShutdowns     \* bound: calls of shutdown()

ASSUME WorkersAssumption == IsFiniteSet(Workers) /\ Caller \notin Workers
ASSUME BoundsAssumption == {MaxN, MaxRuns, MaxShutdowns} \subseteq Nat

VARIABLES
    workers_, fn_, n_, cursor_, outstanding_, generation_, shutdown_,
    t_active,    \* per thread: the thread_local flag
    pc,          \* per thread: where it is
    seen,        \* per worker: the generation it last took up
    index,       \* per thread: the index it calls fn with
    rem,         \* the count the caller waits to see change
    nested,      \* the threads whose fn has made a nested call
    job, size,   \* history: the number of the last job, and how many indices it has
    ran,         \* history: how often fn has returned for each index of that job
    shutdowns    \* calls of shutdown() so far

poolVars == <<workers_, fn_, n_, cursor_, outstanding_, generation_, shutdown_>>
vars == <<poolVars, t_active, pc, seen, index, rem, nested, job, size, ran, shutdowns>>

Procs == Workers \cup {Caller}

Indices == 0 .. MaxN - 1

\* workers_ is filled by the constructor; fn_ holds the number of the job it points to.
Init ==
    /\ workers_ = Workers
    /\ fn_ = 0 /\ n_ = 0 /\ cursor_ = 0 /\ outstanding_ = 0 /\ generation_ = 0
    /\ shutdown_ = FALSE
    /\ t_active = [p \in Procs |-> FALSE]
    /\ pc = [p \in Procs |-> IF p = Caller THEN "idle" ELSE "wait"]
    /\ seen = [w \in Workers |-> 0]
    /\ index = [p \in Procs |-> 0]
    /\ rem = 0
    /\ nested = {}
    /\ job = 0 /\ size = 0
    /\ ran = [i \in Indices |-> 0]
    /\ shutdowns = 0

Goto(p, from, to) == pc[p] = from /\ pc' = [pc EXCEPT ![p] = to]

-----------------------------------------------------------------------------
(***************************************************************************)
(* run(n, fn).                                                             *)
(***************************************************************************)

\* The cases run() answers with a plain loop on the calling thread.
Sequential(p, n) == t_active[p] \/ workers_ = {} \/ n = 1

Run(n) ==
    /\ pc[Caller] = "idle"
    /\ job < MaxRuns
    /\ job' = job + 1
    /\ size' = n
    /\ IF Sequential(Caller, n)
       THEN /\ ran' = [i \in Indices |-> IF i < n THEN 1 ELSE 0]
            /\ UNCHANGED <<fn_, n_, pc>>
       ELSE /\ ran' = [i \in Indices |-> 0]
            /\ fn_' = job'
            /\ n_' = n
            /\ Goto(Caller, "idle", "cursor")
    /\ UNCHANGED <<workers_, cursor_, outstanding_, generation_, shutdown_, t_active, seen, index,
                   rem, nested, shutdowns>>

\* fn, on any thread, calls run(n, ...).  The other branch would begin a job inside a job;
\* it is shown as far as the publication of that job.
NestedRun(p, n) ==
    /\ pc[p] = "fn" /\ p \notin nested
    /\ nested' = nested \cup {p}
    /\ IF Sequential(p, n) THEN UNCHANGED poolVars
       ELSE /\ fn_' = 0 /\ n_' = n /\ cursor_' = 0
            /\ outstanding_' = Cardinality(workers_)
            /\ generation_' = generation_ + 1
            /\ UNCHANGED <<workers_, shutdown_>>
    /\ UNCHANGED <<t_active, pc, seen, index, rem, job, size, ran, shutdowns>>

StoreCursor ==
    /\ Goto(Caller, "cursor", "outstanding")
    /\ cursor_' = 0
    /\ UNCHANGED <<workers_, fn_, n_, outstanding_, generation_, shutdown_, t_active, seen, index,
                   rem, nested, job, size, ran, shutdowns>>

\* Mutant: one worker too few is counted.
StoreOutstandingFewer ==
    /\ Goto(Caller, "outstanding", "publish")
    /\ outstanding_' = Cardinality(workers_) - 1
    /\ UNCHANGED <<workers_, fn_, n_, cursor_, generation_, shutdown_, t_active, seen, index,
                   rem, nested, job, size, ran, shutdowns>>

StoreOutstanding ==
    /\ Goto(Caller, "outstanding", "publish")
    /\ outstanding_' = Cardinality(workers_)
    /\ UNCHANGED <<workers_, fn_, n_, cursor_, generation_, shutdown_, t_active, seen, index,
                   rem, nested, job, size, ran, shutdowns>>

\* generation_.fetch_add, by run() and by shutdown().
Bump(from, to) ==
    /\ Goto(Caller, from, to)
    /\ generation_' = generation_ + 1
    /\ UNCHANGED <<workers_, fn_, n_, cursor_, outstanding_, shutdown_, t_active, seen, index,
                   rem, nested, job, size, ran, shutdowns>>

\* generation_.notify_all: the sleeping workers look again.
WakeWorkers(from, to) ==
    /\ pc[Caller] = from
    /\ pc' = [p \in Procs |-> IF p = Caller THEN to
                              ELSE IF pc[p] = "asleep" THEN "wait" ELSE pc[p]]

Publish == Bump("publish", "notify")

\* Mutant: the caller does not mark itself as draining.
NotifyInactive ==
    /\ WakeWorkers("notify", "claim")
    /\ UNCHANGED <<poolVars, t_active, seen, index, rem, nested, job, size, ran, shutdowns>>

NotifyWorkers ==
    /\ WakeWorkers("notify", "claim")
    /\ t_active' = [t_active EXCEPT ![Caller] = TRUE]
    /\ UNCHANGED <<poolVars, seen, index, rem, nested, job, size, ran, shutdowns>>

-----------------------------------------------------------------------------
(***************************************************************************)
(* Draining the job, by the caller and the workers alike.                  *)
(***************************************************************************)

Claim(p) ==
    /\ cursor_' = cursor_ + 1
    /\ IF cursor_ < n_
       THEN /\ Goto(p, "claim", "fn")
            /\ index' = [index EXCEPT ![p] = cursor_]
            /\ UNCHANGED t_active
       ELSE /\ Goto(p, "claim", IF p = Caller THEN "join" ELSE "finish")
            /\ t_active' = [t_active EXCEPT ![p] = FALSE]
            /\ UNCHANGED index
    /\ UNCHANGED <<workers_, fn_, n_, outstanding_, generation_, shutdown_, seen, rem, nested,
                   job, size, ran, shutdowns>>

\* fn(i) returns.
CallReturns(p) ==
    /\ Goto(p, "fn", "claim")
    /\ ran' = [ran EXCEPT ![index[p]] = @ + 1]
    /\ nested' = nested \ {p}
    /\ UNCHANGED <<poolVars, t_active, seen, index, rem, job, size, shutdowns>>

-----------------------------------------------------------------------------
(***************************************************************************)
(* The caller waits for the workers.                                       *)
(***************************************************************************)

\* Mutant: the caller does not wait for the workers.
JoinUnwaited ==
    /\ Goto(Caller, "join", "idle")
    /\ UNCHANGED <<poolVars, t_active, seen, index, rem, nested, job, size, ran, shutdowns>>

Join ==
    /\ Goto(Caller, "join", IF outstanding_ = 0 THEN "idle" ELSE "join_wait")
    /\ rem' = outstanding_
    /\ UNCHANGED <<poolVars, t_active, seen, index, nested, job, size, ran, shutdowns>>

JoinWait ==
    /\ Goto(Caller, "join_wait", IF outstanding_ # rem THEN "join" ELSE "join_asleep")
    /\ UNCHANGED <<poolVars, t_active, seen, index, rem, nested, job, size, ran, shutdowns>>

-----------------------------------------------------------------------------
(***************************************************************************)
(* worker_loop.                                                            *)
(***************************************************************************)

WorkerWait(w) ==
    /\ Goto(w, "wait", IF generation_ # seen[w] THEN "load" ELSE "asleep")
    /\ UNCHANGED <<poolVars, t_active, seen, index, rem, nested, job, size, ran, shutdowns>>

WorkerLoad(w) ==
    /\ Goto(w, "load", "check")
    /\ seen' = [seen EXCEPT ![w] = generation_]
    /\ UNCHANGED <<poolVars, t_active, index, rem, nested, job, size, ran, shutdowns>>

WorkerCheck(w) ==
    /\ Goto(w, "check", IF shutdown_ THEN "exit" ELSE "claim")
    /\ t_active' = [t_active EXCEPT ![w] = ~shutdown_]
    /\ UNCHANGED <<poolVars, seen, index, rem, nested, job, size, ran, shutdowns>>

\* Mutant: the value after the decrement is taken for the one before.
WorkerFinishUnnotified(w) ==
    /\ outstanding_' = outstanding_ - 1
    /\ Goto(w, "finish", IF outstanding_ = 0 THEN "notify" ELSE "wait")
    /\ UNCHANGED <<workers_, fn_, n_, cursor_, generation_, shutdown_, t_active, seen, index,
                   rem, nested, job, size, ran, shutdowns>>

\* outstanding_.fetch_sub; the last worker then notifies.
WorkerFinish(w) ==
    /\ outstanding_' = outstanding_ - 1
    /\ Goto(w, "finish", IF outstanding_ = 1 THEN "notify" ELSE "wait")
    /\ UNCHANGED <<workers_, fn_, n_, cursor_, generation_, shutdown_, t_active, seen, index,
                   rem, nested, job, size, ran, shutdowns>>

WorkerNotify(w) ==
    /\ pc[w] = "notify"
    /\ pc' = [pc EXCEPT ![w] = "wait",
                        ![Caller] = IF @ = "join_asleep" THEN "join_wait" ELSE @]
    /\ UNCHANGED <<poolVars, t_active, seen, index, rem, nested, job, size, ran, shutdowns>>

-----------------------------------------------------------------------------
(***************************************************************************)
(* shutdown().                                                             *)
(***************************************************************************)

Shutdown ==
    /\ Goto(Caller, "idle", "stop")
    /\ shutdowns < MaxShutdowns
    /\ shutdowns' = shutdowns + 1
    /\ shutdown_' = TRUE
    /\ UNCHANGED <<workers_, fn_, n_, cursor_, outstanding_, generation_, t_active, seen, index,
                   rem, nested, job, size, ran>>

ShutdownBump == Bump("stop", "stop_notify")

ShutdownNotify ==
    /\ WakeWorkers("stop_notify", "stop_join")
    /\ UNCHANGED <<poolVars, t_active, seen, index, rem, nested, job, size, ran, shutdowns>>

ShutdownJoin ==
    /\ Goto(Caller, "stop_join", "idle")
    /\ \A w \in workers_ : pc[w] = "exit"
    /\ workers_' = {}
    /\ UNCHANGED <<fn_, n_, cursor_, outstanding_, generation_, shutdown_, t_active, seen, index,
                   rem, nested, job, size, ran, shutdowns>>

-----------------------------------------------------------------------------

Drain(p) == Claim(p) \/ CallReturns(p)

CallerStep ==
    \/ StoreCursor \/ StoreOutstanding \/ Publish \/ NotifyWorkers
    \/ Drain(Caller) \/ Join \/ JoinWait
    \/ ShutdownBump \/ ShutdownNotify \/ ShutdownJoin

WorkerStep(w) ==
    \/ WorkerWait(w) \/ WorkerLoad(w) \/ WorkerCheck(w)
    \/ Drain(w) \/ WorkerFinish(w) \/ WorkerNotify(w)

Next ==
    \/ \E n \in 1 .. MaxN : Run(n) \/ \E p \in Procs : NestedRun(p, n)
    \/ Shutdown
    \/ CallerStep
    \/ \E w \in Workers : WorkerStep(w)

Spec == Init /\ [][Next]_vars

\* The operating system schedules every thread, and fn terminates.
FairSpec ==
    /\ Spec
    /\ WF_vars(CallerStep)
    /\ \A w \in Workers : WF_vars(WorkerStep(w))

-----------------------------------------------------------------------------
(***************************************************************************)
(* Properties.                                                             *)
(***************************************************************************)

CallerPoints == {"idle", "cursor", "outstanding", "publish", "notify", "claim", "fn",
                 "join", "join_wait", "join_asleep", "stop", "stop_notify", "stop_join"}
WorkerPoints == {"wait", "asleep", "load", "check", "claim", "fn", "finish", "notify", "exit"}

\* The type of the state.
TypeOK ==
    /\ workers_ \in {Workers, {}}
    /\ fn_ \in Nat /\ n_ \in 0 .. MaxN /\ cursor_ \in Nat /\ outstanding_ \in Nat
    /\ generation_ \in Nat /\ shutdown_ \in BOOLEAN
    /\ t_active \in [Procs -> BOOLEAN]
    /\ pc \in [Procs -> CallerPoints \cup WorkerPoints]
    /\ pc[Caller] \in CallerPoints /\ \A w \in Workers : pc[w] \in WorkerPoints
    /\ seen \in [Workers -> Nat]
    /\ index \in [Procs -> Nat]
    /\ rem \in Nat
    /\ nested \subseteq Procs
    /\ job \in 0 .. MaxRuns /\ size \in 0 .. MaxN
    /\ ran \in [Indices -> Nat]
    /\ shutdowns \in 0 .. MaxShutdowns

\* run() "blocks the calling thread until fn(i) has run for every i in [0, n)": each index
\* runs once, whoever claims it, and all have run when run() returns.
EachIndexOnce ==
    /\ \A i \in Indices : ran[i] <= 1
    /\ pc[Caller] = "idle" => \A i \in Indices : i < size => ran[i] = 1

\* Job state is "valid only while a run() call is outstanding": a worker reads cursor_, n_
\* and fn_, and calls fn, only between the job's publication and the return of its run().
JobStillRunning ==
    \A w \in Workers : pc[w] \in {"claim", "fn"} =>
        /\ pc[Caller] \in {"notify", "claim", "fn", "join", "join_wait", "join_asleep"}
        /\ fn_ = job /\ n_ = size

\* run() and shutdown() return: no wake-up is lost and no worker leaves without counting down.
CallsReturn == pc[Caller] # "idle" ~> pc[Caller] = "idle"

-----------------------------------------------------------------------------
(***************************************************************************)
(* What makes them inductive.                                              *)
(***************************************************************************)

SetupPoints == {"cursor", "outstanding", "publish"}
RunPoints == {"notify", "claim", "fn", "join", "join_wait", "join_asleep"}
StopPoints == {"stop", "stop_notify", "stop_join"}

\* The workers that have yet to count down for the generation that is published.
Draining == {w \in Workers : seen[w] # generation_ \/ pc[w] \in {"check", "claim", "fn", "finish"}}

\* Workers exit, and workers_ is emptied, only by shutdown(), outside a run().
Lifetime ==
    /\ ~shutdown_ =>
          /\ workers_ = Workers
          /\ pc[Caller] \notin StopPoints
          /\ \A w \in Workers : pc[w] # "exit"
    /\ shutdown_ =>
          /\ pc[Caller] \in {"idle"} \cup StopPoints
          /\ pc[Caller] = "idle" => workers_ = {}
          /\ \A w \in Workers : pc[w] \notin {"claim", "fn", "finish"}

\* Between two jobs no worker is draining; in one, outstanding_ counts those that are.
Counted ==
    /\ pc[Caller] \in {"idle"} \cup SetupPoints /\ ~shutdown_ => Draining = {}
    /\ pc[Caller] = "publish" => outstanding_ = Cardinality(Workers)
    /\ pc[Caller] \in RunPoints => outstanding_ = Cardinality(Draining)

Generations ==
    \A w \in Workers :
        /\ seen[w] <= generation_
        /\ pc[w] = "load" => seen[w] # generation_
        /\ ~shutdown_ /\ pc[w] \in {"check", "claim", "fn", "finish"} => seen[w] = generation_

\* Whoever is draining makes nested calls sequential.
Active == \A p \in Procs : pc[p] \in {"claim", "fn"} => t_active[p]

\* The job the pool holds is the one that is being run.
JobHeld == pc[Caller] \in SetupPoints \cup RunPoints => fn_ = job /\ n_ = size

\* An index is in the hands of one thread, until its call returns.
InHand ==
    /\ \A p \in Procs : pc[p] = "fn" => index[p] < cursor_ /\ index[p] < n_ /\ ran[index[p]] = 0
    /\ \A p, q \in Procs : pc[p] = "fn" /\ pc[q] = "fn" /\ index[p] = index[q] => p = q

Claimed(i) == \E p \in Procs : pc[p] = "fn" /\ index[p] = i

\* Of a job's indices those below cursor_ have been run or are in hand, the others not yet.
Progress ==
    /\ \A i \in Indices : ran[i] <= 1
    /\ pc[Caller] = "cursor" => \A i \in Indices : ran[i] = 0
    /\ pc[Caller] \in {"outstanding", "publish"} => cursor_ = 0
    /\ pc[Caller] \in {"outstanding", "publish"} \cup RunPoints =>
          \A i \in Indices : i < n_ =>
              /\ i >= cursor_ => ran[i] = 0
              /\ i < cursor_ => ran[i] = 1 \/ Claimed(i)
    /\ pc[Caller] \in {"join", "join_wait", "join_asleep"} => cursor_ >= n_
    /\ pc[Caller] \in {"idle"} \cup StopPoints => \A i \in Indices : i < size => ran[i] = 1

IInv == TypeOK /\ Lifetime /\ Counted /\ Generations /\ Active
        /\ JobHeld /\ InHand /\ Progress
=============================================================================
