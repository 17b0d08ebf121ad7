----------------------- MODULE KernelDiskCacheProofs ------------------------
(***************************************************************************)
(* The safety of the kernel disk cache for any number of processes, process *)
(* ids shared in any way, crashes and power losses at any step.             *)
(*                                                                         *)
(* Used ties the kernels a process holds to where it is: whole from the     *)
(* moment they are emitted or have passed load_raw's checks.  From it       *)
(* follows that what is renamed over an entry is whole, and so, without a   *)
(* power loss, that every entry and every file being read is.  That removed *)
(* entries are rebuilt is inductive by itself: a process that removes an    *)
(* entry, by whatever path, is at once about to build and store it.         *)
(***************************************************************************)
EXTENDS KernelDiskCache, TLAPS

Holding == {"create", "write", "rename", "rt", "dlopen", "unlink", "done"}

(* What a process holds is whole.                                           *)
Used ==
  \A p \in Procs :
    /\ pc[p] \in Holding => \A k \in Needs(key[p]) : got[p][k] = "whole"
    /\ (pc[p] \in {"open", "check"} /\ key[p] = "v") => got[p]["s"] = "whole"
    /\ pc[p] \in {"rt", "dlopen", "unlink", "jit"} => key[p] = "c"
    /\ pc[p] = "rename" => tmp[p] = "whole"
    /\ pc[p] = "check" => buf[p] # None

(* Images in .rt are whole.                                                 *)
Images == \A i \in Pids : rt[i] \in {None, "whole"}

(* Files under reading are whole unless the power was lost.                 *)
Reading == ~powerLost => \A p \in Procs : buf[p] \in {None, "whole"}

IInv == TypeOK /\ Used /\ Images /\ PublishedWhole /\ Reading /\ RemovedRebuilt

USE DEF Keys, Content, File

(* Initially nothing exists.                                                *)
LEMMA InitIInv == Init => IInv
  <1> SUFFICES ASSUME Init PROVE IInv
    OBVIOUS
  <1> USE DEF Init
  <1>1. TypeOK
    BY DEF TypeOK, Empty
  <1>2. Used /\ Images /\ PublishedWhole /\ Reading /\ RemovedRebuilt
    BY DEF Used, Images, PublishedWhole, Reading, Holding, RemovedRebuilt
  <1> QED BY <1>1, <1>2 DEF IInv

(* A process id is one of those in use.                                     *)
LEMMA PidType == \A p \in Procs : Pid[p] \in Pids
  BY DEF Pids

(* The steps of loading an entry.                                           *)
LEMMA LoadSteps ==
  ASSUME IInv, NEW p \in Procs,
         \/ \E k \in {"s", "o", "c"} : Request(p, k)
         \/ LoadMiss(p) \/ LoadOpen(p) \/ LoadHit(p) \/ LoadCorrupt(p)
  PROVE  IInv'
  <1> USE NoneAssumption DEF IInv, TypeOK, Used, Images, PublishedWhole, Reading, Goto, Holding, Needs, RemovedRebuilt, Rebuilds
  <1>1. ASSUME NEW k \in {"s", "o", "c"}, Request(p, k) PROVE IInv'
    <2>1. TypeOK' /\ Used' /\ Images' /\ PublishedWhole' /\ Reading'
      BY <1>1 DEF Request
    <2>2. RemovedRebuilt'
      BY <1>1 DEF Request
    <2> QED BY <2>1, <2>2
  <1>2. CASE LoadMiss(p)
    BY <1>2 DEF LoadMiss
  <1>3. CASE LoadOpen(p)
    BY <1>3 DEF LoadOpen
  <1>4. CASE LoadHit(p)
    <2>1. TypeOK' /\ Used' /\ Images' /\ PublishedWhole' /\ Reading'
      BY <1>4 DEF LoadHit, Valid
    <2>2. RemovedRebuilt'
      BY <1>4 DEF LoadHit
    <2> QED BY <2>1, <2>2
  <1>5. CASE LoadCorrupt(p)
    BY <1>5 DEF LoadCorrupt, Valid
  <1> QED BY <1>1, <1>2, <1>3, <1>4, <1>5

(* The steps of compiling and storing.                                      *)
LEMMA StoreSteps ==
  ASSUME IInv, NEW p \in Procs,
         \/ Emit(p) \/ EmitUnlinked(p)
         \/ StoreCreate(p) \/ StoreWrite(p) \/ StoreRename(p) \/ StoreFails(p)
  PROVE  IInv'
  <1> USE NoneAssumption DEF IInv, TypeOK, Used, Images, PublishedWhole, Reading, Goto, Holding, Needs, RemovedRebuilt, Rebuilds
  <1>1. CASE Emit(p)
    BY <1>1 DEF Emit
  <1>2. CASE EmitUnlinked(p)
    BY <1>2 DEF EmitUnlinked
  <1>3. CASE StoreCreate(p)
    BY <1>3 DEF StoreCreate
  <1>4. CASE StoreWrite(p)
    BY <1>4 DEF StoreWrite
  <1>5. CASE StoreRename(p)
    BY <1>5 DEF StoreRename, AfterStore
  <1>6. CASE StoreFails(p)
    BY <1>6 DEF StoreFails, AfterStore
  <1> QED BY <1>1, <1>2, <1>3, <1>4, <1>5, <1>6

(* The steps of loading an image as a library.                              *)
LEMMA LibrarySteps ==
  ASSUME IInv, NEW p \in Procs,
         RtWrite(p) \/ Dlopen(p) \/ RtUnlink(p) \/ LibraryFails(p) \/ Jit(p)
  PROVE  IInv'
  <1> USE NoneAssumption, PidType DEF IInv, TypeOK, Used, Images, PublishedWhole, Reading, Goto, Holding, Needs, RemovedRebuilt, Rebuilds
  <1>1. CASE RtWrite(p)
    <2>1. TypeOK' /\ Used' /\ Images' /\ PublishedWhole' /\ Reading'
      BY <1>1 DEF RtWrite
    <2>2. RemovedRebuilt'
      BY <1>1 DEF RtWrite
    <2> QED BY <2>1, <2>2
  <1>2. CASE Dlopen(p)
    BY <1>2 DEF Dlopen
  <1>3. CASE RtUnlink(p)
    BY <1>3 DEF RtUnlink
  <1>4. CASE LibraryFails(p)
    <2>1. TypeOK' /\ Used' /\ Images' /\ PublishedWhole' /\ Reading'
      BY <1>4 DEF LibraryFails
    <2>2. RemovedRebuilt'
      BY <1>4 DEF LibraryFails
    <2> QED BY <2>1, <2>2
  <1>5. CASE Jit(p)
    BY <1>5 DEF Jit
  <1> QED BY <1>1, <1>2, <1>3, <1>4, <1>5

(* The end of a request, crashes and power losses.                          *)
LEMMA Endings ==
  ASSUME IInv, (\E p \in Procs : JitFails(p) \/ Served(p) \/ Crash(p)) \/ PowerLoss
  PROVE  IInv'
  <1> USE NoneAssumption DEF IInv
  <1>1. ASSUME NEW p \in Procs, JitFails(p) \/ Served(p) \/ Crash(p) PROVE IInv'
    <2>1. Forget({p}) /\ UNCHANGED <<target, rt, powerLost>>
      BY <1>1 DEF JitFails, Served, Crash
    <2>2. /\ kept' \subseteq kept
          /\ \A k \in kept' : target[k] = None => ~Rebuilds(p, k)
      BY <1>1 DEF JitFails, Served, Crash, Rebuilds
    <2>3. TypeOK'
      BY <2>1, <2>2 DEF TypeOK, Forget, Empty
    <2>4. Used'
      BY <2>1 DEF Used, TypeOK, Forget, Holding, Needs
    <2>5. Images' /\ PublishedWhole' /\ Reading'
      BY <2>1 DEF Images, PublishedWhole, Reading, Forget
    <2>6. RemovedRebuilt'
      <3> SUFFICES ASSUME NEW k \in kept', target[k] = None
                   PROVE  \E q \in Procs : Rebuilds(q, k)'
        BY <2>1 DEF RemovedRebuilt
      <3>1. PICK q \in Procs : Rebuilds(q, k)
        BY <2>2 DEF RemovedRebuilt
      <3>2. q # p
        BY <2>2, <3>1
      <3>3. Rebuilds(q, k)'
        BY <2>1, <3>1, <3>2 DEF Rebuilds, Forget
      <3> QED BY <3>3
    <2> QED BY <2>3, <2>4, <2>5, <2>6
  <1>2. CASE PowerLoss
    <2>1. TypeOK'
      <3>1. PICK k \in Keys, f \in {"torn", None} : target' = [target EXCEPT ![k] = f]
        BY <1>2 DEF PowerLoss
      <3>2. target' \in [Keys -> File] /\ kept' \subseteq Keys
        BY <1>2, <3>1 DEF PowerLoss, TypeOK
      <3> QED BY <1>2, <3>2 DEF PowerLoss, TypeOK, Forget, Empty
    <2>2. Used'
      BY <1>2 DEF PowerLoss, Used, Forget, Holding
    <2>3. Images' /\ PublishedWhole' /\ Reading'
      BY <1>2 DEF PowerLoss, Images, PublishedWhole, Reading
    <2>4. RemovedRebuilt'
      BY <1>2 DEF PowerLoss, RemovedRebuilt
    <2> QED BY <2>1, <2>2, <2>3, <2>4
  <1> QED BY <1>1, <1>2

(* Every step keeps the invariant.                                          *)
LEMMA NextIInv == IInv /\ [Next]_vars => IInv'
  <1> SUFFICES ASSUME IInv, [Next]_vars PROVE IInv'
    OBVIOUS
  <1>1. CASE UNCHANGED vars
    BY <1>1 DEF vars, IInv, TypeOK, Used, Images, PublishedWhole, Reading, RemovedRebuilt, Rebuilds
  <1>2. CASE Next
    BY <1>2, LoadSteps, StoreSteps, LibrarySteps, Endings DEF Next, Step
  <1> QED BY <1>1, <1>2

(* The inductive invariant: what a process holds, what it renames and what  *)
(* it reads is whole, with types.                                           *)
THEOREM CacheCorrect == Spec => []IInv
  BY InitIInv, NextIInv, PTL DEF Spec

(* Every variable of the cache keeps its type.                              *)
THEOREM TypeOKHolds == Spec => []TypeOK
  BY CacheCorrect, PTL DEF IInv

(* A request served by load_raw, by the code generators or by both ends     *)
(* with every kernel whole, whatever crashed before.                        *)
THEOREM UsedWholeHolds == Spec => []UsedWhole
  <1>1. IInv => UsedWhole
    BY DEF IInv, Used, UsedWhole, Holding
  <1> QED BY <1>1, CacheCorrect, PTL

(* write_file_atomic never publishes an incomplete entry.                   *)
THEOREM PublishedWholeHolds == Spec => []PublishedWhole
  BY CacheCorrect, PTL DEF IInv

(* Neither load_raw nor compile_or_load_cpu_kernel removes an entry and     *)
(* leaves it at that, whichever process stored it and after power losses    *)
(* too: a stored entry is missing only while a process is about to store it *)
(* again.                                                                   *)
THEOREM RemovedRebuiltHolds == Spec => []RemovedRebuilt
  BY CacheCorrect, PTL DEF IInv
=============================================================================
