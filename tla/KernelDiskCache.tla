-------------------------- MODULE KernelDiskCache ---------------------------
(***************************************************************************)
(* The persistent kernel cache (src/src/jit/kernel_disk_cache.cpp) as seen  *)
(* by several processes sharing one directory, with process crashes at any  *)
(* step and power losses.  A request needs the two kernels "s" and "v" of a *)
(* vectorised Vulkan trace, or the kernel "o" of one that is not            *)
(* (emit_or_load_spirv; the number of lanes is part of the key), or the     *)
(* kernel "c" of a CPU trace (compile_or_load_cpu_kernel).                  *)
(*                                                                         *)
(* A file is "whole", or "torn": too short for its header, or a header over *)
(* a missing or damaged payload.  That size, header and checksum tell the   *)
(* two apart is assumed.  A temporary name holds the process, the thread    *)
(* and a sequence number, so it is the writer's own; what a crash leaves    *)
(* under such a name nobody reads again, and the model forgets it.          *)
(***************************************************************************)
EXTENDS Naturals, FiniteSets

CONSTANTS Procs,
          Pid,      \* process ids; two containers may have the same
          None

ASSUME PidAssumption == DOMAIN Pid = Procs
ASSUME NoneAssumption == None \notin {"torn", "whole"}

VARIABLES
  target,   \* the entries, by key
  tmp,      \* the temporary file a process is writing
  rt,       \* the images .rt/<key>_<pid>_<seq>, by process id
  pc, key,  \* where a process is, and on which key
  buf,      \* the file it has open for reading
  got,      \* the kernels it has
  cached,   \* the image to load came from the cache
  powerLost,\* history: there was a power loss
  kept      \* history: the entries stored, and not given up since

vars == <<target, tmp, rt, pc, key, buf, got, cached, powerLost, kept>>

Keys == {"s", "v", "o", "c"}
Pids == {Pid[p] : p \in Procs}
Content == {"torn", "whole"}
File == Content \cup {None}
Empty == [k \in Keys |-> None]

(* The kernels of the request a key belongs to.                             *)
Needs(k) == IF k \in {"s", "v"} THEN {"s", "v"} ELSE {k}

(* Mutant: the checksum is not compared.                                    *)
ValidHeader(f) == f # None

(* load_raw's checks: size, magic, version, kind and checksum.              *)
Valid(f) == f = "whole"

Init ==
  /\ target = [k \in Keys |-> None]
  /\ tmp = [p \in Procs |-> None]
  /\ rt = [i \in Pids |-> None]
  /\ pc = [p \in Procs |-> "idle"]
  /\ key = [p \in Procs |-> "s"]
  /\ buf = [p \in Procs |-> None]
  /\ got = [p \in Procs |-> Empty]
  /\ cached = [p \in Procs |-> FALSE]
  /\ powerLost = FALSE
  /\ kept = {}

Goto(p, label) == pc' = [pc EXCEPT ![p] = label]

(* A trace needs its kernels: emit_or_load_spirv or                         *)
(* compile_or_load_cpu_kernel is called.                                    *)
Request(p, k) ==
  /\ pc[p] = "idle"
  /\ key' = [key EXCEPT ![p] = k]
  /\ Goto(p, "open")
  /\ UNCHANGED <<target, tmp, rt, buf, got, cached, powerLost, kept>>

(* load_raw finds no entry: a miss.  The kernels are emitted.               *)
LoadMiss(p) ==
  /\ pc[p] = "open"
  /\ target[key[p]] = None
  /\ Goto(p, "emit")
  /\ UNCHANGED <<target, tmp, rt, key, buf, got, cached, powerLost, kept>>

(* load_raw opens the entry; from now on it reads this file, whatever       *)
(* becomes of its name.                                                     *)
LoadOpen(p) ==
  /\ pc[p] = "open"
  /\ target[key[p]] # None
  /\ buf' = [buf EXCEPT ![p] = target[key[p]]]
  /\ Goto(p, "check")
  /\ UNCHANGED <<target, tmp, rt, key, got, cached, powerLost, kept>>

(* A hit.  Of a pair the vector kernel is loaded after the scalar one; a    *)
(* CPU image has to be loaded as a library.                                 *)
LoadHit(p) ==
  /\ pc[p] = "check"
  /\ Valid(buf[p])
  /\ got' = [got EXCEPT ![p][key[p]] = buf[p]]
  /\ buf' = [buf EXCEPT ![p] = None]
  /\ cached' = [cached EXCEPT ![p] = (key[p] = "c")]
  /\ key' = [key EXCEPT ![p] = IF @ = "s" THEN "v" ELSE @]
  /\ Goto(p, CASE key[p] = "s" -> "open" [] key[p] = "c" -> "rt" [] OTHER -> "done")
  /\ UNCHANGED <<target, tmp, rt, powerLost, kept>>

(* Anything else is a corruption: the entry of that name is removed.        *)
LoadCorrupt(p) ==
  /\ pc[p] = "check"
  /\ ~Valid(buf[p])
  /\ target' = [target EXCEPT ![key[p]] = None]
  /\ buf' = [buf EXCEPT ![p] = None]
  /\ Goto(p, "emit")
  /\ UNCHANGED <<tmp, rt, key, got, cached, powerLost, kept>>

(* Mutant: only the kernel that was missing is emitted, and replaces the    *)
(* pair.                                                                    *)
EmitMissing(p) ==
  /\ pc[p] = "emit"
  /\ got' = [got EXCEPT ![p] = [k \in {key[p]} |-> "whole"]]
  /\ cached' = [cached EXCEPT ![p] = FALSE]
  /\ Goto(p, "create")
  /\ UNCHANGED <<target, tmp, rt, key, buf, powerLost, kept>>

(* All the kernels of the trace are compiled, also the one a partial hit    *)
(* found, then stored one by one.                                           *)
Emit(p) ==
  /\ pc[p] = "emit"
  /\ got' = [got EXCEPT ![p] = [k \in Keys |-> IF k \in Needs(key[p]) THEN "whole" ELSE None]]
  /\ cached' = [cached EXCEPT ![p] = FALSE]
  /\ key' = [key EXCEPT ![p] = IF @ = "v" THEN "s" ELSE @]
  /\ Goto(p, "create")
  /\ UNCHANGED <<target, tmp, rt, buf, powerLost, kept>>

(* A CPU module that calls out of itself, or that the linker refuses, has   *)
(* no image: nothing is stored and the in-memory code generator gets it.    *)
EmitUnlinked(p) ==
  /\ pc[p] = "emit"
  /\ key[p] = "c"
  /\ cached' = [cached EXCEPT ![p] = FALSE]
  /\ kept' = IF target["c"] = None THEN kept \ {"c"} ELSE kept
  /\ Goto(p, "jit")
  /\ UNCHANGED <<target, tmp, rt, key, buf, got, powerLost>>

(* What follows the store of a key, done or failed.                         *)
AfterStore(p) ==
  /\ key' = [key EXCEPT ![p] = IF @ = "s" THEN "v" ELSE @]
  /\ Goto(p, CASE key[p] = "s" -> "create" [] key[p] = "c" -> "rt" [] OTHER -> "done")

(* write_file_atomic: the temporary file is created and begins to fill.     *)
StoreCreate(p) ==
  /\ pc[p] = "create"
  /\ tmp' = [tmp EXCEPT ![p] = "torn"]
  /\ Goto(p, "write")
  /\ UNCHANGED <<target, rt, key, buf, got, cached, powerLost, kept>>

(* The rest of the data is written and flushed.                             *)
StoreWrite(p) ==
  /\ pc[p] = "write"
  /\ tmp' = [tmp EXCEPT ![p] = got[p][key[p]]]
  /\ Goto(p, "rename")
  /\ UNCHANGED <<target, rt, key, buf, got, cached, powerLost, kept>>

(* Mutant: the result of the write is not examined before the rename.       *)
StoreRenameUnchecked(p) ==
  /\ pc[p] \in {"write", "rename"}
  /\ target' = [target EXCEPT ![key[p]] = tmp[p]]
  /\ tmp' = [tmp EXCEPT ![p] = None]
  /\ kept' = kept \cup {key[p]}
  /\ AfterStore(p)
  /\ UNCHANGED <<rt, buf, got, cached, powerLost>>

(* The file is renamed over the entry.                                      *)
StoreRename(p) ==
  /\ pc[p] = "rename"
  /\ target' = [target EXCEPT ![key[p]] = tmp[p]]
  /\ tmp' = [tmp EXCEPT ![p] = None]
  /\ kept' = kept \cup {key[p]}
  /\ AfterStore(p)
  /\ UNCHANGED <<rt, buf, got, cached, powerLost>>

(* A directory, open, write or rename error: the temporary file is removed  *)
(* and store_raw returns false, which its callers ignore.                   *)
StoreFails(p) ==
  /\ pc[p] \in {"create", "write", "rename"}
  /\ tmp' = [tmp EXCEPT ![p] = None]
  /\ kept' = IF target[key[p]] = None THEN kept \ {key[p]} ELSE kept
  /\ AfterStore(p)
  /\ UNCHANGED <<target, rt, buf, got, cached, powerLost>>

(* load_shared_lib_bytes: the image is written to .rt, atomically,          *)
RtWrite(p) ==
  /\ pc[p] = "rt"
  /\ rt' = [rt EXCEPT ![Pid[p]] = got[p]["c"]]
  /\ Goto(p, "dlopen")
  /\ UNCHANGED <<target, tmp, key, buf, got, cached, powerLost, kept>>

(* loaded as a library,                                                     *)
Dlopen(p) ==
  /\ pc[p] = "dlopen"
  /\ rt[Pid[p]] # None
  /\ got' = [got EXCEPT ![p]["c"] = rt[Pid[p]]]
  /\ Goto(p, "unlink")
  /\ UNCHANGED <<target, tmp, rt, key, buf, cached, powerLost, kept>>

(* and its file removed.                                                    *)
RtUnlink(p) ==
  /\ pc[p] = "unlink"
  /\ rt' = [rt EXCEPT ![Pid[p]] = None]
  /\ Goto(p, "done")
  /\ UNCHANGED <<target, tmp, key, buf, got, cached, powerLost, kept>>

(* Mutant: an image that does not load sends the request back to the cache. *)
LibraryFailsRetries(p) ==
  /\ pc[p] \in {"rt", "dlopen"}
  /\ rt' = [rt EXCEPT ![Pid[p]] = IF pc[p] = "rt" THEN @ ELSE None]
  /\ Goto(p, IF cached[p] THEN "open" ELSE "jit")
  /\ UNCHANGED <<target, tmp, key, buf, got, cached, powerLost, kept>>

(* Mutant: an image that was just built and stored counts as corrupt too.   *)
LibraryFailsRemoves(p) ==
  /\ pc[p] \in {"rt", "dlopen"}
  /\ rt' = [rt EXCEPT ![Pid[p]] = IF pc[p] = "rt" THEN @ ELSE None]
  /\ target' = [target EXCEPT !["c"] = None]
  /\ Goto(p, IF cached[p] THEN "emit" ELSE "jit")
  /\ UNCHANGED <<tmp, key, buf, got, cached, powerLost, kept>>

(* The write, the load or the symbol lookup fails (the directory may forbid *)
(* execution; another process of the same id may have removed the image).   *)
(* A cached image counts as corrupt: its entry is removed and the kernel    *)
(* built.  After a build the in-memory code generator takes over.           *)
LibraryFails(p) ==
  /\ pc[p] \in {"rt", "dlopen"}
  /\ rt' = [rt EXCEPT ![Pid[p]] = IF pc[p] = "rt" THEN @ ELSE None]
  /\ target' = [target EXCEPT !["c"] = IF cached[p] THEN None ELSE @]
  /\ Goto(p, IF cached[p] THEN "emit" ELSE "jit")
  /\ UNCHANGED <<tmp, key, buf, got, cached, powerLost, kept>>

(* The in-memory code generator compiles the module,                        *)
Jit(p) ==
  /\ pc[p] = "jit"
  /\ got' = [got EXCEPT ![p]["c"] = "whole"]
  /\ Goto(p, "done")
  /\ UNCHANGED <<target, tmp, rt, key, buf, cached, powerLost, kept>>

(* What a process holds when it holds nothing.                              *)
Forget(ps) ==
  /\ pc' = [p \in Procs |-> IF p \in ps THEN "idle" ELSE pc[p]]
  /\ key' = [p \in Procs |-> IF p \in ps THEN "s" ELSE key[p]]
  /\ buf' = [p \in Procs |-> IF p \in ps THEN None ELSE buf[p]]
  /\ got' = [p \in Procs |-> IF p \in ps THEN Empty ELSE got[p]]
  /\ cached' = [p \in Procs |-> IF p \in ps THEN FALSE ELSE cached[p]]
  /\ tmp' = [p \in Procs |-> IF p \in ps THEN None ELSE tmp[p]]

(* or fails: the request returns nullptr and its caller throws.             *)
JitFails(p) == pc[p] = "jit" /\ Forget({p}) /\ UNCHANGED <<target, rt, powerLost, kept>>

(* The caller has its kernels.                                              *)
Served(p) == pc[p] = "done" /\ Forget({p}) /\ UNCHANGED <<target, rt, powerLost, kept>>

Step(p) ==
  \/ LoadMiss(p) \/ LoadOpen(p) \/ LoadHit(p) \/ LoadCorrupt(p)
  \/ Emit(p) \/ EmitUnlinked(p) \/ StoreCreate(p) \/ StoreWrite(p) \/ StoreRename(p) \/ StoreFails(p)
  \/ RtWrite(p) \/ Dlopen(p) \/ RtUnlink(p) \/ LibraryFails(p)
  \/ Jit(p) \/ JitFails(p) \/ Served(p)

(* A process at "emit" or storing will store all kernels of its request, or *)
(* those left.                                                              *)
Rebuilds(p, k) ==
  \/ pc[p] = "emit" /\ k \in Needs(key[p])
  \/ pc[p] \in {"create", "write", "rename"} /\ (k = key[p] \/ (k = "v" /\ key[p] = "s"))

(* A process is killed and, later, started again; the files stay.           *)
Crash(p) ==
  /\ pc[p] # "idle"
  /\ Forget({p})
  /\ kept' = {k \in kept : Rebuilds(p, k) => target[k] # None}
  /\ UNCHANGED <<target, rt, powerLost>>

(* Nothing is synced: in a power loss an entry may lose its data or its     *)
(* name.  A loss that takes several is several in a row; one that takes     *)
(* none is a crash of every process.                                        *)
PowerLoss ==
  /\ Forget(Procs)
  /\ \E k \in Keys, f \in {"torn", None} :
       /\ target[k] # None
       /\ target' = [target EXCEPT ![k] = f]
  /\ kept' = {k \in kept : target'[k] # None}
  /\ powerLost' = TRUE
  /\ UNCHANGED rt

Next ==
  \/ \E p \in Procs : Step(p) \/ Crash(p) \/ \E k \in {"s", "o", "c"} : Request(p, k)
  \/ PowerLoss

Spec == Init /\ [][Next]_vars
FairSpec == Spec /\ \A p \in Procs : WF_vars(Step(p))

-----------------------------------------------------------------------------
(* Every variable has its type: every file is torn or whole.              *)
TypeOK ==
  /\ target \in [Keys -> File]
  /\ tmp \in [Procs -> File]
  /\ rt \in [Pids -> File]
  /\ pc \in [Procs -> {"idle", "open", "check", "emit", "create", "write", "rename",
                       "rt", "dlopen", "unlink", "jit", "done"}]
  /\ key \in [Procs -> Keys]
  /\ buf \in [Procs -> File]
  /\ got \in [Procs -> [Keys -> File]]
  /\ cached \in [Procs -> BOOLEAN]
  /\ powerLost \in BOOLEAN
  /\ kept \subseteq Keys

(* Whatever crashes, fails or runs beside it, a process ends a request with *)
(* every kernel it asked for, whole: never a torn file, half a file, or one *)
(* kernel of the pair.                                                      *)
UsedWhole ==
  \A p \in Procs : pc[p] = "done" => \A k \in Needs(key[p]) : got[p][k] = "whole"

(* Short of a power loss no entry is ever incomplete, at any moment another *)
(* process may look.                                                        *)
PublishedWhole ==
  ~powerLost => \A k \in Keys : target[k] \in {None, "whole"}

(* The cache heals itself.  load_raw removes a corrupt entry by its path,   *)
(* and so does compile_or_load_cpu_kernel when an image does not load: the  *)
(* file that goes may be the good one another process has just renamed      *)
(* there, after a power loss too, or one whose image a process of the same  *)
(* id took away.  Still an entry that was stored is missing only while some *)
(* process is about to store it again, unless a store failed, the linker    *)
(* refused, or a crash or a power loss took it: nobody removes an entry and *)
(* leaves it at that.                                                       *)
RemovedRebuilt ==
  \A k \in kept : target[k] = None => \E p \in Procs : Rebuilds(p, k)

(* Every request comes to an end, with its kernels or with the process.     *)
RequestsEnd == \A p \in Procs : (pc[p] # "idle") ~> (pc[p] = "idle")
=============================================================================
