--------------------------- MODULE DeviceRegistry ---------------------------
(***************************************************************************)
(* Which backends there are and which device is the default one             *)
(* (src/src/init.cpp, the registration of src/src/dispatch.cpp): init(),    *)
(* set_default_device(), DeviceScope and default_device(), called from      *)
(* several threads.  Each load and store of the shared atomics is a step.   *)
(*                                                                         *)
(* A device is its place in the order of preference: 0 is the CPU, the      *)
(* highest registered one is picked.                                        *)
(***************************************************************************)
EXTENDS Naturals, Sequences, FiniteSets, SequencesExt

CONSTANTS Threads,
          Built,   \* the devices whose backends are compiled in, without the CPU
          Env,     \* the device BROTENSOR_DEFAULT_DEVICE names, or None
          None,
          MaxScopes \* bound: DeviceScopes a thread has open at once

Devices == Built \cup {0}

ASSUME BuiltAssumption == Built \subseteq Nat \ {0} /\ IsFiniteSet(Built)
ASSUME EnvAssumption == Env \in Devices \cup {None} /\ None \notin Nat
ASSUME ThreadsAssumption == None \notin Threads

VARIABLES
  registered,  \* the devices with registered backends
  probed,      \* the backends probed by the init() that is under way or done
  default,     \* global_default()
  setFlag,     \* global_default_set_flag()
  done,        \* init_done_flag()
  lock,        \* who holds init_mutex()
  pc,          \* where each thread is
  want,        \* the device a thread is about to store
  scope,       \* the DeviceScopes of each thread: tls_scope_override is the last
  inited,      \* history: init() has returned to some thread
  chosen,      \* history: the last device set_default_device() stored
  raced        \* history: that call met init() between its test and its store

regVars == <<registered, probed, default, setFlag, done, lock, pc, want, scope,
             inited, chosen, raced>>

Goto(th, label) == pc' = [pc EXCEPT ![th] = label]

RegistryInit ==
  /\ registered = {0}
  /\ probed = {}
  /\ default = 0
  /\ setFlag = FALSE
  /\ done = FALSE
  /\ lock = None
  /\ pc = [th \in Threads |-> "idle"]
  /\ want = [th \in Threads |-> 0]
  /\ scope = [th \in Threads |-> <<>>]
  /\ inited = FALSE
  /\ chosen = None
  /\ raced = FALSE

PickDefaultFromAvailable == Max(registered)

(* The default init() decides on.                                           *)
InitChoice ==
  IF Env # None /\ Env \in registered THEN Env ELSE PickDefaultFromAvailable

-----------------------------------------------------------------------------
(* init(): the fast path, on the flag alone.                                *)
InitFast(th) ==
  /\ pc[th] = "idle"
  /\ done
  /\ inited' = TRUE
  /\ UNCHANGED <<registered, probed, default, setFlag, done, lock, pc, want, scope,
                 chosen, raced>>

InitEnter(th) ==
  /\ pc[th] = "idle"
  /\ ~done
  /\ Goto(th, "lock")
  /\ UNCHANGED <<registered, probed, default, setFlag, done, lock, want, scope,
                 inited, chosen, raced>>

(* Mutant: the flag is not tested again under the mutex.                    *)
InitLockOnce(th) ==
  /\ pc[th] = "lock"
  /\ lock = None
  /\ lock' = th /\ probed' = {} /\ Goto(th, "probe")
  /\ UNCHANGED <<registered, default, setFlag, done, want, scope, inited, chosen, raced>>

(* The mutex is acquired; another thread may have finished meanwhile.       *)
InitLock(th) ==
  /\ pc[th] = "lock"
  /\ lock = None
  /\ IF done THEN Goto(th, "idle") /\ inited' = TRUE /\ UNCHANGED <<lock, probed>>
     ELSE Goto(th, "probe") /\ lock' = th /\ probed' = {} /\ UNCHANGED inited
  /\ UNCHANGED <<registered, default, setFlag, done, want, scope, chosen, raced>>

(* A backend is probed: it registers, or throws and is absent.              *)
InitProbe(th, d) ==
  /\ pc[th] = "probe"
  /\ d \in Built \ probed
  /\ probed' = probed \cup {d}
  /\ registered' \in {registered, registered \cup {d}}
  /\ UNCHANGED <<default, setFlag, done, lock, pc, want, scope, inited, chosen, raced>>

(* Mutant: init() decides even if the client has.                           *)
InitTestAlways(th) ==
  /\ pc[th] = "probe"
  /\ probed = Built
  /\ want' = [want EXCEPT ![th] = InitChoice]
  /\ Goto(th, "store")
  /\ UNCHANGED <<registered, probed, default, setFlag, done, lock, scope, inited, chosen, raced>>

(* Has a default been set?                                                  *)
InitTest(th) ==
  /\ pc[th] = "probe"
  /\ probed = Built
  /\ want' = [want EXCEPT ![th] = InitChoice]
  /\ Goto(th, IF setFlag THEN "publish" ELSE "store")
  /\ raced' = (raced \/ (chosen # None /\ ~setFlag))
  /\ UNCHANGED <<registered, probed, default, setFlag, done, lock, scope, inited, chosen>>

InitStore(th) ==
  /\ pc[th] = "store"
  /\ default' = want[th]
  /\ Goto(th, "flag")
  /\ UNCHANGED <<registered, probed, setFlag, done, lock, want, scope, inited, chosen, raced>>

InitFlag(th) ==
  /\ pc[th] = "flag"
  /\ setFlag' = TRUE
  /\ Goto(th, "publish")
  /\ UNCHANGED <<registered, probed, default, done, lock, want, scope, inited, chosen, raced>>

(* init_done_flag is stored and the mutex released.                         *)
InitPublish(th) ==
  /\ pc[th] = "publish"
  /\ done' = TRUE
  /\ lock' = None
  /\ inited' = TRUE
  /\ want' = [want EXCEPT ![th] = 0]
  /\ Goto(th, "idle")
  /\ UNCHANGED <<registered, probed, default, setFlag, scope, chosen, raced>>

(* Mutant: any device is accepted.                                          *)
SetCheckNone(th, d) ==
  /\ pc[th] = "idle"
  /\ want' = [want EXCEPT ![th] = d]
  /\ Goto(th, "setStore")
  /\ UNCHANGED <<registered, probed, default, setFlag, done, lock, scope, inited, chosen, raced>>

(* set_default_device(d): the check (an unregistered device throws), then   *)
(* the two stores.  The mutex of init() is not taken.                       *)
SetCheck(th, d) ==
  /\ pc[th] = "idle"
  /\ d \in registered
  /\ want' = [want EXCEPT ![th] = d]
  /\ Goto(th, "setStore")
  /\ UNCHANGED <<registered, probed, default, setFlag, done, lock, scope, inited, chosen, raced>>

SetStore(th) ==
  /\ pc[th] = "setStore"
  /\ default' = want[th]
  /\ chosen' = want[th]
  /\ raced' = (\E o \in Threads : pc[o] = "store")
  /\ want' = [want EXCEPT ![th] = 0]
  /\ Goto(th, "setFlag")
  /\ UNCHANGED <<registered, probed, setFlag, done, lock, scope, inited>>

SetFlag(th) ==
  /\ pc[th] = "setFlag"
  /\ setFlag' = TRUE
  /\ Goto(th, "idle")
  /\ UNCHANGED <<registered, probed, default, done, lock, want, scope, inited, chosen, raced>>

(* A DeviceScope is opened, and closed: scopes nest as C++ objects do.      *)
ScopeOpen(th, d) ==
  /\ pc[th] = "idle"
  /\ d \in registered
  /\ Len(scope[th]) < MaxScopes
  /\ scope' = [scope EXCEPT ![th] = Append(@, d)]
  /\ UNCHANGED <<registered, probed, default, setFlag, done, lock, pc, want, inited,
                 chosen, raced>>

ScopeClose(th) ==
  /\ pc[th] = "idle"
  /\ scope[th] # <<>>
  /\ scope' = [scope EXCEPT ![th] = Front(@)]
  /\ UNCHANGED <<registered, probed, default, setFlag, done, lock, pc, want, inited,
                 chosen, raced>>

RegistryNext ==
  \E th \in Threads :
    \/ InitFast(th) \/ InitEnter(th) \/ InitLock(th) \/ InitTest(th)
    \/ InitStore(th) \/ InitFlag(th) \/ InitPublish(th)
    \/ \E d \in Built : InitProbe(th, d)
    \/ \E d \in Devices : SetCheck(th, d) \/ ScopeOpen(th, d)
    \/ SetStore(th) \/ SetFlag(th) \/ ScopeClose(th)

(* default_device().                                                        *)
DefaultDevice(th) ==
  IF scope[th] # <<>> THEN Last(scope[th])
  ELSE IF setFlag THEN default ELSE PickDefaultFromAvailable

-----------------------------------------------------------------------------
(* Types; and no device is the default, or a scope's, whose backend is not  *)
(* registered.                                                              *)
RegistryTypeOK ==
  /\ registered \subseteq Devices /\ probed \subseteq Built
  /\ default \in registered
  /\ setFlag \in BOOLEAN /\ done \in BOOLEAN /\ raced \in BOOLEAN
  /\ lock \in Threads \cup {None}
  /\ pc \in [Threads -> {"idle", "lock", "probe", "store", "flag", "publish",
                         "setStore", "setFlag"}]
  /\ want \in [Threads -> registered]
  /\ scope \in [Threads -> Seq(registered)]
  /\ inited \in BOOLEAN
  /\ chosen \in registered \cup {None}

(* Double-checked locking done right: when init() has returned to a thread, *)
(* by whichever path, every backend has been probed, none is being probed   *)
(* again, and there is a default.                                           *)
InitComplete == inited => done /\ probed = Built /\ setFlag

(* What the client chose stays: after set_default_device(d) every thread    *)
(* without a DeviceScope is given d, until the next such call, even if      *)
(* init() runs later.  Exempt is the call that meets an init() which has    *)
(* found no default and not stored its own yet: that store undoes it.       *)
ExplicitKept ==
  (chosen # None /\ ~raced /\ setFlag) =>
    \A th \in Threads : scope[th] = <<>> => DefaultDevice(th) = chosen
=============================================================================
