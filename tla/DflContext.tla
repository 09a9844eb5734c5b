----------------------------- MODULE DflContext -----------------------------
(***************************************************************************)
(* The process-wide udev context of libdfl (_udev_ctx) and its recursive   *)
(* mutex (_udev_ctx_lock), used by threads calling the API concurrently.   *)
(*                                                                         *)
(* The context is a generation number: ctx = 0 is NULL, every successful   *)
(* udev_new creates the next generation and udev_unref in dfl_finalize     *)
(* retires it from live.  A device handle remembers the generation it was  *)
(* opened from, and staleUse records that a handle was used after its      *)
(* generation was released.  The mutex is an owner and a depth.           *)
(*                                                                         *)
(* A step is one run of code between two lock operations, or one unlocked  *)
(* use of a handle: what happens inside a locked region is atomic to the   *)
(* other threads, which can only take unlocked steps meanwhile.            *)
(***************************************************************************)
EXTENDS Integers, FiniteSets

CONSTANTS
  Threads,    \* application threads calling libdfl
  NoThread,   \* owner of the free mutex
  MaxGen,     \* udev contexts udev_new can create in a run
  DevCount    \* dfl-fme / dfl-port devices udev_enumerate lists

VARIABLES
  ctx,       \* _udev_ctx: 0 (NULL) or a generation
  gen,       \* the last generation udev_new created
  live,      \* generations not yet released by udev_unref
  owner,     \* thread holding _udev_ctx_lock, or NoThread
  depth,     \* its recursion count
  pc,        \* pc[t]: where thread t is
  hctx,      \* the context t's current handle or scan was made from
  idx,       \* dfl_device_enum: devices constructed so far
  batchOk,   \* dfl_device_enum: no construction has failed
  rec,       \* generations of the dfl_device lists t holds
  nullOk,    \* the libudev build accepts a NULL context
  staleUse   \* a handle was used after its context was released

vars == <<ctx, gen, live, owner, depth, pc, hctx, idx, batchOk, rec,
          nullOk, staleUse>>

Gens == 0..MaxGen
PCs  == {"idle", "n_open", "n_walk", "e_new", "e_done"}

-----------------------------------------------------------------------------
(* dfl_mutex_lock / dfl_mutex_unlock on the PTHREAD_RECURSIVE mutex.        *)

CanLock(t) == owner \in {NoThread, t}
Lock(t)    == owner' = t /\ depth' = depth + 1
Unlock(t)  == owner' = (IF depth = 1 THEN NoThread ELSE t) /\ depth' = depth - 1
KeepLock   == UNCHANGED <<owner, depth>>

\* A udev call given _udev_ctx: it fails on NULL unless the build's
\* libudev ignores the context argument.
CtxUsable == ctx # 0 \/ nullOk

\* An unlocked use of a handle opened from generation g.
Use(g) == staleUse' = (staleUse \/ (g # 0 /\ g \notin live))

Start(t) == pc[t] = "idle"

-----------------------------------------------------------------------------
Init ==
  /\ ctx = 0 /\ gen = 0 /\ live = {}
  /\ owner = NoThread /\ depth = 0
  /\ pc = [t \in Threads |-> "idle"]
  /\ hctx = [t \in Threads |-> 0]
  /\ idx = [t \in Threads |-> 0]
  /\ batchOk = [t \in Threads |-> TRUE]
  /\ rec = [t \in Threads |-> {}]
  /\ nullOk \in BOOLEAN
  /\ staleUse = FALSE

\* dfl_initialize as it would be without the check for an existing context.
InitializeAlways(t) ==
  /\ Start(t) /\ CanLock(t) /\ (ctx # 0 \/ gen < MaxGen)
  /\ \E ok \in BOOLEAN :
       /\ ctx' = IF ok THEN gen + 1 ELSE ctx
       /\ gen' = IF ok THEN gen + 1 ELSE gen
       /\ live' = IF ok THEN live \cup {gen + 1} ELSE live
  /\ UNCHANGED <<owner, depth, pc, hctx, idx, batchOk, rec, nullOk, staleUse>>

\* dfl_initialize: under the lock, create the context if there is none;
\* udev_new may fail.  Not reference counted.
Initialize(t) ==
  /\ Start(t) /\ CanLock(t) /\ (ctx # 0 \/ gen < MaxGen)
  /\ IF ctx = 0
     THEN \E ok \in BOOLEAN :
            /\ ctx' = IF ok THEN gen + 1 ELSE 0
            /\ gen' = IF ok THEN gen + 1 ELSE gen
            /\ live' = IF ok THEN live \cup {gen + 1} ELSE live
     ELSE UNCHANGED <<ctx, gen, live>>
  /\ UNCHANGED <<owner, depth, pc, hctx, idx, batchOk, rec, nullOk, staleUse>>

\* dfl_finalize without the lock around it.
FinalizeUnlocked(t) ==
  /\ Start(t)
  /\ ctx' = 0 /\ live' = live \ {ctx}
  /\ UNCHANGED <<gen, owner, depth, pc, hctx, idx, batchOk, rec, nullOk, staleUse>>

\* dfl_finalize: under the lock, udev_unref the context and set it to NULL.
Finalize(t) ==
  /\ Start(t) /\ CanLock(t)
  /\ ctx' = 0 /\ live' = live \ {ctx}
  /\ UNCHANGED <<gen, owner, depth, pc, hctx, idx, batchOk, rec, nullOk, staleUse>>

\* dfl_device_new, called by the application, or by dfl_device_get_parent
\* and dfl_device_clone after their unlocked first half.
DeviceNew(t) ==
  /\ Start(t)
  /\ pc' = [pc EXCEPT ![t] = "n_open"]
  /\ UNCHANGED <<ctx, gen, live, owner, depth, hctx, idx, batchOk, rec, nullOk, staleUse>>

\* dfl_device_get_parent: the region's syspath is read from a held record
\* and its directory listed without the lock; a port with an FME entry goes
\* on to dfl_device_new, anything else returns NULL.  Both reads touch only
\* the record's own udev_device, never _udev_ctx, so this is no use of a
\* context.
GetParent(t) ==
  /\ Start(t)
  /\ rec[t] # {}
  /\ \E found \in BOOLEAN : pc' = [pc EXCEPT ![t] = IF found THEN "n_open" ELSE "idle"]
  /\ UNCHANGED <<ctx, gen, live, owner, depth, hctx, idx, batchOk, rec, nullOk, staleUse>>

\* dfl_device_clone: the syspath of a held record's own udev_device, then
\* dfl_device_new.
Clone(t) ==
  /\ Start(t)
  /\ rec[t] # {}
  /\ pc' = [pc EXCEPT ![t] = "n_open"]
  /\ UNCHANGED <<ctx, gen, live, owner, depth, hctx, idx, batchOk, rec, nullOk, staleUse>>

\* dfl_device_new's open as it would be if the failure path returned
\* without dfl_mutex_unlock.
NewOpenNoUnlockOnFail(t) ==
  /\ pc[t] = "n_open"
  /\ \E callocOk, found \in BOOLEAN :
       IF ~callocOk
       THEN pc' = [pc EXCEPT ![t] = "idle"] /\ KeepLock /\ UNCHANGED hctx
       ELSE /\ CanLock(t)
            /\ IF CtxUsable /\ found
               THEN /\ hctx' = [hctx EXCEPT ![t] = ctx]
                    /\ pc' = [pc EXCEPT ![t] = "n_walk"]
                    /\ KeepLock
               ELSE pc' = [pc EXCEPT ![t] = "idle"] /\ Lock(t) /\ UNCHANGED hctx
  /\ UNCHANGED <<ctx, gen, live, idx, batchOk, rec, nullOk, staleUse>>

\* dfl_device_new up to the unlock: calloc (a failure returns before the
\* lock), then udev_device_new_from_syspath(_udev_ctx, path) under the
\* lock; on failure unlock and return NULL, else unlock and go on with the
\* handle.  found: the path names a device.
NewOpen(t) ==
  /\ pc[t] = "n_open"
  /\ \E callocOk, found \in BOOLEAN :
       IF ~callocOk
       THEN pc' = [pc EXCEPT ![t] = "idle"] /\ UNCHANGED hctx
       ELSE /\ CanLock(t)
            /\ IF CtxUsable /\ found
               THEN /\ hctx' = [hctx EXCEPT ![t] = ctx]
                    /\ pc' = [pc EXCEPT ![t] = "n_walk"]
               ELSE pc' = [pc EXCEPT ![t] = "idle"] /\ UNCHANGED hctx
  /\ KeepLock
  /\ UNCHANGED <<ctx, gen, live, idx, batchOk, rec, nullOk, staleUse>>

\* The rest of dfl_device_new, without the lock: the parent walk and the
\* attribute reads through the handle; any failure unrefs the handle.
NewWalk(t) ==
  /\ pc[t] = "n_walk"
  /\ Use(hctx[t])
  /\ \E ok \in BOOLEAN :
       rec' = IF ok THEN [rec EXCEPT ![t] = @ \cup {hctx[t]}] ELSE rec
  /\ pc' = [pc EXCEPT ![t] = "idle"]
  /\ UNCHANGED <<ctx, gen, live, owner, depth, hctx, idx, batchOk, nullOk>>

\* dfl_device_enum: lock, then udev_enumerate_new(_udev_ctx); when it
\* fails, unlock and return NULL.
EnumScan(t) ==
  /\ Start(t) /\ CanLock(t)
  /\ IF CtxUsable
     THEN /\ Lock(t)
          /\ hctx' = [hctx EXCEPT ![t] = ctx]
          /\ idx' = [idx EXCEPT ![t] = 0]
          /\ batchOk' = [batchOk EXCEPT ![t] = TRUE]
          /\ pc' = [pc EXCEPT ![t] = IF DevCount = 0 THEN "e_done" ELSE "e_new"]
     ELSE KeepLock /\ UNCHANGED <<hctx, idx, batchOk, pc>>
  /\ UNCHANGED <<ctx, gen, live, rec, nullOk, staleUse>>

\* One pass of the enumeration loop with a mutex that does not nest.
EnumNewNonRecursive(t) ==
  /\ pc[t] = "e_new" /\ owner = NoThread
  /\ \E ok \in BOOLEAN :
       IF ok /\ CtxUsable
       THEN /\ idx' = [idx EXCEPT ![t] = @ + 1]
            /\ pc' = [pc EXCEPT ![t] = IF idx[t] + 1 = DevCount THEN "e_done" ELSE "e_new"]
            /\ UNCHANGED batchOk
       ELSE /\ batchOk' = [batchOk EXCEPT ![t] = FALSE]
            /\ pc' = [pc EXCEPT ![t] = "e_done"]
            /\ UNCHANGED idx
  /\ UNCHANGED <<ctx, gen, live, owner, depth, hctx, rec, nullOk, staleUse>>

\* One pass of the enumeration loop: dfl_device_new of the next listed
\* device, which takes the recursive lock again around its open and then
\* walks while the outer lock is still held.  ok: every step of the
\* construction succeeds.  A failure destroys the batch and leaves the loop.
EnumNew(t) ==
  /\ pc[t] = "e_new" /\ CanLock(t)
  /\ \E ok \in BOOLEAN :
       IF ok /\ CtxUsable
       THEN /\ idx' = [idx EXCEPT ![t] = @ + 1]
            /\ pc' = [pc EXCEPT ![t] = IF idx[t] + 1 = DevCount THEN "e_done" ELSE "e_new"]
            /\ UNCHANGED batchOk
       ELSE /\ batchOk' = [batchOk EXCEPT ![t] = FALSE]
            /\ pc' = [pc EXCEPT ![t] = "e_done"]
            /\ UNCHANGED idx
  /\ UNCHANGED <<ctx, gen, live, owner, depth, hctx, rec, nullOk, staleUse>>

\* out_unref: udev_enumerate_unref, unlock, return the list (or NULL).
EnumDone(t) ==
  /\ pc[t] = "e_done"
  /\ Unlock(t)
  /\ rec' = IF batchOk[t] THEN [rec EXCEPT ![t] = @ \cup {hctx[t]}] ELSE rec
  /\ pc' = [pc EXCEPT ![t] = "idle"]
  /\ UNCHANGED <<ctx, gen, live, hctx, idx, batchOk, nullOk, staleUse>>

\* dfl_device_get_compat_id on a held record: the whole scan, with the
\* record's pci and region syspaths, runs under the lock.
GetCompatId(t) ==
  /\ Start(t) /\ CanLock(t)
  /\ \E g \in rec[t] : Use(g)
  /\ UNCHANGED <<ctx, gen, live, owner, depth, pc, hctx, idx, batchOk, rec, nullOk>>

\* dfl_device_destroy of a held list: udev_device_unref of every handle,
\* without the lock.
Destroy(t) ==
  /\ Start(t)
  /\ \E g \in rec[t] : Use(g) /\ rec' = [rec EXCEPT ![t] = @ \ {g}]
  /\ UNCHANGED <<ctx, gen, live, owner, depth, pc, hctx, idx, batchOk, nullOk>>

Step(t) ==
  \/ Initialize(t) \/ Finalize(t)
  \/ DeviceNew(t) \/ GetParent(t) \/ Clone(t) \/ NewOpen(t) \/ NewWalk(t)
  \/ EnumScan(t) \/ EnumNew(t) \/ EnumDone(t)
  \/ GetCompatId(t) \/ Destroy(t)

Next == \E t \in Threads : Step(t)

\* The scheduler runs every thread that can run.  Nothing is assumed of
\* the order in which waiters get the mutex: pthread mutexes are not fair.
Spec == Init /\ [][Next]_vars /\ \A t \in Threads : WF_vars(Step(t))

-----------------------------------------------------------------------------
\* Every return path of dfl_device_new, dfl_device_enum, dfl_initialize,
\* dfl_finalize and dfl_device_get_compat_id releases _udev_ctx_lock: a
\* thread between calls holds no lock.
LockReleasedOnReturn == \A t \in Threads : pc[t] = "idle" => owner # t

\* The lock keeps the context fixed for a whole dfl_device_enum: while a
\* thread scans and constructs, _udev_ctx is the context the scan was
\* opened on, and it is not released under it.
ScanSeesOneContext ==
  \A t \in Threads : pc[t] \in {"e_new", "e_done"} =>
    ctx = hctx[t] /\ (hctx[t] = 0 \/ hctx[t] \in live)

\* dfl_initialize creates a context only when _udev_ctx is NULL and
\* dfl_finalize unrefs the one it clears, however the calls of the threads
\* interleave: no udev context other than _udev_ctx is ever alive.
ContextNotLeaked == live \subseteq {ctx}

\* A thread holding _udev_ctx_lock eventually releases it: the nested
\* lock in dfl_device_enum -> dfl_device_new does not block its holder.
LockEventuallyReleased == \A t \in Threads : (owner = t) ~> (owner # t)
=============================================================================
