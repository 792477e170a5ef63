------------------------------ MODULE Bundles ------------------------------
(***************************************************************************)
(* Running Python bundles (bundle_manager.rs, bundle_interface.rs,          *)
(* python_interface.rs, bundle_db.rs): the threads of the blocking pool     *)
(* that call run_bundle_*, the cache of loaded bundles behind its           *)
(* read-write lock, PYTHON_MUTEX, Python's own lock (the GIL) with the main *)
(* thread state that holds it, and the callbacks of running Python code     *)
(* into bundle_db.                                                          *)
(***************************************************************************)
EXTENDS Naturals

CONSTANTS
    Threads,            \* threads of the blocking pool
    BundleHashes,       \* bundles a job may name
    CallbackBundles,    \* the bundles whose Python code uses _bundledb
    NoThread,           \* owner of a lock that is free
    MaxCalls            \* bound: run_bundle_* calls in all

ASSUME BundlesAssumption ==
    /\ CallbackBundles \subseteq BundleHashes
    /\ NoThread \notin Threads
    /\ MaxCalls \in Nat

VARIABLES
    pc,         \* where each thread stands
    hash,       \* the bundle each thread works with
    calls,      \* calls begun
    cached,     \* keys of BundleManager.bundles
    writer,     \* who holds bundles.write()
    mutex,      \* who holds PYTHON_MUTEX
    gil,        \* who holds the GIL
    saved,      \* STATE: the main thread state is saved, its GIL released
    interps     \* number of live sub-interpreters of each bundle

locks == <<writer, mutex>>
python == <<gil, saved, interps>>
vars == <<pc, hash, calls, cached, locks, python>>

PCs ==
    {"idle"}
    \cup {"read", "write", "recheck"}                    \* load_bundle
    \cup {"lockNew", "restore", "newInterp", "enter",    \* BundleInterface::new
          "importing"}
    \cup {"lockRun", "scope", "running"}                 \* run_bundle_*
    \cup {"importLoad", "load", "request"}               \* a callback

Owners == Threads \cup {NoThread}

(* Every type a variable may take.                                           *)
TypeOK ==
    /\ pc \in [Threads -> PCs]
    /\ hash \in [Threads -> BundleHashes]
    /\ calls \in 0 .. MaxCalls
    /\ cached \subseteq BundleHashes
    /\ writer \in Owners /\ mutex \in Owners /\ gil \in Owners
    /\ saved \in BOOLEAN
    /\ interps \in [BundleHashes -> Nat]

(* init_python has released the GIL; nothing is loaded.                      *)
Init ==
    /\ pc = [t \in Threads |-> "idle"]
    /\ hash \in [Threads -> BundleHashes]
    /\ calls = 0
    /\ cached = {}
    /\ writer = NoThread /\ mutex = NoThread /\ gil = NoThread
    /\ saved = TRUE
    /\ interps = [b \in BundleHashes |-> 0]

Goto(t, p) == pc' = [pc EXCEPT ![t] = p]

-----------------------------------------------------------------------------
(* load_bundle                                                               *)

RunBundle(t, b) ==
    /\ pc[t] = "idle"
    /\ calls < MaxCalls
    /\ calls' = calls + 1
    /\ hash' = [hash EXCEPT ![t] = b]
    /\ Goto(t, "read")
    /\ UNCHANGED <<cached, locks, python>>

(* The cache is looked up under the read lock, which waits for a writer.     *)
ReadCache(t) ==
    /\ pc[t] = "read"
    /\ writer = NoThread
    /\ Goto(t, IF hash[t] \in cached THEN "lockRun" ELSE "write")
    /\ UNCHANGED <<hash, calls, cached, locks, python>>

LockCache(t) ==
    /\ pc[t] = "write"
    /\ writer = NoThread
    /\ writer' = t
    /\ Goto(t, "recheck")
    /\ UNCHANGED <<hash, calls, cached, mutex, python>>

(* Mutant: no second look.                                                   *)
RecheckMissing(t) ==
    /\ pc[t] = "recheck"
    /\ Goto(t, "lockNew")
    /\ UNCHANGED <<hash, calls, cached, locks, python>>

(* Another thread may have loaded the bundle between the two locks.          *)
Recheck(t) ==
    /\ pc[t] = "recheck"
    /\ IF hash[t] \in cached
       THEN writer' = NoThread /\ Goto(t, "lockRun")
       ELSE UNCHANGED writer /\ Goto(t, "lockNew")
    /\ UNCHANGED <<hash, calls, cached, mutex, python>>

(* BundleInterface::new waits for PYTHON_MUTEX inside the write lock.        *)
LockNew(t) ==
    /\ pc[t] = "lockNew"
    /\ mutex = NoThread
    /\ mutex' = t
    /\ Goto(t, "restore")
    /\ UNCHANGED <<hash, calls, cached, writer, python>>

(* PyEval_RestoreThread of the main thread state takes the GIL.              *)
Restore(t) ==
    /\ pc[t] = "restore"
    /\ gil = NoThread
    /\ gil' = t /\ saved' = FALSE
    /\ Goto(t, "newInterp")
    /\ UNCHANGED <<hash, calls, cached, locks, interps>>

(* load_bundle fails: everything it held is released and the call returns.   *)
LoadFails(t) ==
    /\ writer' = NoThread /\ mutex' = NoThread
    /\ Goto(t, "idle")

(* Mutants: a sub-interpreter that could not be created is destroyed all the   *)
(* same; the main thread state is not saved again on the error path.         *)
NewInterpreterEndsAnyway(t) ==
    /\ pc[t] = "newInterp"
    /\ gil' = NoThread /\ saved' = TRUE
    /\ \/ /\ interps' = [interps EXCEPT ![hash[t]] = @ + 1]
          /\ Goto(t, "enter")
          /\ UNCHANGED locks
       \/ interps' = [interps EXCEPT ![hash[t]] = @ - 1] /\ LoadFails(t)
    /\ UNCHANGED <<hash, calls, cached>>

NewInterpreterLeaksGil(t) ==
    /\ pc[t] = "newInterp"
    /\ \/ /\ interps' = [interps EXCEPT ![hash[t]] = @ + 1]
          /\ gil' = NoThread /\ saved' = TRUE
          /\ Goto(t, "enter")
          /\ UNCHANGED locks
       \/ UNCHANGED python /\ LoadFails(t)
    /\ UNCHANGED <<hash, calls, cached>>

(* SubInterpreter::new succeeds or fails; either way PyEval_SaveThread gives   *)
(* the GIL back.                                                             *)
NewInterpreter(t) ==
    /\ pc[t] = "newInterp"
    /\ gil' = NoThread /\ saved' = TRUE
    /\ \/ /\ interps' = [interps EXCEPT ![hash[t]] = @ + 1]
          /\ Goto(t, "enter")
          /\ UNCHANGED locks
       \/ UNCHANGED interps /\ LoadFails(t)
    /\ UNCHANGED <<hash, calls, cached>>

(* The ThreadScope in which the bundle module is imported; when it cannot be  *)
(* created the sub-interpreter is dropped.                                   *)
EnterImport(t) ==
    /\ pc[t] = "enter"
    /\ \/ /\ gil = NoThread /\ gil' = t
          /\ Goto(t, "importing")
          /\ UNCHANGED <<locks, interps>>
       \/ /\ LoadFails(t)
          /\ interps' = [interps EXCEPT ![hash[t]] = @ - 1]
          /\ UNCHANGED gil
    /\ UNCHANGED <<hash, calls, cached, saved>>

(* The import fails, which drops the sub-interpreter, or the bundle is cached. *)
ImportEnds(t) ==
    /\ pc[t] = "importing"
    /\ gil' = NoThread
    /\ \/ /\ LoadFails(t)
          /\ interps' = [interps EXCEPT ![hash[t]] = @ - 1]
          /\ UNCHANGED cached
       \/ /\ cached' = cached \cup {hash[t]}
          /\ writer' = NoThread /\ mutex' = NoThread
          /\ Goto(t, "lockRun")
          /\ UNCHANGED interps
    /\ UNCHANGED <<hash, calls, saved>>

-----------------------------------------------------------------------------
(* run_bundle_string, _uint64, _bool and _json after load_bundle             *)

LockRun(t) ==
    /\ pc[t] = "lockRun"
    /\ mutex = NoThread
    /\ mutex' = t
    /\ Goto(t, "scope")
    /\ UNCHANGED <<hash, calls, cached, writer, python>>

(* create_thread_scope: takes the GIL, or fails and the call returns.        *)
EnterScope(t) ==
    /\ pc[t] = "scope"
    /\ \/ gil = NoThread /\ gil' = t /\ Goto(t, "running") /\ UNCHANGED mutex
       \/ mutex' = NoThread /\ Goto(t, "idle") /\ UNCHANGED gil
    /\ UNCHANGED <<hash, calls, cached, writer, saved, interps>>

(* The function returned, its result is converted, scope and guard dropped.  *)
RunEnds(t) ==
    /\ pc[t] = "running"
    /\ gil' = NoThread /\ mutex' = NoThread
    /\ Goto(t, "idle")
    /\ UNCHANGED <<hash, calls, cached, writer, saved, interps>>

-----------------------------------------------------------------------------
(* create_or_update_job, get_job_by_id and delete_job, called by Python code.  *)

Callback(t) ==
    /\ hash[t] \in CallbackBundles
    /\ \/ pc[t] = "importing" /\ Goto(t, "importLoad")
       \/ pc[t] = "running" /\ Goto(t, "load")
    /\ UNCHANGED <<hash, calls, cached, locks, python>>

(* load_bundle of the thread's own bundle, under the read lock. During the    *)
(* import this never ends: the thread itself holds the write lock.           *)
CallbackLoad(t) ==
    /\ pc[t] = "load"
    /\ writer = NoThread
    /\ hash[t] \in cached
    /\ Goto(t, "request")
    /\ UNCHANGED <<hash, calls, cached, locks, python>>

(* send_and_wait always comes back: the request has a timeout.               *)
CallbackRequest(t) ==
    /\ pc[t] = "request"
    /\ Goto(t, "running")
    /\ UNCHANGED <<hash, calls, cached, locks, python>>

-----------------------------------------------------------------------------
Proceed(t) ==
    \/ ReadCache(t) \/ LockCache(t) \/ Recheck(t) \/ LockNew(t) \/ Restore(t)
    \/ NewInterpreter(t) \/ EnterImport(t) \/ ImportEnds(t)
    \/ LockRun(t) \/ EnterScope(t) \/ RunEnds(t)
    \/ Callback(t) \/ CallbackLoad(t) \/ CallbackRequest(t)

Next == \E t \in Threads : Proceed(t) \/ \E b \in BundleHashes : RunBundle(t, b)

Spec == Init /\ [][Next]_vars

(* Threads run; locks are handed on; a bundle's function does not call back  *)
(* for ever.                                                                 *)
FairSpec ==
    /\ Spec
    /\ \A t \in Threads :
        WF_vars(Proceed(t)) /\ SF_vars(RunEnds(t)) /\ SF_vars(ImportEnds(t))

-----------------------------------------------------------------------------
(* Properties                                                                *)

(* A bundle never has two live sub-interpreters, and a cached one has one:     *)
(* however many threads miss the cache at once, one of them loads.           *)
LoadedOnce ==
    \A b \in BundleHashes : interps[b] <= 1 /\ (b \in cached => interps[b] = 1)

(* The GIL is only ever held by the thread that holds PYTHON_MUTEX, and when   *)
(* nobody holds PYTHON_MUTEX the main thread state is saved: no path through   *)
(* BundleInterface::new, failures included, leaks the GIL.                   *)
GilReleased ==
    /\ gil # NoThread => mutex = gil
    /\ mutex = NoThread => saved

InCallbackLoad(t) == pc[t] \in {"importLoad", "load"}

(* Python code that holds PYTHON_MUTEX wants the cache while it is locked.   *)
Inversion == writer # NoThread /\ \E t \in Threads : InCallbackLoad(t)

(* Every run_bundle_* call returns, as long as no callback meets a load.     *)
CallsReturn ==
    []~Inversion => \A t \in Threads : (pc[t] # "idle") ~> (pc[t] = "idle")

(* The load in a callback of a running function is a cache hit, as the header *)
(* of bundle_db.rs says of every callback, and so goes on.                   *)
CallbackLoads ==
    \A t \in Threads : (pc[t] = "load") ~> (pc[t] # "load")
=============================================================================
