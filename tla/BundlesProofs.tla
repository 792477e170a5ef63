--------------------------- MODULE BundlesProofs ---------------------------
(***************************************************************************)
(* Proofs about Bundles and BundleCalls, for any number of threads and       *)
(* bundles. Bundles first: the GIL is never leaked and a bundle is never      *)
(* loaded twice. Then BundleCalls, which implements it: inside Python's lock  *)
(* references and errors are accounted for on every path, and what a bundle  *)
(* logs is logged under its name.                                           *)
(***************************************************************************)
EXTENDS PythonCallProofs

-----------------------------------------------------------------------------
(* Bundles                                                                   *)

(* Where a thread holds bundles.write(), PYTHON_MUTEX and the GIL.           *)
WriterPCs == {"recheck", "lockNew", "restore", "newInterp", "enter", "importing",
              "importLoad"}
MutexPCs == {"restore", "newInterp", "enter", "importing", "importLoad",
             "scope", "running", "load", "request"}
GilPCs == {"newInterp", "importing", "importLoad", "running", "load", "request"}

(* Where it is loading a bundle, and where that has a sub-interpreter.       *)
LoadingPCs == {"lockNew", "restore", "newInterp", "enter", "importing", "importLoad"}
CreatedPCs == {"enter", "importing", "importLoad"}

Ownership ==
    \A t \in Threads :
        /\ writer = t <=> pc[t] \in WriterPCs
        /\ mutex = t <=> pc[t] \in MutexPCs
        /\ gil = t <=> pc[t] \in GilPCs

SavedUnlessCreating == saved \/ \E t \in Threads : pc[t] = "newInterp"

(* A thread that loads a bundle is the only one, and it is not cached.       *)
Loading == \A t \in Threads : pc[t] \in LoadingPCs => hash[t] \notin cached

HasInterp(b) ==
    b \in cached \/ \E t \in Threads : pc[t] \in CreatedPCs /\ hash[t] = b

Counted ==
    \A b \in BundleHashes : interps[b] = IF HasInterp(b) THEN 1 ELSE 0

IInv == TypeOK /\ Ownership /\ SavedUnlessCreating /\ Loading /\ Counted

(* Thread t goes on at p and the other threads stay where they are.          *)
LEMMA Move ==
  ASSUME TypeOK, NEW t \in Threads, NEW p \in PCs, Goto(t, p)
  PROVE  pc' \in [Threads -> PCs] /\ \A u \in Threads : pc'[u] = IF u = t THEN p ELSE pc[u]
BY DEF TypeOK, Goto

(* No bundle is loaded and no lock is held at first.                        *)
LEMMA InitInv == Init => IInv
<1> SUFFICES ASSUME Init PROVE IInv
  OBVIOUS
<1>1. TypeOK
  BY BundlesAssumption DEF Init, TypeOK, PCs, Owners
<1>2. Ownership
  BY Zenon, BundlesAssumption DEF Init, Ownership, WriterPCs, MutexPCs, GilPCs
<1>3. SavedUnlessCreating /\ Loading /\ Counted
  BY DEF Init, SavedUnlessCreating, Loading, LoadingPCs, Counted, HasInterp, CreatedPCs
<1> QED
  BY <1>1, <1>2, <1>3 DEF IInv

(* The invariant holds after every step of one thread.                       *)
LEMMA ProceedInv ==
  ASSUME IInv, NEW t \in Threads, Proceed(t) \/ \E b \in BundleHashes : RunBundle(t, b)
  PROVE  IInv'
<1>0. TypeOK /\ Ownership /\ SavedUnlessCreating /\ Loading /\ Counted
  BY DEF IInv
<1>a. MaxCalls \in Nat /\ \A u \in Threads : u # NoThread
  BY BundlesAssumption
<1>b. PCs = {"idle", "read", "write", "recheck", "lockNew", "restore", "newInterp", "enter",
             "importing", "lockRun", "scope", "running", "importLoad", "load", "request"}
  BY DEF PCs
<1>1. ASSUME NEW b \in BundleHashes, RunBundle(t, b)
      PROVE  IInv'
  <2>1. pc' \in [Threads -> PCs] /\ \A u \in Threads : pc'[u] = IF u = t THEN "read" ELSE pc[u]
    BY <1>0, <1>1, <1>b, Move DEF RunBundle
  <2>2. TypeOK'
    <3>1. calls' \in 0 .. MaxCalls /\ hash' \in [Threads -> BundleHashes]
      BY <1>0, <1>1, <1>a DEF RunBundle, TypeOK
    <3> QED
      BY <1>0, <1>1, <2>1, <3>1 DEF RunBundle, TypeOK, locks, python
  <2>3. Ownership' /\ SavedUnlessCreating'
    BY <1>0, <1>1, <2>1 DEF RunBundle, Ownership, SavedUnlessCreating, WriterPCs, MutexPCs,
       GilPCs, locks, python
  <2>4. \A u \in Threads : u # t => hash'[u] = hash[u]
    BY <1>0, <1>1 DEF RunBundle, TypeOK
  <2>5. Loading'
    BY <1>0, <1>1, <2>1, <2>4 DEF RunBundle, Loading, LoadingPCs
  <2>6. Counted'
    BY <1>0, <1>1, <2>1, <2>4 DEF RunBundle, Counted, HasInterp, CreatedPCs, python
  <2> QED
    BY <2>2, <2>3, <2>5, <2>6 DEF IInv
<1>2. CASE ReadCache(t)
  <2>1. PICK p \in {"lockRun", "write"} : Goto(t, p)
    BY <1>2 DEF ReadCache
  <2>2. /\ pc' \in [Threads -> PCs]
        /\ \A u \in Threads : pc'[u] = IF u = t THEN p ELSE pc[u]
    BY <1>0, <1>b, <2>1, Move
  <2>3. TypeOK'
    BY <1>0, <1>2, <2>2 DEF ReadCache, TypeOK, Owners, locks, python
  <2>4. Ownership'
    BY <1>0, <1>a, <1>2, <2>2 DEF ReadCache, Goto, TypeOK, Ownership, WriterPCs, MutexPCs, GilPCs,
       locks, python
  <2>5. SavedUnlessCreating' /\ Loading'
    BY <1>0, <1>2, <2>2 DEF ReadCache, Goto, TypeOK, SavedUnlessCreating, Loading, LoadingPCs,
       Ownership, WriterPCs, MutexPCs, python
  <2>6. Counted'
    BY <1>0, <1>2, <2>2 DEF ReadCache, Goto, TypeOK, Counted, HasInterp, CreatedPCs, Loading,
       LoadingPCs, Ownership, WriterPCs, python
  <2> QED
    BY <2>3, <2>4, <2>5, <2>6 DEF IInv
<1>3. CASE LockCache(t)
  <2>1. PICK p \in {"recheck"} : Goto(t, p)
    BY <1>3 DEF LockCache
  <2>2. /\ pc' \in [Threads -> PCs]
        /\ \A u \in Threads : pc'[u] = IF u = t THEN p ELSE pc[u]
    BY <1>0, <1>b, <2>1, Move
  <2>3. TypeOK'
    BY <1>0, <1>3, <2>2 DEF LockCache, TypeOK, Owners, locks, python
  <2>4. Ownership'
    BY <1>0, <1>a, <1>3, <2>2 DEF LockCache, Goto, TypeOK, Ownership, WriterPCs, MutexPCs, GilPCs,
       locks, python
  <2>5. SavedUnlessCreating' /\ Loading'
    BY <1>0, <1>3, <2>2 DEF LockCache, Goto, TypeOK, SavedUnlessCreating, Loading, LoadingPCs,
       Ownership, WriterPCs, MutexPCs, python
  <2>6. Counted'
    BY <1>0, <1>3, <2>2 DEF LockCache, Goto, TypeOK, Counted, HasInterp, CreatedPCs, Loading,
       LoadingPCs, Ownership, WriterPCs, python
  <2> QED
    BY <2>3, <2>4, <2>5, <2>6 DEF IInv
<1>4. CASE Recheck(t)
  <2>1. PICK p \in {"lockRun", "lockNew"} : Goto(t, p)
    BY <1>4 DEF Recheck
  <2>2. /\ pc' \in [Threads -> PCs]
        /\ \A u \in Threads : pc'[u] = IF u = t THEN p ELSE pc[u]
    BY <1>0, <1>b, <2>1, Move
  <2>3. TypeOK'
    BY <1>0, <1>4, <2>2 DEF Recheck, TypeOK, Owners, locks, python
  <2>4. Ownership'
    BY <1>0, <1>a, <1>4, <2>2 DEF Recheck, Goto, TypeOK, Ownership, WriterPCs, MutexPCs, GilPCs,
       locks, python
  <2>5. SavedUnlessCreating' /\ Loading'
    BY <1>0, <1>4, <2>2 DEF Recheck, Goto, TypeOK, SavedUnlessCreating, Loading, LoadingPCs,
       Ownership, WriterPCs, MutexPCs, python
  <2>6. Counted'
    BY <1>0, <1>4, <2>2 DEF Recheck, Goto, TypeOK, Counted, HasInterp, CreatedPCs, Loading,
       LoadingPCs, Ownership, WriterPCs, python
  <2> QED
    BY <2>3, <2>4, <2>5, <2>6 DEF IInv
<1>5. CASE LockNew(t)
  <2>1. PICK p \in {"restore"} : Goto(t, p)
    BY <1>5 DEF LockNew
  <2>2. /\ pc' \in [Threads -> PCs]
        /\ \A u \in Threads : pc'[u] = IF u = t THEN p ELSE pc[u]
    BY <1>0, <1>b, <2>1, Move
  <2>3. TypeOK'
    BY <1>0, <1>5, <2>2 DEF LockNew, TypeOK, Owners, locks, python
  <2>4. Ownership'
    BY <1>0, <1>a, <1>5, <2>2 DEF LockNew, Goto, TypeOK, Ownership, WriterPCs, MutexPCs, GilPCs,
       locks, python
  <2>5. SavedUnlessCreating' /\ Loading'
    BY <1>0, <1>5, <2>2 DEF LockNew, Goto, TypeOK, SavedUnlessCreating, Loading, LoadingPCs,
       Ownership, WriterPCs, MutexPCs, python
  <2>6. Counted'
    BY <1>0, <1>5, <2>2 DEF LockNew, Goto, TypeOK, Counted, HasInterp, CreatedPCs, Loading,
       LoadingPCs, Ownership, WriterPCs, python
  <2> QED
    BY <2>3, <2>4, <2>5, <2>6 DEF IInv
<1>6. CASE Restore(t)
  <2>1. PICK p \in {"newInterp"} : Goto(t, p)
    BY <1>6 DEF Restore
  <2>2. /\ pc' \in [Threads -> PCs]
        /\ \A u \in Threads : pc'[u] = IF u = t THEN p ELSE pc[u]
    BY <1>0, <1>b, <2>1, Move
  <2>3. TypeOK'
    BY Zenon, <1>0, <1>6, <2>2 DEF Restore, TypeOK, Owners, locks, python
  <2>4. Ownership'
    BY Zenon, <1>0, <1>a, <1>6, <2>2 DEF Restore, Goto, TypeOK, Ownership, WriterPCs, MutexPCs, GilPCs,
       locks, python
  <2>5. SavedUnlessCreating' /\ Loading'
    BY <1>0, <1>6, <2>2 DEF Restore, Goto, TypeOK, SavedUnlessCreating, Loading, LoadingPCs,
       Ownership, WriterPCs, MutexPCs, python
  <2>6. Counted'
    BY <1>0, <1>6, <2>2 DEF Restore, Goto, TypeOK, Counted, HasInterp, CreatedPCs, Loading,
       LoadingPCs, Ownership, WriterPCs, python
  <2> QED
    BY <2>3, <2>4, <2>5, <2>6 DEF IInv
<1>7. CASE NewInterpreter(t)
  <2>1. PICK p \in {"enter", "idle"} : Goto(t, p)
    BY <1>7 DEF NewInterpreter, LoadFails
  <2>2. /\ pc' \in [Threads -> PCs]
        /\ \A u \in Threads : pc'[u] = IF u = t THEN p ELSE pc[u]
    BY <1>0, <1>b, <2>1, Move
  <2>3. TypeOK'
    <3>2. interps' \in [BundleHashes -> Nat]
      BY <1>0, <1>7 DEF NewInterpreter, TypeOK
    <3> QED
      BY <1>0, <1>7, <2>2, <3>2 DEF NewInterpreter, LoadFails, TypeOK, Owners, locks
  <2>4. Ownership'
    BY <1>0, <1>a, <1>7, <2>2 DEF NewInterpreter, LoadFails, Goto, TypeOK, Ownership, WriterPCs, MutexPCs, GilPCs,
       locks, python
  <2>5. SavedUnlessCreating' /\ Loading'
    BY <1>0, <1>7, <2>2 DEF NewInterpreter, LoadFails, Goto, TypeOK, SavedUnlessCreating, Loading, LoadingPCs,
       Ownership, WriterPCs, MutexPCs, python
  <2>6. Counted'
    BY <1>0, <1>7, <2>2 DEF NewInterpreter, LoadFails, Goto, TypeOK, Counted, HasInterp, CreatedPCs, Loading,
       LoadingPCs, Ownership, WriterPCs, python
  <2> QED
    BY <2>3, <2>4, <2>5, <2>6 DEF IInv
<1>8. CASE EnterImport(t)
  <2>1. PICK p \in {"importing", "idle"} : Goto(t, p)
    BY <1>8 DEF EnterImport, LoadFails
  <2>2. /\ pc' \in [Threads -> PCs]
        /\ \A u \in Threads : pc'[u] = IF u = t THEN p ELSE pc[u]
    BY <1>0, <1>b, <2>1, Move
  <2>3. TypeOK'
    <3>1. hash[t] \in BundleHashes /\ interps[hash[t]] = 1
      BY <1>0, <1>8 DEF EnterImport, TypeOK, Counted, HasInterp, CreatedPCs
    <3>2. interps' \in [BundleHashes -> Nat]
      BY <1>0, <1>8, <3>1 DEF EnterImport, TypeOK
    <3> QED
      BY <1>0, <1>8, <2>2, <3>2 DEF EnterImport, LoadFails, TypeOK, Owners, locks
  <2>4. Ownership'
    BY <1>0, <1>a, <1>8, <2>2 DEF EnterImport, LoadFails, Goto, TypeOK, Ownership, WriterPCs, MutexPCs, GilPCs,
       locks, python
  <2>5. SavedUnlessCreating' /\ Loading'
    BY <1>0, <1>8, <2>2 DEF EnterImport, LoadFails, Goto, TypeOK, SavedUnlessCreating, Loading, LoadingPCs,
       Ownership, WriterPCs, MutexPCs, python
  <2>6. Counted'
    BY <1>0, <1>8, <2>2 DEF EnterImport, LoadFails, Goto, TypeOK, Counted, HasInterp, CreatedPCs, Loading,
       LoadingPCs, Ownership, WriterPCs, python
  <2> QED
    BY <2>3, <2>4, <2>5, <2>6 DEF IInv
<1>9. CASE ImportEnds(t)
  <2>1. PICK p \in {"idle", "lockRun"} : Goto(t, p)
    BY <1>9 DEF ImportEnds, LoadFails
  <2>2. /\ pc' \in [Threads -> PCs]
        /\ \A u \in Threads : pc'[u] = IF u = t THEN p ELSE pc[u]
    BY <1>0, <1>b, <2>1, Move
  <2>3. TypeOK'
    <3>1. hash[t] \in BundleHashes /\ interps[hash[t]] = 1
      BY <1>0, <1>9 DEF ImportEnds, TypeOK, Counted, HasInterp, CreatedPCs
    <3>2. interps' \in [BundleHashes -> Nat]
      BY <1>0, <1>9, <3>1 DEF ImportEnds, TypeOK
    <3> QED
      BY <1>0, <1>9, <2>2, <3>2 DEF ImportEnds, LoadFails, TypeOK, Owners, locks
  <2>4. Ownership'
    BY <1>0, <1>a, <1>9, <2>2 DEF ImportEnds, LoadFails, Goto, TypeOK, Ownership, WriterPCs, MutexPCs, GilPCs,
       locks, python
  <2>5. SavedUnlessCreating' /\ Loading'
    BY <1>0, <1>9, <2>2 DEF ImportEnds, LoadFails, Goto, TypeOK, SavedUnlessCreating, Loading, LoadingPCs,
       Ownership, WriterPCs, MutexPCs, python
  <2>6. Counted'
    BY <1>0, <1>9, <2>2 DEF ImportEnds, LoadFails, Goto, TypeOK, Counted, HasInterp, CreatedPCs, Loading,
       LoadingPCs, Ownership, WriterPCs, python
  <2> QED
    BY <2>3, <2>4, <2>5, <2>6 DEF IInv
<1>10. CASE LockRun(t)
  <2>1. PICK p \in {"scope"} : Goto(t, p)
    BY <1>10 DEF LockRun
  <2>2. /\ pc' \in [Threads -> PCs]
        /\ \A u \in Threads : pc'[u] = IF u = t THEN p ELSE pc[u]
    BY <1>0, <1>b, <2>1, Move
  <2>3. TypeOK'
    BY <1>0, <1>10, <2>2 DEF LockRun, TypeOK, Owners, locks, python
  <2>4. Ownership'
    BY <1>0, <1>a, <1>10, <2>2 DEF LockRun, Goto, TypeOK, Ownership, WriterPCs, MutexPCs, GilPCs,
       locks, python
  <2>5. SavedUnlessCreating' /\ Loading'
    BY <1>0, <1>10, <2>2 DEF LockRun, Goto, TypeOK, SavedUnlessCreating, Loading, LoadingPCs,
       Ownership, WriterPCs, MutexPCs, python
  <2>6. Counted'
    BY <1>0, <1>10, <2>2 DEF LockRun, Goto, TypeOK, Counted, HasInterp, CreatedPCs, Loading,
       LoadingPCs, Ownership, WriterPCs, python
  <2> QED
    BY <2>3, <2>4, <2>5, <2>6 DEF IInv
<1>11. CASE EnterScope(t)
  <2>1. PICK p \in {"running", "idle"} : Goto(t, p)
    BY <1>11 DEF EnterScope
  <2>2. /\ pc' \in [Threads -> PCs]
        /\ \A u \in Threads : pc'[u] = IF u = t THEN p ELSE pc[u]
    BY <1>0, <1>b, <2>1, Move
  <2>3. TypeOK'
    BY <1>0, <1>11, <2>2 DEF EnterScope, TypeOK, Owners, locks, python
  <2>4. Ownership'
    BY <1>0, <1>a, <1>11, <2>2 DEF EnterScope, Goto, TypeOK, Ownership, WriterPCs, MutexPCs, GilPCs,
       locks, python
  <2>5. SavedUnlessCreating' /\ Loading'
    BY <1>0, <1>11, <2>2 DEF EnterScope, Goto, TypeOK, SavedUnlessCreating, Loading, LoadingPCs,
       Ownership, WriterPCs, MutexPCs, python
  <2>6. Counted'
    BY <1>0, <1>11, <2>2 DEF EnterScope, Goto, TypeOK, Counted, HasInterp, CreatedPCs, Loading,
       LoadingPCs, Ownership, WriterPCs, python
  <2> QED
    BY <2>3, <2>4, <2>5, <2>6 DEF IInv
<1>12. CASE RunEnds(t)
  <2>1. PICK p \in {"idle"} : Goto(t, p)
    BY <1>12 DEF RunEnds
  <2>2. /\ pc' \in [Threads -> PCs]
        /\ \A u \in Threads : pc'[u] = IF u = t THEN p ELSE pc[u]
    BY <1>0, <1>b, <2>1, Move
  <2>3. TypeOK'
    BY <1>0, <1>12, <2>2 DEF RunEnds, TypeOK, Owners, locks, python
  <2>4. Ownership'
    BY <1>0, <1>a, <1>12, <2>2 DEF RunEnds, Goto, TypeOK, Ownership, WriterPCs, MutexPCs, GilPCs,
       locks, python
  <2>5. SavedUnlessCreating' /\ Loading'
    BY <1>0, <1>12, <2>2 DEF RunEnds, Goto, TypeOK, SavedUnlessCreating, Loading, LoadingPCs,
       Ownership, WriterPCs, MutexPCs, python
  <2>6. Counted'
    BY <1>0, <1>12, <2>2 DEF RunEnds, Goto, TypeOK, Counted, HasInterp, CreatedPCs, Loading,
       LoadingPCs, Ownership, WriterPCs, python
  <2> QED
    BY <2>3, <2>4, <2>5, <2>6 DEF IInv
<1>13. CASE Callback(t)
  <2>1. PICK p \in {"importLoad", "load"} : Goto(t, p)
    BY <1>13 DEF Callback
  <2>2. /\ pc' \in [Threads -> PCs]
        /\ \A u \in Threads : pc'[u] = IF u = t THEN p ELSE pc[u]
    BY <1>0, <1>b, <2>1, Move
  <2>3. TypeOK'
    BY <1>0, <1>13, <2>2 DEF Callback, TypeOK, Owners, locks, python
  <2>4. Ownership'
    BY <1>0, <1>a, <1>13, <2>2 DEF Callback, Goto, TypeOK, Ownership, WriterPCs, MutexPCs, GilPCs,
       locks, python
  <2>5. SavedUnlessCreating' /\ Loading'
    BY <1>0, <1>13, <2>2 DEF Callback, Goto, TypeOK, SavedUnlessCreating, Loading, LoadingPCs,
       Ownership, WriterPCs, MutexPCs, python
  <2>6. Counted'
    BY <1>0, <1>13, <2>2 DEF Callback, Goto, TypeOK, Counted, HasInterp, CreatedPCs, Loading,
       LoadingPCs, Ownership, WriterPCs, python
  <2> QED
    BY <2>3, <2>4, <2>5, <2>6 DEF IInv
<1>14. CASE CallbackLoad(t)
  <2>1. PICK p \in {"request"} : Goto(t, p)
    BY <1>14 DEF CallbackLoad
  <2>2. /\ pc' \in [Threads -> PCs]
        /\ \A u \in Threads : pc'[u] = IF u = t THEN p ELSE pc[u]
    BY <1>0, <1>b, <2>1, Move
  <2>3. TypeOK'
    BY <1>0, <1>14, <2>2 DEF CallbackLoad, TypeOK, Owners, locks, python
  <2>4. Ownership'
    BY <1>0, <1>a, <1>14, <2>2 DEF CallbackLoad, Goto, TypeOK, Ownership, WriterPCs, MutexPCs, GilPCs,
       locks, python
  <2>5. SavedUnlessCreating' /\ Loading'
    BY <1>0, <1>14, <2>2 DEF CallbackLoad, Goto, TypeOK, SavedUnlessCreating, Loading, LoadingPCs,
       Ownership, WriterPCs, MutexPCs, python
  <2>6. Counted'
    BY <1>0, <1>14, <2>2 DEF CallbackLoad, Goto, TypeOK, Counted, HasInterp, CreatedPCs, Loading,
       LoadingPCs, Ownership, WriterPCs, python
  <2> QED
    BY <2>3, <2>4, <2>5, <2>6 DEF IInv
<1>15. CASE CallbackRequest(t)
  <2>1. PICK p \in {"running"} : Goto(t, p)
    BY <1>15 DEF CallbackRequest
  <2>2. /\ pc' \in [Threads -> PCs]
        /\ \A u \in Threads : pc'[u] = IF u = t THEN p ELSE pc[u]
    BY <1>0, <1>b, <2>1, Move
  <2>3. TypeOK'
    BY <1>0, <1>15, <2>2 DEF CallbackRequest, TypeOK, Owners, locks, python
  <2>4. Ownership'
    BY <1>0, <1>a, <1>15, <2>2 DEF CallbackRequest, Goto, TypeOK, Ownership, WriterPCs, MutexPCs, GilPCs,
       locks, python
  <2>5. SavedUnlessCreating' /\ Loading'
    BY <1>0, <1>15, <2>2 DEF CallbackRequest, Goto, TypeOK, SavedUnlessCreating, Loading, LoadingPCs,
       Ownership, WriterPCs, MutexPCs, python
  <2>6. Counted'
    BY <1>0, <1>15, <2>2 DEF CallbackRequest, Goto, TypeOK, Counted, HasInterp, CreatedPCs, Loading,
       LoadingPCs, Ownership, WriterPCs, python
  <2> QED
    BY <2>3, <2>4, <2>5, <2>6 DEF IInv
<1> QED
  BY <1>1, <1>2, <1>3, <1>4, <1>5, <1>6, <1>7, <1>8, <1>9, <1>10, <1>11, <1>12, <1>13, <1>14, <1>15 DEF Proceed

(* No step of a thread breaks the invariant.                                *)
LEMMA StepInv == IInv /\ [Next]_vars => IInv'
<1> SUFFICES ASSUME IInv, [Next]_vars PROVE IInv'
  OBVIOUS
<1>1. CASE UNCHANGED vars
  BY <1>1 DEF vars, locks, python, IInv, TypeOK, Ownership, SavedUnlessCreating, Loading,
     Counted, HasInterp
<1> QED
  BY <1>1, ProceedInv DEF Next

(* The inductive invariant holds throughout.                                *)
LEMMA Inductive == Spec => []IInv
BY InitInv, StepInv, PTL DEF Spec

(* The locks, the cache and the interpreters keep their types.               *)
THEOREM TypeCorrect == Spec => []TypeOK
<1>1. IInv => TypeOK
  BY DEF IInv
<1> QED
  BY <1>1, Inductive, PTL

(* However many threads load and run bundles, and wherever loading fails, the  *)
(* GIL is held only inside PYTHON_MUTEX and given back before it is released. *)
THEOREM GilNeverLeaked == Spec => []GilReleased
<1>1. IInv => GilReleased
  BY BundlesAssumption DEF IInv, TypeOK, Owners, Ownership, SavedUnlessCreating, GilReleased,
     GilPCs, MutexPCs
<1> QED
  BY <1>1, Inductive, PTL

(* A bundle has at most one live sub-interpreter, and a cached one has one.    *)
THEOREM LoadedAtMostOnce == Spec => []LoadedOnce
<1>1. IInv => LoadedOnce
  BY DEF IInv, Counted, HasInterp, LoadedOnce
<1> QED
  BY <1>1, Inductive, PTL

-----------------------------------------------------------------------------
(* The steps of BundleCalls are steps of Bundles, and keep the invariant     *)

Side == LogTypeOK /\ Where /\ Stands /\ Lines

PyPCs == ImportPCs \cup RunPCs

(* Every step is one of Bundles, or leaves what Bundles models alone.        *)
LEMMA CallsRefines == [CallsNext]_allVars => [Next]_vars
<1> SUFFICES ASSUME [CallsNext]_allVars PROVE [Next]_vars
  OBVIOUS
<1>1. CASE UNCHANGED allVars
  BY <1>1 DEF allVars
<1>2. ASSUME NEW t \in Threads, CallProceed(t) \/ InCode(t) \/ Outside(t) PROVE [Next]_vars
  <2>1. CASE Outside(t)
    BY <2>1 DEF Outside, Next, Proceed
  <2>2. CASE GuardNew(t) \/ CreateInterpreter(t) \/ BeginNew(t) \/ EndNew(t) \/ BeginRun(t) \/ EndRun(t)
    BY Zenon, <2>2 DEF GuardNew, CreateInterpreter, BeginNew, EndNew, BeginRun, EndRun, Next, Proceed
  <2>3. CASE InApi(t) \/ CodeEnds(t) \/ InRun(t) \/ InCode(t)
    BY <2>3 DEF InApi, CodeEnds, InRun, InCode, WriteLog, CallMethod
  <2>4. CASE InMethod(t)
    BY Zenon, <2>4 DEF InMethod, ReadArguments, LoadBundleAndJobId, MethodReturns, Next, Proceed
  <2> QED
    BY <1>2, <2>1, <2>2, <2>3, <2>4 DEF CallProceed
<1> QED
  BY <1>1, <1>2 DEF CallsNext

(* Steps that leave every thread in or out of Python.                        *)
LEMMA SideKeeps ==
  ASSUME Side, UNCHANGED <<map, parts, cut, gil, hash>>, Mode(at', ret') = Mode(at, ret),
         \A u \in Threads : /\ pc'[u] \in ImportPCs <=> pc[u] \in ImportPCs
                            /\ pc'[u] \in RunPCs <=> pc[u] \in RunPCs
                            /\ pc'[u] \in NewPCs <=> pc[u] \in NewPCs
  PROVE  Side'
<1>1. UNCHANGED <<map, parts, cut>>
  OBVIOUS
<1>2. LogTypeOK'
  BY <1>1 DEF Side, LogTypeOK
<1>3. Where'
  BY DEF Side, Where
<1>4. Stands'
  BY <1>1 DEF Side, Stands
<1>5. Lines'
  BY <1>1 DEF Side, Lines
<1> QED
  BY <1>2, <1>3, <1>4, <1>5 DEF Side

(* Whoever is in Python holds the GIL, and nobody is when it is free.        *)
LEMMA InsideFacts ==
  ASSUME IInv, PyInv, Where, NEW t \in Threads
  PROVE  /\ gil = t /\ at # "out" => pc[t] \in PyPCs
         /\ pc[t] \in PyPCs => gil = t /\ at # "out"
         /\ Mode(at, ret) = "out" <=> at = "out"
         /\ gil = NoThread \/ (gil = t /\ pc[t] \notin PyPCs)
              => at = "out" /\ ret = Bottom /\ refs = {} /\ over = FALSE /\ err = FALSE
<1>1. Mode(at, ret) = "out" <=> at = "out"
  <2>1. at = "out" => ret = Bottom
    BY FitsFacts DEF PyInv, CallerAt
  <2>2. at = "out" => Mode(at, ret) = "out"
    BY <2>1, BaseStacks DEF Mode, NewAt
  <2>3. Mode(at, ret) = "out" => at = "out"
    BY DEF Mode
  <2> QED
    BY <2>2, <2>3
<1>2. Mode(at, ret) \in {"out", "import", "run", "function"}
  BY DEF Mode
<1>3. gil = t /\ at # "out" => pc[t] \in PyPCs
  BY <1>1, <1>2 DEF Where, PyPCs
<1>4. pc[t] \in PyPCs => gil = t /\ at # "out"
  BY <1>1 DEF IInv, Ownership, GilPCs, Where, PyPCs, ImportPCs, RunPCs
<1>5. gil = NoThread \/ (gil = t /\ pc[t] \notin PyPCs) => at = "out"
  BY <1>1, <1>2, <1>3, BundlesAssumption DEF Where
<1>6. at = "out" => ret = Bottom /\ refs = {} /\ over = FALSE /\ err = FALSE
  <2> SUFFICES ASSUME at = "out" PROVE ret = Bottom /\ refs = {} /\ over = FALSE /\ err = FALSE
    OBVIOUS
  <2>1. ret = Bottom /\ MayOwn(at) = {} /\ Owns(at, cb) = {} /\ err = FALSE
    BY FitsFacts, MayOwnTable, CallerTable DEF PyInv, CallerAt, Points, PrintAt, Errors
  <2> QED
    BY <2>1, BaseStacks DEF PyInv, Balanced, Owned, Held
<1> QED
  BY <1>1, <1>3, <1>4, <1>5, <1>6

(* Every C-API call of the Rust code.                                        *)
LEMMA InApiInv ==
  ASSUME CallsInv, NEW t \in Threads, InApi(t) \/ CodeEnds(t)
  PROVE  CallsInv'
<1>1. /\ PyInv /\ Side /\ gil = t /\ UNCHANGED cb
      /\ UNCHANGED <<map, parts, cut, gil, hash, pc>>
  BY DEF CallsInv, Side, InApi, CodeEnds, vars, python, lasting
<1>2. Kept
  <2>1. CASE InApi(t)
    BY <1>1, <2>1, JsonLoadsKeeps, JsonDumpsKeeps, PrintKeeps, NewInterfaceKeeps,
       RunArgumentsKeeps, ConvertKeeps, InitBundleDbKeeps, ErrorObjectKeeps, RequestKeeps DEF InApi
  <2>2. CASE CodeEnds(t)
    BY <1>1, <2>2, FunctionEndsKeeps, ImportKeeps DEF CodeEnds
  <2> QED
    BY <2>1, <2>2
<1>3. Side'
  BY <1>1, <1>2, SideKeeps DEF Kept
<1> QED
  BY <1>2, <1>3 DEF Kept, CallsInv, Side

(* What a bundle's code does.                                                *)
LEMMA InCodeInv ==
  ASSUME IInv, CallsInv, NEW t \in Threads, InCode(t)
  PROVE  CallsInv'
<1>0. PyInv /\ Side /\ gil = t /\ t # NoThread
  BY BundlesAssumption DEF CallsInv, Side, InCode
<1>1. ASSUME NEW m \in Methods, CallMethod(t, m) PROVE CallsInv'
  <2>1. Kept
    BY <1>0, <1>1, CallMethodKeeps
  <2>2. UNCHANGED <<map, parts, cut, gil, hash, pc>>
    BY <1>1 DEF CallMethod, vars, python, lasting
  <2>3. Side'
    BY <1>0, <2>1, <2>2, SideKeeps DEF Kept
  <2> QED
    BY <2>1, <2>3 DEF Kept, CallsInv, Side
<1>2. CASE WriteLog(t)
  <2>1. /\ at \in Code /\ UNCHANGED <<at, ret, refs, over, err, cb, map, pc, hash, gil>>
        /\ \/ parts[t] = NoBundle /\ parts' = [parts EXCEPT ![t] = hash[t]] /\ UNCHANGED cut
           \/ parts' = [parts EXCEPT ![t] = NoBundle] /\ cut' = [cut EXCEPT ![t] = FALSE]
    BY <1>2 DEF WriteLog, inPython, vars, python
  <2>2. pc[t] \in PyPCs
    BY Zenon, <1>0, <2>1, InsideFacts DEF Code, Side
  <2>3. PyInv'
    BY <1>0, <2>1 DEF PyInv, Balanced, Errors, Code
  <2>4. hash[t] \in BundleHashes
    BY DEF IInv, TypeOK
  <2>5. LogTypeOK'
    BY Zenon, <1>0, <2>1, <2>4 DEF Side, LogTypeOK
  <2>6. Where' /\ Stands'
    BY <1>0, <2>1 DEF Side, Where, Stands
  <2>7. Lines'
    BY <1>0, <2>1, <2>2 DEF Side, Lines, LogTypeOK, PyPCs
  <2> QED
    BY <2>3, <2>5, <2>6, <2>7 DEF CallsInv
<1> QED
  BY <1>1, <1>2 DEF InCode

(* The guards of run.                                                        *)
LEMMA InRunInv ==
  ASSUME IInv, CallsInv, NEW t \in Threads, InRun(t)
  PROVE  CallsInv'
<1>0. PyInv /\ Side /\ gil = t /\ t # NoThread /\ UNCHANGED <<pc, hash, gil>>
  BY BundlesAssumption DEF CallsInv, Side, InRun, vars, python
<1>1. CASE Guard(t)
  <2>1. PyInv' /\ Mode(at, ret) = "run" /\ Mode(at', ret') = "function"
    BY <1>0, <1>1, GuardKeeps
  <2>2. map' = [map EXCEPT ![t] = hash[t]] /\ UNCHANGED <<parts, cut>>
    BY <1>1 DEF Guard
  <2>3. hash[t] \in BundleHashes
    BY DEF IInv, TypeOK
  <2>4. LogTypeOK' /\ Lines'
    BY <1>0, <2>2, <2>3 DEF Side, LogTypeOK, Lines
  <2>5. Where'
    BY <1>0, <2>1 DEF Side, Where
  <2>6. Stands'
    BY <1>0, <2>1, <2>2 DEF Side, Stands, LogTypeOK
  <2> QED
    BY <2>1, <2>4, <2>5, <2>6 DEF CallsInv
<1>2. CASE RunReturns(t)
  <2>1. PyInv' /\ Mode(at, ret) = "function" /\ Mode(at', ret') = "run"
    BY <1>0, <1>2, RunReturnsKeeps
  <2>2. map' = [map EXCEPT ![t] = NoBundle] /\ UNCHANGED <<parts, cut>>
    BY <1>2 DEF RunReturns, Unguard
  <2>3. LogTypeOK' /\ Lines'
    BY <1>0, <2>2 DEF Side, LogTypeOK, Lines
  <2>4. Where'
    BY <1>0, <2>1 DEF Side, Where
  <2>5. pc[t] \notin NewPCs
    BY <1>0, <2>1 DEF Side, Where, RunPCs, NewPCs, ImportPCs
  <2>6. Stands'
    BY <1>0, <2>1, <2>2, <2>5 DEF Side, Stands, LogTypeOK
  <2> QED
    BY <2>1, <2>3, <2>4, <2>6 DEF CallsInv
<1> QED
  BY <1>1, <1>2 DEF InRun

(* The steps of a method that Bundles sees.                                  *)
LEMMA InMethodInv ==
  ASSUME IInv, CallsInv, NEW t \in Threads, InMethod(t)
  PROVE  CallsInv'
<1>0. PyInv /\ Side /\ gil = t /\ pc \in [Threads -> PCs]
  BY DEF CallsInv, Side, InMethod, IInv, TypeOK
<1>1. UNCHANGED <<map, parts, cut, gil, hash>>
  BY Zenon DEF InMethod, lasting, ReadArguments, LoadBundleAndJobId, MethodReturns, Callback, CallbackLoad,
     CallbackRequest, vars, python
<1>2. \A u \in Threads : /\ pc'[u] \in ImportPCs <=> pc[u] \in ImportPCs
                         /\ pc'[u] \in RunPCs <=> pc[u] \in RunPCs
                         /\ pc'[u] \in NewPCs <=> pc[u] \in NewPCs
  <2>1. \/ UNCHANGED pc
        \/ pc[t] = "importing" /\ Goto(t, "importLoad")
        \/ pc[t] = "running" /\ Goto(t, "load")
        \/ pc[t] = "load" /\ Goto(t, "request")
        \/ pc[t] = "request" /\ Goto(t, "running")
    BY Zenon DEF InMethod, ReadArguments, LoadBundleAndJobId, MethodReturns, Callback, CallbackLoad,
       CallbackRequest, vars
  <2> QED
    BY <1>0, <2>1 DEF Goto, ImportPCs, RunPCs, NewPCs
<1>3. Kept
  <2>1. CASE ReadArguments(t)
    BY <1>0, <2>1, ReadArgumentsKeeps
  <2>2. CASE LoadBundleAndJobId(t)
    <3>1. at = "load" /\ pc[t] = "load"
      BY <2>2 DEF LoadBundleAndJobId, CallbackLoad
    <3>2. ret \in {CallStack, ImportStack}
      BY <1>0, <3>1, MethodFacts DEF MethodFits, MethodAt
    <3>3. ret # ImportStack
      <4> SUFFICES ASSUME ret = ImportStack PROVE FALSE
        OBVIOUS
      <4>1. Mode(at, ret) = "import"
        BY <3>1, BaseStacks DEF Mode
      <4> QED
        BY <1>0, <3>1, <4>1 DEF Side, Where, ImportPCs
    <3> QED
      BY <1>0, <2>2, <3>2, <3>3, LoadKeeps
  <2>3. CASE MethodReturns(t)
    BY <1>0, <2>3, MethodReturnsKeeps
  <2> QED
    BY <2>1, <2>2, <2>3 DEF InMethod
<1>4. Side'
  BY <1>0, <1>1, <1>2, <1>3, SideKeeps DEF Kept
<1> QED
  BY <1>3, <1>4 DEF Kept, CallsInv, Side

(* A thread that is not in Python moves on and stays out of it.              *)
LEMMA MoveOutside ==
  ASSUME IInv, CallsInv, NEW t \in Threads, NEW p \in PCs, Goto(t, p),
         pc[t] \notin PyPCs, p \notin PyPCs, UNCHANGED <<inPython, parts, cut, registry>>,
         gil' = gil \/ (gil = NoThread /\ gil' = t) \/ (gil = t /\ gil' = NoThread),
         \/ UNCHANGED <<map, hash>> /\ (p \in NewPCs <=> pc[t] \in NewPCs)
         \/ map' = [map EXCEPT ![t] = hash[t]] /\ UNCHANGED hash /\ p \in NewPCs
         \/ map' = [map EXCEPT ![t] = NoBundle] /\ UNCHANGED hash /\ p \notin NewPCs
         \/ /\ UNCHANGED map /\ p \notin NewPCs /\ pc[t] \notin NewPCs
            /\ hash' \in [Threads -> BundleHashes]
            /\ \A u \in Threads : u # t => hash'[u] = hash[u]
  PROVE  CallsInv'
<1>0. /\ PyInv /\ t # NoThread /\ hash \in [Threads -> BundleHashes]
      /\ LogTypeOK /\ Where /\ Stands /\ Lines /\ TypeOK
  BY BundlesAssumption DEF CallsInv, IInv, TypeOK
<1>1. UNCHANGED <<at, ret, refs, over, err, cb>>
  BY DEF inPython
<1>3. pc' \in [Threads -> PCs] /\ \A u \in Threads : pc'[u] = IF u = t THEN p ELSE pc[u]
  BY <1>0, Move
<1>4. LogTypeOK'
  BY <1>0 DEF LogTypeOK
<1>5. Mode(at, ret) \in {"import", "run", "function"} => gil \in Threads /\ gil # t /\ gil # NoThread
  BY <1>0, BundlesAssumption DEF Where, PyPCs
<1>6. Mode(at', ret') = Mode(at, ret)
  BY <1>1
<1>7. Mode(at, ret) \in {"import", "run", "function"} => gil' = gil /\ pc'[gil] = pc[gil]
  BY <1>3, <1>5
<1>2. PyInv'
  <2>1. at = "null" => Mode(at, ret) \in {"import", "run", "function"}
    BY DEF Mode
  <2>2. at = "null" => Unknown' = Unknown
    BY <1>0, <1>5, <1>7, <2>1 DEF Unknown, LogTypeOK, registry
  <2>3. Errors'
    BY <1>0, <1>1, <2>2 DEF PyInv, Errors
  <2> QED
    BY <1>0, <1>1, <2>3 DEF PyInv, Balanced
<1>8. Where'
  <2>1. Mode(at, ret) = "out" => \A u \in Threads : pc'[u] \notin ImportPCs \cup RunPCs
    BY <1>0, <1>3 DEF Where, PyPCs
  <2>2. Mode(at, ret) = "import" => gil' \in Threads /\ pc'[gil'] \in ImportPCs
    BY <1>0, <1>7 DEF Where
  <2>3. Mode(at, ret) \in {"run", "function"} => gil' \in Threads /\ pc'[gil'] \in RunPCs
    BY <1>0, <1>7 DEF Where
  <2> QED
    BY <1>6, <2>1, <2>2, <2>3 DEF Where
<1>9. Stands'
  <2> SUFFICES ASSUME NEW u \in Threads
               PROVE  IF pc'[u] \in NewPCs \/ (gil' = u /\ Mode(at', ret') = "function")
                      THEN map'[u] = hash'[u] ELSE map'[u] = NoBundle
    BY DEF Stands
  <2>1. IF pc[u] \in NewPCs \/ (gil = u /\ Mode(at, ret) = "function")
        THEN map[u] = hash[u] ELSE map[u] = NoBundle
    BY <1>0 DEF Stands
  <2>2. CASE u # t
    <3>1. pc'[u] = pc[u] /\ map'[u] = map[u] /\ hash'[u] = hash[u]
      BY <1>0, <1>3, <2>2 DEF LogTypeOK
    <3>2. Mode(at, ret) = "function" => gil' = gil
      BY <1>7
    <3> QED
      BY <1>6, <2>1, <3>1, <3>2
  <2>3. CASE u = t
    <3>1. Mode(at, ret) = "function" => gil # t /\ gil' # t
      BY <1>5, <1>7
    <3>2. pc'[t] = p
      BY <1>3
    <3>3. \/ map'[t] = map[t] /\ hash'[t] = hash[t] /\ (p \in NewPCs <=> pc[t] \in NewPCs)
          \/ map'[t] = hash[t] /\ hash'[t] = hash[t] /\ p \in NewPCs
          \/ map'[t] = NoBundle /\ p \notin NewPCs
          \/ map'[t] = map[t] /\ p \notin NewPCs /\ pc[t] \notin NewPCs
      BY <1>0 DEF LogTypeOK
    <3> QED
      BY <1>6, <2>1, <2>3, <3>1, <3>2, <3>3
  <2> QED
    BY <2>2, <2>3
<1>10. Lines'
  <2> SUFFICES ASSUME NEW u \in Threads
               PROVE  /\ cut[u] \/ parts[u] \in {hash'[u], NoBundle}
                      /\ pc'[u] \notin ImportPCs \cup RunPCs => cut[u] \/ parts[u] = NoBundle
    BY DEF Lines
  <2>1. CASE u = t
    BY <1>0, <2>1 DEF Lines, PyPCs
  <2>2. CASE u # t
    BY <1>0, <1>3, <2>2 DEF Lines
  <2> QED
    BY <2>1, <2>2
<1> QED
  BY <1>2, <1>4, <1>8, <1>9, <1>10 DEF CallsInv

(* A thread gives up loading a bundle, or run, before any Python code ran,    *)
(* or goes on outside of Python.                                             *)
LEMMA OutsideInv ==
  ASSUME IInv, CallsInv, NEW t \in Threads,
         \/ Outside(t) \/ GuardNew(t) \/ CreateInterpreter(t)
         \/ EnterImport(t) /\ GiveUpNew(t)
         \/ EnterScope(t) /\ pc'[t] = "idle" /\ UNCHANGED callVars
  PROVE  CallsInv'
<1>p. /\ PyPCs = {"importing", "importLoad", "running", "load", "request"}
      /\ NewPCs = {"restore", "newInterp", "enter", "importing", "importLoad"}
      /\ PCs = {"idle", "read", "write", "recheck", "lockNew", "restore", "newInterp", "enter",
                "importing", "lockRun", "scope", "running", "importLoad", "load", "request"}
  BY DEF PyPCs, ImportPCs, RunPCs, NewPCs, PCs
<1>0. pc \in [Threads -> PCs] /\ hash \in [Threads -> BundleHashes]
  BY DEF IInv, TypeOK
<1>u. UNCHANGED callVars => UNCHANGED <<inPython, parts, cut, registry>> /\ UNCHANGED map
  BY DEF callVars, lasting
<1>1. CASE Outside(t)
  <2>0. UNCHANGED <<inPython, parts, cut, registry>> /\ UNCHANGED map
    BY <1>1, <1>u DEF Outside
  <2>1. ASSUME NEW b \in BundleHashes, RunBundle(t, b) PROVE CallsInv'
    <3>1. /\ pc[t] = "idle" /\ Goto(t, "read") /\ gil' = gil
          /\ hash' = [hash EXCEPT ![t] = b]
      BY Zenon, <2>1 DEF RunBundle, python
    <3>2. hash' \in [Threads -> BundleHashes] /\ \A u \in Threads : u # t => hash'[u] = hash[u]
      BY <1>0, <3>1
    <3> QED
      BY Zenon, <1>p, <2>0, <3>1, <3>2, MoveOutside
  <2>2. CASE ReadCache(t)
    <3>1. /\ pc[t] = "read" /\ gil' = gil /\ UNCHANGED hash
          /\ Goto(t, "lockRun") \/ Goto(t, "write")
      BY <2>2 DEF ReadCache, python
    <3> QED
      BY <1>p, <2>0, <3>1, MoveOutside
  <2>3. CASE LockCache(t)
    <3>1. pc[t] = "write" /\ Goto(t, "recheck") /\ gil' = gil /\ UNCHANGED hash
      BY <2>3 DEF LockCache, python
    <3> QED
      BY <1>p, <2>0, <3>1, MoveOutside
  <2>4. CASE Recheck(t)
    <3>1. /\ pc[t] = "recheck" /\ gil' = gil /\ UNCHANGED hash
          /\ Goto(t, "lockRun") \/ Goto(t, "lockNew")
      BY Zenon, <2>4 DEF Recheck, python
    <3> QED
      BY Zenon, <1>p, <2>0, <3>1, MoveOutside
  <2>5. CASE Restore(t)
    <3>1. pc[t] = "restore" /\ Goto(t, "newInterp") /\ gil = NoThread /\ gil' = t /\ UNCHANGED hash
      BY <2>5 DEF Restore
    <3> QED
      BY <1>p, <2>0, <3>1, MoveOutside
  <2>6. CASE LockRun(t)
    <3>1. pc[t] = "lockRun" /\ Goto(t, "scope") /\ gil' = gil /\ UNCHANGED hash
      BY <2>6 DEF LockRun, python
    <3> QED
      BY Zenon, <1>p, <2>0, <3>1, MoveOutside
  <2> QED
    BY <1>1, <2>1, <2>2, <2>3, <2>4, <2>5, <2>6 DEF Outside
<1>2. CASE GuardNew(t)
  <2>1. /\ pc[t] = "lockNew" /\ Goto(t, "restore") /\ gil' = gil /\ UNCHANGED hash
        /\ map' = [map EXCEPT ![t] = hash[t]] /\ UNCHANGED <<inPython, parts, cut, registry>>
    BY <1>2 DEF GuardNew, LockNew, python
  <2> QED
    BY Zenon, <1>p, <2>1, MoveOutside
<1>3. CASE CreateInterpreter(t)
  <2>1. pc[t] = "newInterp" /\ gil' = NoThread /\ UNCHANGED hash
    BY Zenon, <1>3 DEF CreateInterpreter, NewInterpreter
  <2>2. gil = t
    BY <2>1 DEF IInv, Ownership, GilPCs
  <2>3. \/ Goto(t, "enter") /\ UNCHANGED callVars
        \/ Goto(t, "idle") /\ GiveUpNew(t)
    <3>1. Goto(t, "enter") => pc'[t] = "enter"
      BY <1>0 DEF Goto
    <3>2. Goto(t, "idle") => pc'[t] = "idle"
      BY <1>0 DEF Goto
    <3> QED
      BY Zenon, <1>3, <3>1, <3>2 DEF CreateInterpreter, NewInterpreter, LoadFails, GiveUpNew
  <2>4. CASE Goto(t, "enter") /\ UNCHANGED callVars
    BY Zenon, <1>p, <1>u, <2>1, <2>2, <2>4, MoveOutside
  <2>5. CASE Goto(t, "idle") /\ GiveUpNew(t)
    BY Zenon, <1>p, <2>1, <2>2, <2>5, MoveOutside DEF GiveUpNew, Unguard
  <2> QED
    BY <2>3, <2>4, <2>5
<1>4. CASE EnterImport(t) /\ GiveUpNew(t)
  <2>1. pc[t] = "enter" /\ Goto(t, "idle") /\ gil' = gil /\ UNCHANGED hash
    <3>1. Goto(t, "importing") => pc'[t] = "importing"
      BY <1>0 DEF Goto
    <3> QED
      BY Zenon, <1>4, <3>1 DEF EnterImport, LoadFails, GiveUpNew
  <2> QED
    BY Zenon, <1>p, <1>4, <2>1, MoveOutside DEF GiveUpNew, Unguard
<1>5. CASE EnterScope(t) /\ pc'[t] = "idle" /\ UNCHANGED callVars
  <2>1. pc[t] = "scope" /\ Goto(t, "idle") /\ gil' = gil /\ UNCHANGED hash
    <3>1. Goto(t, "running") => pc'[t] = "running"
      BY <1>0 DEF Goto
    <3> QED
      BY Zenon, <1>5, <3>1 DEF EnterScope
  <2> QED
    BY Zenon, <1>p, <1>u, <1>5, <2>1, MoveOutside
<1> QED
  BY <1>1, <1>2, <1>3, <1>4, <1>5

(* A thread enters Python.                                                   *)
LEMMA EnterInv ==
  ASSUME IInv, CallsInv, NEW t \in Threads,
         \/ EnterImport(t) /\ pc'[t] = "importing" /\ Enter(Into("new", "loaded", "failed"))
         \/ /\ EnterScope(t) /\ pc'[t] = "running"
            /\ Enter(/\ at' = "loads"
                     /\ ret' = <<[ok |-> "function", null |-> "noDetails"],
                                 [ok |-> "result", null |-> "end"]>>)
  PROVE  CallsInv'
<1>0. /\ PyInv /\ t # NoThread /\ pc \in [Threads -> PCs] /\ LogTypeOK /\ Where /\ Stands /\ Lines
      /\ TypeOK
  BY BundlesAssumption DEF CallsInv, IInv, TypeOK
<1>1. UNCHANGED <<refs, over, err, cb, map, parts, cut>>
  BY DEF Enter, lasting
<1>2. /\ gil = NoThread /\ gil' = t /\ UNCHANGED hash
      /\ \/ pc[t] = "enter" /\ Goto(t, "importing") /\ Into("new", "loaded", "failed")
         \/ /\ pc[t] = "scope" /\ Goto(t, "running") /\ at' = "loads"
            /\ ret' = <<[ok |-> "function", null |-> "noDetails"],
                        [ok |-> "result", null |-> "end"]>>
  <2>1. Goto(t, "idle") => pc'[t] = "idle"
    BY <1>0 DEF Goto
  <2> QED
    BY Zenon, <2>1 DEF EnterImport, EnterScope, LoadFails, Enter
<1>3. at = "out" /\ ret = Bottom /\ refs = {} /\ over = FALSE /\ err = FALSE
  BY Zenon, <1>0, <1>2, InsideFacts
<1>4. \/ /\ pc[t] = "enter" /\ Goto(t, "importing") /\ at' = "new" /\ ret' = NewStack
      \/ /\ pc[t] = "scope" /\ Goto(t, "running") /\ at' = "loads"
         /\ ret' = Push(Addresses("function", "noDetails"), RunStack)
  BY <1>2, <1>3 DEF Into, Push, Addresses, NewStack, RunStack, Bottom
<1>5. /\ at' = "new" => Fits(at', ret', cb') /\ Mode(at', ret') = "import" /\ Held(ret') = {}
                        /\ Owns(at', cb') = {}
      /\ at' = "loads" => Fits(at', ret', cb') /\ Mode(at', ret') = "run" /\ Held(ret') = {}
                          /\ Owns(at', cb') = {}
  <2>1. CASE at' = "new" /\ ret' = NewStack
    BY <2>1, BaseStacks, NewTable DEF Fits, NewAt, Mode, Held
  <2>2. CASE at' = "loads" /\ ret' = Push(Addresses("function", "noDetails"), RunStack)
    <3>1. LoadsFits(ret', cb')
      BY <2>2 DEF LoadsFits
    <3>2. Marks(ret') = {"function"} \cup Marks(RunStack)
      <4>1. "function" \in Points /\ "noDetails" \in Points
        BY DEF Points, RunAt
      <4>2. RunStack \in Seq(Frame)
        BY BaseStacks
      <4> QED
        BY <2>2, <4>1, <4>2, CallFacts
    <3> QED
      BY Zenon, <2>2, <3>1, <3>2, BaseStacks, LoadsTable DEF Fits, LoadsAt, Mode, Held, NewAt
  <2> QED
    BY <1>4, <2>1, <2>2
<1>6. PyInv'
  <2>1. refs' = Owns(at', cb') \cup {} \cup Held(ret') /\ {} \in SUBSET MayOwn(at')
    BY Zenon, <1>1, <1>3, <1>4, <1>5
  <2> QED
    BY Zenon, <1>0, <1>1, <1>3, <1>4, <1>5, <2>1, ToKeeps DEF PyInv
<1>7. PICK p \in {"importing", "running"} : Goto(t, p) /\ (p = "importing" <=> at' = "new")
                                         /\ (p = "running" <=> at' = "loads")
                                         /\ (pc[t] = "enter" <=> p = "importing")
  BY Zenon, <1>4
<1>8. \A u \in Threads : pc'[u] = IF u = t THEN p ELSE pc[u]
  BY <1>0, <1>7 DEF Goto
<1>9. LogTypeOK'
  BY <1>0, <1>1 DEF LogTypeOK
<1>10. Where'
  BY <1>2, <1>4, <1>5, <1>7, <1>8 DEF Where, ImportPCs, RunPCs
<1>11. Stands'
  <2>1. \A u \in Threads : u # t => gil' # u /\ gil # u
    BY Zenon, <1>2, BundlesAssumption
  <2>2. pc[t] \in NewPCs <=> p \in NewPCs
    BY <1>4, <1>7 DEF NewPCs, ImportPCs
  <2>3. Mode(at', ret') # "function" /\ gil # t
    BY <1>0, <1>2, <1>4, <1>5
  <2> QED
    BY Zenon, <1>0, <1>1, <1>2, <1>8, <2>1, <2>2, <2>3 DEF Stands
<1>12. Lines'
  BY Zenon, <1>0, <1>1, <1>2, <1>7, <1>8 DEF Lines, ImportPCs, RunPCs
<1> QED
  BY <1>6, <1>9, <1>10, <1>11, <1>12 DEF CallsInv

(* A thread leaves Python.                                                   *)
LEMMA LeaveInv ==
  ASSUME IInv, CallsInv, NEW t \in Threads, EndNew(t) \/ EndRun(t)
  PROVE  CallsInv'
<1>0. /\ PyInv /\ t # NoThread /\ pc \in [Threads -> PCs] /\ LogTypeOK /\ Where /\ Stands /\ Lines
      /\ TypeOK /\ Ownership
  BY BundlesAssumption DEF CallsInv, IInv, TypeOK
<1>1. /\ at' = "out" /\ err' = FALSE /\ cut' = [cut EXCEPT ![t] = parts[t] # NoBundle]
      /\ refs' = {} /\ UNCHANGED <<ret, over, cb, parts>>
  BY Zenon DEF EndNew, EndRun, LeavePython
<1>2. /\ gil' = NoThread /\ UNCHANGED hash
      /\ \/ /\ pc[t] = "importing" /\ (Goto(t, "idle") \/ Goto(t, "lockRun"))
            /\ at \in {"loaded", "failed"} /\ map' = [map EXCEPT ![t] = NoBundle]
         \/ pc[t] = "running" /\ Goto(t, "idle") /\ at = "end" /\ UNCHANGED map
  BY Zenon DEF EndNew, EndRun, ImportEnds, RunEnds, LoadFails, Unguard
<1>3. ret = Bottom /\ over = FALSE
  BY <1>0, <1>2, FitsFacts DEF PyInv, CallerAt, Balanced
<1>4. PyInv'
  <2>1. Fits(at', ret', cb')
    BY <1>1, <1>3 DEF Fits, CallerAt
  <2>2. refs' = Owns(at', cb') \cup {} \cup Held(ret') /\ {} \in SUBSET MayOwn(at')
    BY <1>1, <1>3, CallerTable, BaseStacks DEF Held
  <2> QED
    BY Zenon, <1>0, <1>1, <1>3, <2>1, <2>2, ToKeeps DEF PyInv
<1>5. PICK p \in {"idle", "lockRun"} : Goto(t, p)
  BY <1>2
<1>6. \A u \in Threads : pc'[u] = IF u = t THEN p ELSE pc[u]
  BY <1>0, <1>5 DEF Goto
<1>7. gil = t /\ \A u \in Threads : u # t => gil # u /\ pc[u] \notin PyPCs
  BY <1>0, <1>2 DEF Ownership, GilPCs, PyPCs, ImportPCs, RunPCs
<1>8. LogTypeOK'
  BY <1>0, <1>1, <1>2 DEF LogTypeOK
<1>9. Mode(at', ret') = "out" /\ Mode(at, ret) # "function"
  BY Zenon, <1>1, <1>2, <1>3, BaseStacks DEF Mode, NewAt
<1>10. Where'
  BY Zenon, <1>6, <1>7, <1>9 DEF Where, PyPCs, ImportPCs, RunPCs
<1>11. Stands'
  <2> SUFFICES ASSUME NEW u \in Threads
               PROVE  IF pc'[u] \in NewPCs THEN map'[u] = hash'[u] ELSE map'[u] = NoBundle
    BY <1>9 DEF Stands
  <2>1. CASE u = t
    <3>1. pc'[t] \notin NewPCs
      BY <1>6 DEF NewPCs, ImportPCs
    <3>2. map'[t] = NoBundle
      BY <1>0, <1>2, <1>9 DEF LogTypeOK, Stands, NewPCs, ImportPCs
    <3> QED
      BY <2>1, <3>1, <3>2
  <2>2. CASE u # t
    <3>1. map'[u] = map[u] /\ pc'[u] = pc[u] /\ hash'[u] = hash[u]
      BY <1>0, <1>2, <1>6, <2>2 DEF LogTypeOK
    <3> QED
      BY <1>0, <1>7, <2>2, <3>1 DEF Stands
  <2> QED
    BY <2>1, <2>2
<1>12. Lines'
  <2> SUFFICES ASSUME NEW u \in Threads
               PROVE  /\ cut'[u] \/ parts[u] \in {hash[u], NoBundle}
                      /\ pc'[u] \notin ImportPCs \cup RunPCs => cut'[u] \/ parts[u] = NoBundle
    BY <1>1, <1>2 DEF Lines
  <2>1. CASE u = t
    BY Zenon, <1>0, <1>1, <2>1 DEF LogTypeOK
  <2>2. CASE u # t
    BY <1>0, <1>1, <1>6, <2>2 DEF LogTypeOK, Lines
  <2> QED
    BY <2>1, <2>2
<1> QED
  BY <1>4, <1>8, <1>10, <1>11, <1>12 DEF CallsInv

(* Nobody is in Python at first.                                             *)
LEMMA CallsInitInv == CallsInit => CallsInv
<1> SUFFICES ASSUME CallsInit PROVE CallsInv
  OBVIOUS
<1>1. /\ at = "out" /\ ret = Bottom /\ refs = {} /\ over = FALSE /\ err = FALSE /\ cb = "none"
      /\ pc = [t \in Threads |-> "idle"] /\ gil = NoThread
  BY DEF CallsInit, Init, Bottom
<1>2. PyInv
  <2>1. Fits(at, ret, cb)
    BY <1>1 DEF Fits, CallerAt
  <2>2. refs = Owns(at, cb) \cup {} \cup Held(ret) /\ {} \in SUBSET MayOwn(at)
    BY <1>1, CallerTable, BaseStacks DEF Held
  <2> QED
    BY Zenon, <1>1, <2>1, <2>2 DEF PyInv, Balanced, Owned, Errors
<1>3. LogTypeOK
  BY DEF CallsInit, LogTypeOK
<1>4. Mode(at, ret) = "out"
  BY <1>1, BaseStacks DEF Mode, NewAt
<1>5. Where
  BY <1>1, <1>4 DEF Where, ImportPCs, RunPCs
<1>6. Stands
  BY Zenon, <1>1, <1>4 DEF CallsInit, Stands, NewPCs, ImportPCs
<1>7. Lines
  BY Zenon DEF CallsInit, Lines
<1> QED
  BY <1>2, <1>3, <1>5, <1>6, <1>7 DEF CallsInv

(* No step breaks the invariant.                                             *)
LEMMA CallsStepInv == IInv /\ CallsInv /\ [CallsNext]_allVars => CallsInv'
<1> SUFFICES ASSUME IInv, CallsInv, [CallsNext]_allVars PROVE CallsInv'
  OBVIOUS
<1>1. CASE UNCHANGED allVars
  BY Zenon, <1>1 DEF allVars, vars, python, callVars, inPython, lasting, registry, CallsInv, PyInv,
     Balanced, Errors, Unknown, LogTypeOK, Where, Stands, Lines
<1>2. ASSUME NEW t \in Threads, CallProceed(t) \/ InCode(t) \/ Outside(t) PROVE CallsInv'
  <2>1. CASE BeginNew(t)
    BY Zenon, <2>1, OutsideInv, EnterInv DEF BeginNew
  <2>2. CASE BeginRun(t)
    BY Zenon, <2>2, OutsideInv, EnterInv DEF BeginRun
  <2> QED
    BY Zenon, <1>2, <2>1, <2>2, OutsideInv, LeaveInv, InApiInv, InMethodInv, InRunInv, InCodeInv
       DEF CallProceed
<1> QED
  BY <1>1, <1>2 DEF CallsNext

(* What happens inside Python's lock is invisible to Bundles: the detailed    *)
(* specification implements it, and everything proved of Bundles holds of it. *)
THEOREM CallsImplementBundles == CallsSpec => Spec
<1>1. CallsInit => Init
  BY DEF CallsInit
<1> QED
  BY <1>1, CallsRefines, PTL DEF CallsSpec, Spec

(* The inductive invariant holds throughout.                                *)
LEMMA CallsInductive == CallsSpec => []CallsInv /\ []IInv
BY CallsInitInv, CallsStepInv, CallsImplementBundles, Inductive, PTL DEF CallsSpec

-----------------------------------------------------------------------------
(* What outlives the call: the stored exception objects, and what was left    *)
(* behind in the interpreters.                                               *)

Registry ==
    /\ errors \subseteq BundleHashes \cup {NoBundle}
    /\ left = [b \in BundleHashes |-> IF b \in cached THEN 1 ELSE 0]

(* The caller of run owns nothing when it leaves, and BundleInterface::new     *)
(* the globals dictionary if it has loaded the bundle.                       *)
LEMMA CallerOwns ==
  ASSUME PyInv
  PROVE  /\ at \in {"out", "end", "failed"} => refs = {}
         /\ at = "loaded" => refs = {"p_global"}
<1>1. at \in {"out", "end", "failed", "loaded"} => ret = Bottom /\ MayOwn(at) = {}
  BY FitsFacts, MayOwnTable DEF PyInv, CallerAt, Points, PrintAt
<1>2. at \in {"out", "end", "failed", "loaded"} => refs = Owns(at, cb)
  BY <1>1, BaseStacks DEF PyInv, Balanced, Owned, Held
<1> QED
  BY <1>2, CallerTable

(* Only a thread that leaves BundleInterface::new with a bundle that was not    *)
(* cached leaves something in its interpreter.                               *)
LEMMA RegistryStep == IInv /\ CallsInv /\ Registry /\ [CallsNext]_allVars => Registry'
<1> SUFFICES ASSUME IInv, CallsInv, Registry, [CallsNext]_allVars PROVE Registry'
  OBVIOUS
<1>1. CASE UNCHANGED allVars
  BY <1>1 DEF allVars, vars, callVars, lasting, registry, Registry
<1>2. ASSUME NEW t \in Threads, CallProceed(t) \/ InCode(t) \/ Outside(t) PROVE Registry'
  <2>0. PyInv /\ hash[t] \in BundleHashes /\ map[t] \in BundleHashes \cup {NoBundle}
    BY DEF CallsInv, LogTypeOK, IInv, TypeOK
  <2>1. CASE UNCHANGED <<errors, left, cached>>
    BY <2>1 DEF Registry
  <2>2. CASE Outside(t)
    <3>1. UNCHANGED <<errors, left, cached>>
      BY Zenon, <2>2 DEF Outside, RunBundle, ReadCache, LockCache, Recheck, Restore, LockRun, callVars,
         lasting, registry
    <3> QED
      BY <2>1, <3>1
  <2>3. CASE GuardNew(t) \/ CreateInterpreter(t) \/ BeginNew(t) \/ BeginRun(t)
    <3>1. UNCHANGED <<errors, left, cached>>
      BY Zenon, <2>3 DEF GuardNew, CreateInterpreter, BeginNew, BeginRun, LockNew, NewInterpreter,
         EnterImport, EnterScope, GiveUpNew, Enter, callVars, lasting, registry
    <3> QED
      BY <2>1, <3>1
  <2>4. CASE CodeEnds(t) \/ InCode(t) \/ InMethod(t) \/ InRun(t)
    <3>1. UNCHANGED <<errors, left, cached>>
      BY Zenon, <2>4 DEF CodeEnds, InCode, InMethod, InRun, WriteLog, CallMethod, ReadArguments,
         LoadBundleAndJobId, MethodReturns, Guard, RunReturns, Callback, CallbackLoad,
         CallbackRequest, vars, lasting, registry
    <3> QED
      BY <2>1, <3>1
  <2>5. CASE InApi(t)
    <3>1. UNCHANGED <<left, cached>>
      BY <2>5 DEF InApi, vars
    <3>2. errors' \subseteq errors \cup {map[t]}
      BY Zenon, <2>5 DEF InApi, InitBundleDb, ErrorObject, GetBundleDbErrorOrAbort
    <3> QED
      BY <2>0, <3>1, <3>2 DEF Registry
  <2>6. CASE EndRun(t)
    <3>1. UNCHANGED <<errors, cached>> /\ refs = {}
      BY <2>0, <2>6, CallerOwns DEF EndRun, RunEnds, LeavePython
    <3>2. UNCHANGED left
      BY <2>6, <3>1 DEF EndRun, LeavePython
    <3> QED
      BY <2>1, <3>1, <3>2
  <2>7. CASE EndNew(t)
    <3>1. /\ pc[t] = "importing" /\ UNCHANGED errors
          /\ cached' = cached \/ cached' = cached \cup {hash[t]}
          /\ at = IF hash[t] \in cached' THEN "loaded" ELSE "failed"
          /\ left' = IF refs = {} THEN left ELSE [left EXCEPT ![hash[t]] = @ + 1]
      BY Zenon, <2>7 DEF EndNew, ImportEnds, LeavePython
    <3>2. hash[t] \notin cached
      BY <3>1 DEF IInv, Loading, LoadingPCs
    <3>3. CASE cached' = cached
      <4>1. refs = {}
        BY <2>0, <3>1, <3>2, <3>3, CallerOwns
      <4> QED
        BY <2>1, <3>1, <3>3, <4>1
    <3>4. CASE cached' = cached \cup {hash[t]}
      <4>1. refs = {"p_global"}
        BY <2>0, <3>1, <3>4, CallerOwns
      <4>2. left' = [left EXCEPT ![hash[t]] = left[hash[t]] + 1]
        BY <3>1, <4>1
      <4>3. left' = [b \in BundleHashes |-> IF b \in cached' THEN 1 ELSE 0]
        BY <2>0, <3>2, <3>4, <4>2 DEF Registry
      <4> QED
        BY <3>1, <4>3 DEF Registry
    <3> QED
      BY <3>1, <3>3, <3>4
  <2> QED
    BY Zenon, <1>2, <2>2, <2>3, <2>4, <2>5, <2>6, <2>7 DEF CallProceed
<1> QED
  BY <1>1, <1>2 DEF CallsNext

(* Nothing is stored and nothing left behind at first.                       *)
LEMMA RegistryInductive == CallsSpec => []Registry
<1>1. CallsInit => Registry
  BY DEF CallsInit, Init, Registry
<1> QED
  BY <1>1, RegistryStep, CallsInductive, PTL DEF CallsSpec

-----------------------------------------------------------------------------
(* The properties                                                            *)

(* The references, the return addresses and the error indicator keep their     *)
(* types.                                                                    *)
THEOREM CallsTypeCorrect == CallsSpec => []CallsTypeOK
<1>1. IInv /\ CallsInv /\ Registry => CallsTypeOK
  <2> SUFFICES ASSUME IInv, CallsInv, Registry PROVE CallsTypeOK
    OBVIOUS
  <2>1. at \in Points /\ ret \in Seq(Frame)
    BY FitsFacts DEF CallsInv, PyInv
  <2>2. refs \subseteq References
    <3>1. PICK X \in SUBSET MayOwn(at) : refs = Owns(at, cb) \cup X \cup Held(ret)
      BY DEF CallsInv, PyInv, Balanced, Owned
    <3>2. X \subseteq {"value", "traceback", "none"}
      BY <3>1 DEF MayOwn
    <3>3. Owns(at, cb) \subseteq References
      <4>1. LoadsOwns(at) \subseteq References /\ DumpsOwns(at) \subseteq References
        BY DEF LoadsOwns, DumpsOwns, References
      <4>2. NewOwns(at) \subseteq References /\ RunOwns(at) \subseteq References
        BY DEF NewOwns, RunOwns, Call, Globals, Modules, References
      <4>3. PrintOwns(at) \subseteq References /\ MethodOwns(at, cb) \subseteq References
        BY DEF PrintOwns, FormatCall, Formatted, MethodOwns, Result, References
      <4> QED
        BY <4>1, <4>2, <4>3 DEF Owns, References
    <3>4. Held(ret) \subseteq References
      BY HeldBound DEF References
    <3> QED
      BY Zenon, <3>1, <3>2, <3>3, <3>4 DEF References
  <2>3. left \in [BundleHashes -> Nat]
    BY DEF Registry
  <2> QED
    BY Zenon, <2>1, <2>2, <2>3 DEF IInv, CallsInv, PyInv, Balanced, LogTypeOK, Registry, CallsTypeOK
<1> QED
  BY <1>1, CallsInductive, RegistryInductive, PTL

(* On every path through the C-API calls of bundle_interface.rs and          *)
(* bundle_db.rs, failures included, each reference is released or given away   *)
(* once, but for the globals dictionary of a bundle that has been loaded: of    *)
(* that one is left in the interpreter of every cached bundle, and of others   *)
(* none.                                                                     *)
THEOREM ReferencesAlwaysBalanced == CallsSpec => []ReferencesBalanced
<1>1. CallsInv /\ Registry => ReferencesBalanced
  <2> SUFFICES ASSUME CallsInv, Registry PROVE ReferencesBalanced
    OBVIOUS
  <2>1. PyInv /\ ~over
    BY DEF CallsInv, PyInv, Balanced
  <2>2. \A b \in BundleHashes : left[b] = IF b \in cached THEN 1 ELSE 0
    BY DEF Registry
  <2> QED
    BY Zenon, <2>1, <2>2, CallerOwns DEF ReferencesBalanced
<1> QED
  BY <1>1, CallsInductive, RegistryInductive, PTL

(* A method returns NULL without an error only for a bundle that has no       *)
(* exception object and cannot be given one, it returns an object only        *)
(* without an error, and no C-API call starts with the error of another.     *)
THEOREM ErrorsAlwaysHandled == CallsSpec => []ErrorsHandled
<1>1. CallsInv => ErrorsHandled
  BY DEF CallsInv, PyInv, Errors, Unknown, ErrorsHandled
<1> QED
  BY <1>1, CallsInductive, PTL

(* A log line goes out under the bundle that wrote it, and a thread stands for *)
(* a bundle no longer than it works for it.                                  *)
THEOREM LinesAlwaysAttributed == CallsSpec => []LinesAttributed
<1>1. IInv /\ CallsInv => LinesAttributed
  <2> SUFFICES ASSUME IInv, CallsInv, NEW t \in Threads
               PROVE  /\ gil = t /\ at \in Code \cup {"args", "load"} => map[t] = hash[t]
                      /\ cut[t] \/ parts[t] \in {hash[t], NoBundle}
                      /\ pc[t] = "idle" => map[t] = NoBundle
    BY Zenon DEF LinesAttributed
  <2>1. ASSUME gil = t, at \in Code \cup {"args", "load"} PROVE map[t] = hash[t]
    <3>1. Mode(at, ret) \in {"import", "function"}
      <4>1. CASE at \in Code
        BY <4>1, CodeFacts, BaseStacks DEF CallsInv, Code, Mode, NewAt
      <4>2. CASE at \in {"args", "load"}
        <5>1. ret \in {CallStack, ImportStack}
          BY Zenon, <4>2, MethodFacts DEF CallsInv, MethodAt, MethodFits
        <5> QED
          BY <4>2, <5>1, BaseStacks DEF Mode, NewAt
      <4> QED
        BY <2>1, <4>1, <4>2
    <3> QED
      BY <2>1, <3>1 DEF CallsInv, Where, Stands, NewPCs
  <2>2. cut[t] \/ parts[t] \in {hash[t], NoBundle}
    BY DEF CallsInv, Lines
  <2>3. pc[t] = "idle" => map[t] = NoBundle
    <3>1. pc[t] = "idle" => gil # t /\ pc[t] \notin NewPCs
      BY DEF IInv, Ownership, GilPCs, NewPCs, ImportPCs
    <3> QED
      BY <3>1 DEF CallsInv, Stands
  <2> QED
    BY <2>1, <2>2, <2>3
<1> QED
  BY <1>1, CallsInductive, PTL
=============================================================================
