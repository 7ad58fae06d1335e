--------------------------- MODULE PortoMtnProofs ---------------------------
(***************************************************************************)
(* The address pool for every set of containers and addresses, every size  *)
(* of the buffer and every number of crashes: an address that a container  *)
(* holds is marked used and is held by it alone, unless it was given back  *)
(* under the container; and an undisturbed collection leaves nothing used  *)
(* that no container has.                                                  *)
(***************************************************************************)
EXTENDS PortoMtn, TLAPS

\* The entries come from the allocator; a container has no address before
\* UseAlloc.
PoolInv ==
  /\ granted \subseteq Ids
  /\ db \in [Ids -> {"absent", "free", "used"}]
  /\ \A id \in Ids : db[id] # "absent" => id \in granted
  /\ alloc \in [Containers -> Ids \cup {None}]
  /\ porto \in [Containers -> {"absent", "stopped", "running", "dead"}]
  /\ spawn \in [Containers -> {"idle", "create", "props", "start", "returned", "failed"}]
  /\ \A c \in Containers : spawn[c] \in {"idle", "create"} => alloc[c] = None

IInv == PoolInv /\ HeldIsUsed /\ PoolExclusive

\* RequestAllocs brings only addresses that were not granted before.
LEMMA FreshAllocs ==
  /\ \A S \in RequestAllocs : S \subseteq Ids \ granted
  /\ \A S \in PartOfAllocs : S \subseteq Ids \ granted
  BY DEF RequestAllocs, PartOfAllocs, kSubset

\* A step that makes no container hold an address it did not hold before, and
\* frees no entry but under a container it puts into misfreed, keeps IInv.
LEMMA FrameStep ==
  ASSUME IInv, PoolInv', misfreed \subseteq misfreed',
         \A c \in Containers : Holding(c)' => Holding(c) /\ alloc'[c] = alloc[c],
         \A c \in Containers : Holding(c) /\ c \notin misfreed' /\ db[alloc[c]] = "used"
                                => db'[alloc[c]] = "used"
  PROVE  IInv'
<1>1. HeldIsUsed'
  BY DEF IInv, HeldIsUsed
<1>2. PoolExclusive'
  BY DEF IInv, PoolExclusive
<1> QED
  BY <1>1, <1>2 DEF IInv

\* A step that leaves the pool and the addresses alone.
LEMMA LocalStep ==
  ASSUME IInv, UNCHANGED <<granted, db, alloc, misfreed>>, PoolInv',
         \A c \in Containers : Holding(c)' => Holding(c)
  PROVE  IInv'
  BY FrameStep

\* Giving an address back.
LEMMA UnuseStep ==
  ASSUME IInv, NEW id, UnuseAlloc(id), UNCHANGED <<alloc, porto, spawn>>
  PROVE  IInv'
<1>1. PoolInv'
  BY Zenon DEF IInv, PoolInv, UnuseAlloc, FreeDbAlloc
<1>2. misfreed \subseteq misfreed'
  BY DEF UnuseAlloc
<1>3. \A c \in Containers : Holding(c)' => Holding(c) /\ alloc'[c] = alloc[c]
  BY DEF Holding, Spawning
<1>4. ASSUME NEW c \in Containers, Holding(c), c \notin misfreed', db[alloc[c]] = "used"
      PROVE  db'[alloc[c]] = "used"
  <2>1. alloc[c] # id /\ alloc[c] \in Ids
    BY <1>4 DEF UnuseAlloc, Holding, IInv, PoolInv
  <2> QED
    BY <1>4, <2>1 DEF UnuseAlloc, FreeDbAlloc, IInv, PoolInv
<1> QED
  BY <1>1, <1>2, <1>3, <1>4, FrameStep

\* Taking an address: it was free or unknown, so no container held it.
LEMMA UseAllocStep ==
  ASSUME IInv, NEW c \in Containers, UseAlloc(c)
  PROVE  IInv'
<1>1. PICK id \in Ids : GetDbAlloc(id) /\ alloc' = [alloc EXCEPT ![c] = id]
  BY Zenon DEF UseAlloc
<1>2. spawn' = [spawn EXCEPT ![c] = "props"] /\ UNCHANGED <<porto, misfreed>>
  BY DEF UseAlloc
<1>3. PICK S \in SUBSET (Ids \ granted) : granted' = granted \cup S /\ PutAllocs(S, {id})
                                          /\ (db[id] = "free" \/ id \in S)
  <2>1. CASE \E i \in Ids : DbAllocIsFree(i)
    BY <1>1, <2>1 DEF GetDbAlloc, DbAllocIsFree
  <2>2. CASE ~\E i \in Ids : DbAllocIsFree(i)
    BY <1>1, <2>2, FreshAllocs, Zenon DEF GetDbAlloc
  <2> QED
    BY <2>1, <2>2
<1>4. db' = [i \in Ids |-> IF i = id THEN "used" ELSE IF i \in S THEN "free" ELSE db[i]]
  BY <1>3 DEF PutAllocs
<1>5. db[id] # "used" /\ \A i \in S : db[i] = "absent"
  BY <1>3 DEF IInv, PoolInv
<1>6. PoolInv'
  <2>1. granted' \subseteq Ids /\ db' \in [Ids -> {"absent", "free", "used"}]
    BY <1>3, <1>4 DEF IInv, PoolInv
  <2>2. \A i \in Ids : db'[i] # "absent" => i \in granted'
    BY <1>3, <1>4 DEF IInv, PoolInv
  <2> QED
    BY <1>1, <1>2, <2>1, <2>2 DEF IInv, PoolInv
<1>7. \A d \in Containers : d # c => (Holding(d)' <=> Holding(d)) /\ alloc'[d] = alloc[d]
  BY <1>1, <1>2 DEF Holding, Spawning, IInv, PoolInv
<1>8. alloc'[c] = id
  BY <1>1 DEF IInv, PoolInv
<1>9. \A d \in Containers : Holding(d) /\ d \notin misfreed => db[alloc[d]] = "used" /\ alloc[d] \in Ids
  BY DEF IInv, HeldIsUsed, PoolInv, Holding
<1>10. HeldIsUsed'
  BY <1>2, <1>4, <1>5, <1>7, <1>8, <1>9 DEF HeldIsUsed
<1>11. PoolExclusive'
  BY <1>2, <1>5, <1>7, <1>8, <1>9 DEF IInv, PoolExclusive
<1> QED
  BY <1>6, <1>10, <1>11 DEF IInv

\* IInv is inductive.
THEOREM Invariance == Spec => []IInv
<1>1. Init => IInv
  BY DEF Init, NoEntries, IInv, PoolInv, HeldIsUsed, PoolExclusive, Holding
<1>2. IInv /\ [Next]_vars => IInv'
  <2> SUFFICES ASSUME IInv, [Next]_vars PROVE IInv'
    OBVIOUS
  <2> USE DEF disk, cleaning, waiting
  <2>1. ASSUME UNCHANGED vars PROVE IInv'
    <3>1. UNCHANGED <<granted, db, alloc, misfreed, porto, spawn>>
      BY <2>1 DEF vars
    <3>2. PoolInv' /\ \A x \in Containers : Holding(x)' => Holding(x)
      BY <3>1 DEF IInv, PoolInv, Holding, Spawning
    <3> QED
      BY <3>1, <3>2, LocalStep
  <2>2. ASSUME NEW c \in Containers, Create(c) PROVE IInv'
    <3>1. UNCHANGED <<granted, db, alloc, misfreed>>
      BY <2>2 DEF Create, Spawn
    <3>2. PoolInv' /\ \A x \in Containers : Holding(x)' => Holding(x)
      BY <2>2, <3>1 DEF Create, Spawn, IInv, PoolInv, Holding, Spawning
    <3> QED
      BY <3>1, <3>2, LocalStep
  <2>3. ASSUME NEW c \in Containers, NoMtn(c) PROVE IInv'
    <3>1. UNCHANGED <<granted, db, alloc, misfreed>>
      BY <2>3 DEF NoMtn, Spawn
    <3>2. PoolInv' /\ \A x \in Containers : Holding(x)' => Holding(x)
      BY <2>3, <3>1 DEF NoMtn, Spawn, IInv, PoolInv, Holding, Spawning
    <3> QED
      BY <3>1, <3>2, LocalStep
  <2>4. ASSUME NEW c \in Containers, SetProperties(c) PROVE IInv'
    <3>1. UNCHANGED <<granted, db, alloc, misfreed>>
      BY <2>4 DEF SetProperties, Spawn
    <3>2. PoolInv' /\ \A x \in Containers : Holding(x)' => Holding(x)
      BY <2>4, <3>1 DEF SetProperties, Spawn, IInv, PoolInv, Holding, Spawning
    <3> QED
      BY <3>1, <3>2, LocalStep
  <2>5. ASSUME NEW c \in Containers, SetPropertiesFails(c) PROVE IInv'
    <3>1. UNCHANGED <<granted, db, alloc, misfreed>>
      BY <2>5 DEF SetPropertiesFails, CreateContainerFails, Spawn
    <3>2. PoolInv' /\ \A x \in Containers : Holding(x)' => Holding(x)
      BY <2>5, <3>1 DEF SetPropertiesFails, CreateContainerFails, Spawn, IInv, PoolInv, Holding, Spawning
    <3> QED
      BY <3>1, <3>2, LocalStep
  <2>6. ASSUME NEW c \in Containers, Start(c) PROVE IInv'
    <3>1. UNCHANGED <<granted, db, alloc, misfreed>>
      BY <2>6 DEF Start, Spawn
    <3>2. PoolInv' /\ \A x \in Containers : Holding(x)' => Holding(x)
      BY <2>6, <3>1 DEF Start, Spawn, IInv, PoolInv, Holding, Spawning
    <3> QED
      BY <3>1, <3>2, LocalStep
  <2>7. ASSUME NEW c \in Containers, StartFails(c) PROVE IInv'
    <3>1. UNCHANGED <<granted, db, alloc, misfreed>>
      BY <2>7 DEF StartFails, Spawn
    <3>2. PoolInv' /\ \A x \in Containers : Holding(x)' => Holding(x)
      BY <2>7, <3>1 DEF StartFails, Spawn, IInv, PoolInv, Holding, Spawning
    <3> QED
      BY <3>1, <3>2, LocalStep
  <2>8. ASSUME NEW c \in Containers, ClientKill(c) PROVE IInv'
    <3>1. UNCHANGED <<granted, db, alloc, misfreed>>
      BY <2>8 DEF ClientKill, PortoKill
    <3>2. PoolInv' /\ \A x \in Containers : Holding(x)' => Holding(x)
      BY <2>8, <3>1 DEF ClientKill, PortoKill, IInv, PoolInv, Holding, Spawning
    <3> QED
      BY <3>1, <3>2, LocalStep
  <2>9. ASSUME NEW c \in Containers, WaitKill(c) PROVE IInv'
    <3>1. UNCHANGED <<granted, db, alloc, misfreed>>
      BY <2>9 DEF WaitKill
    <3>2. PoolInv' /\ \A x \in Containers : Holding(x)' => Holding(x)
      BY <2>9, <3>1 DEF WaitKill, IInv, PoolInv, Holding, Spawning
    <3> QED
      BY <3>1, <3>2, LocalStep
  <2>10. ASSUME NEW c \in Containers, WorkerExits(c) PROVE IInv'
    <3>1. UNCHANGED <<granted, db, alloc, misfreed>>
      BY <2>10 DEF WorkerExits
    <3>2. PoolInv' /\ \A x \in Containers : Holding(x)' => Holding(x)
      BY <2>10, <3>1 DEF WorkerExits, IInv, PoolInv, Holding, Spawning
    <3> QED
      BY <3>1, <3>2, LocalStep
  <2>11. ASSUME NEW a \in Actors, NEW c \in Containers, CleanupCheck(a, c) PROVE IInv'
    <3>1. UNCHANGED <<granted, db, alloc, misfreed>>
      BY <2>11 DEF CleanupCheck, Cleanup
    <3>2. PoolInv' /\ \A x \in Containers : Holding(x)' => Holding(x)
      BY <2>11, <3>1 DEF CleanupCheck, Cleanup, IInv, PoolInv, Holding, Spawning
    <3> QED
      BY <3>1, <3>2, LocalStep
  <2>12. ASSUME NEW a \in Actors, NEW c \in Containers, CleanupMark(a, c) PROVE IInv'
    <3>1. UNCHANGED <<granted, db, alloc, misfreed>>
      BY <2>12 DEF CleanupMark, Cleanup
    <3>2. PoolInv' /\ \A x \in Containers : Holding(x)' => Holding(x)
      BY <2>12, <3>1 DEF CleanupMark, Cleanup, IInv, PoolInv, Holding, Spawning
    <3> QED
      BY <3>1, <3>2, LocalStep
  <2>13. ASSUME NEW a \in Actors, NEW c \in Containers, CleanupDestroy(a, c) PROVE IInv'
    <3>1. UNCHANGED <<granted, db, alloc, misfreed>>
      BY <2>13 DEF CleanupDestroy, Cleanup
    <3>2. PoolInv' /\ \A x \in Containers : Holding(x)' => Holding(x)
      BY <2>13, <3>1 DEF CleanupDestroy, Cleanup, IInv, PoolInv, Holding, Spawning
    <3> QED
      BY <3>1, <3>2, LocalStep
  <2>14. ASSUME GcList PROVE IInv'
    <3>1. UNCHANGED <<granted, db, alloc, misfreed>>
      BY <2>14 DEF GcList, Gc
    <3>2. PoolInv' /\ \A x \in Containers : Holding(x)' => Holding(x)
      BY <2>14, <3>1 DEF GcList, Gc, IInv, PoolInv, Holding, Spawning
    <3> QED
      BY <3>1, <3>2, LocalStep
  <2>15. ASSUME GcUsed PROVE IInv'
    <3>1. UNCHANGED <<granted, db, alloc, misfreed>>
      BY <2>15 DEF GcUsed, Gc
    <3>2. PoolInv' /\ \A x \in Containers : Holding(x)' => Holding(x)
      BY <2>15, <3>1 DEF GcUsed, Gc, IInv, PoolInv, Holding, Spawning
    <3> QED
      BY <3>1, <3>2, LocalStep
  <2>16. ASSUME NEW c \in Containers, GcScan(c) PROVE IInv'
    <3>1. UNCHANGED <<granted, db, alloc, misfreed>>
      BY <2>16 DEF GcScan, Gc
    <3>2. PoolInv' /\ \A x \in Containers : Holding(x)' => Holding(x)
      BY <2>16, <3>1 DEF GcScan, Gc, IInv, PoolInv, Holding, Spawning
    <3> QED
      BY <3>1, <3>2, LocalStep
  <2>17. ASSUME GcDestroy PROVE IInv'
    <3>1. UNCHANGED <<granted, db, alloc, misfreed>>
      BY <2>17 DEF GcDestroy, Gc
    <3>2. PoolInv' /\ \A x \in Containers : Holding(x)' => Holding(x)
      BY <2>17, <3>1 DEF GcDestroy, Gc, IInv, PoolInv, Holding, Spawning
    <3> QED
      BY <3>1, <3>2, LocalStep
  <2>18. ASSUME GcDone PROVE IInv'
    <3>1. UNCHANGED <<granted, db, alloc, misfreed>>
      BY <2>18 DEF GcDone, Gc
    <3>2. PoolInv' /\ \A x \in Containers : Holding(x)' => Holding(x)
      BY <2>18, <3>1 DEF GcDone, Gc, IInv, PoolInv, Holding, Spawning
    <3> QED
      BY <3>1, <3>2, LocalStep
  <2>19. ASSUME SaveRenameFails PROVE IInv'
    <3>1. UNCHANGED <<granted, db, alloc, misfreed>>
      BY <2>19 DEF SaveRenameFails
    <3>2. PoolInv' /\ \A x \in Containers : Holding(x)' => Holding(x)
      BY <2>19, <3>1 DEF SaveRenameFails, IInv, PoolInv, Holding, Spawning
    <3> QED
      BY <3>1, <3>2, LocalStep
  <2>20. ASSUME NEW c \in Containers, UseAlloc(c) PROVE IInv'
    BY <2>20, UseAllocStep
  <2>21. ASSUME NEW c \in Containers, UseAllocFails(c) PROVE IInv'
    <3>1. PICK S \in SUBSET (Ids \ granted) : granted' = granted \cup S
      BY <2>21, FreshAllocs DEF UseAllocFails
    <3>2. UNCHANGED <<db, alloc, misfreed>>
      BY <2>21 DEF UseAllocFails
    <3>3. PoolInv' /\ \A x \in Containers : Holding(x)' => Holding(x)
      BY <2>21, <3>1, <3>2 DEF UseAllocFails, CreateContainerFails, Spawn, IInv, PoolInv, Holding, Spawning
    <3> QED
      BY <3>2, <3>3, FrameStep
  <2>22. ASSUME BindAllocs \/ BindAllocsFails PROVE IInv'
    <3>1. UNCHANGED <<alloc, misfreed, porto, spawn>>
      BY <2>22 DEF BindAllocs, BindAllocsFails
    <3>2. PICK S \in SUBSET (Ids \ granted) :
            granted' = granted \cup S /\ (db' = db \/ PutAllocs(S, {}))
      BY <2>22, FreshAllocs DEF BindAllocs, BindAllocsFails
    <3>3. \A id \in Ids : db'[id] = db[id] \/ (id \in S /\ db'[id] = "free")
      BY <3>2 DEF PutAllocs
    <3>4. db' \in [Ids -> {"absent", "free", "used"}]
      BY <3>2 DEF PutAllocs, IInv, PoolInv
    <3>5. PoolInv'
      BY <3>1, <3>2, <3>3, <3>4 DEF IInv, PoolInv
    <3>6. \A x \in Containers : Holding(x)' => Holding(x)
      BY <3>1 DEF Holding, Spawning
    <3>7. \A x \in Containers : Holding(x) /\ db[alloc[x]] = "used" => db'[alloc[x]] = "used"
      BY <3>2, <3>3 DEF Holding, IInv, PoolInv
    <3> QED
      BY <3>1, <3>5, <3>6, <3>7, FrameStep
  <2>23. ASSUME NEW a \in Actors, NEW c \in Containers, CleanupUnuse(a, c) PROVE IInv'
    <3>1. UNCHANGED <<alloc, porto, spawn>>
      BY <2>23 DEF CleanupUnuse, Cleanup
    <3>2. CASE UnuseAlloc(alloc[c])
      BY <3>1, <3>2, UnuseStep
    <3>3. CASE UNCHANGED <<disk, misfreed>>
      <4>1. PoolInv' /\ \A x \in Containers : Holding(x)' => Holding(x)
        BY <3>1, <3>3 DEF IInv, PoolInv, Holding, Spawning
      <4> QED
        BY <3>1, <3>3, <4>1, LocalStep
    <3> QED
      BY <2>23, <3>2, <3>3 DEF CleanupUnuse
  <2>24. ASSUME NEW id \in Ids, GcFree(id) PROVE IInv'
    <3>1. UNCHANGED <<alloc, porto, spawn>>
      BY <2>24 DEF GcFree, Gc
    <3>2. CASE UnuseAlloc(id)
      BY <3>1, <3>2, UnuseStep
    <3>3. CASE UNCHANGED <<disk, misfreed>>
      <4>1. PoolInv' /\ \A x \in Containers : Holding(x)' => Holding(x)
        BY <3>1, <3>3 DEF IInv, PoolInv, Holding, Spawning
      <4> QED
        BY <3>1, <3>3, <4>1, LocalStep
    <3> QED
      BY <2>24, <3>2, <3>3 DEF GcFree
  <2>25. ASSUME Crash PROVE IInv'
    <3>1. UNCHANGED <<granted, db, porto, misfreed>>
      BY <2>25 DEF Crash
    <3>2. PoolInv'
      BY <2>25, <3>1 DEF Crash, IInv, PoolInv
    <3>3. \A x \in Containers : Holding(x)' => Holding(x) /\ alloc'[x] = alloc[x]
      BY <2>25, <3>1 DEF Crash, Holding, Spawning
    <3> QED
      BY <3>1, <3>2, <3>3, FrameStep
  <2>26. ASSUME Restart PROVE IInv'
    <3>1. UNCHANGED <<granted, alloc, porto, spawn, misfreed>>
      BY <2>26 DEF Restart, New
    <3>2. \/ db' = db
          \/ db' = [id \in Ids |-> IF id \in granted /\ db[id] = "absent" THEN "free" ELSE db[id]]
      BY <2>26 DEF Restart, New, PoolInit
    <3>3. PoolInv'
      BY <3>1, <3>2 DEF IInv, PoolInv
    <3>4. \A x \in Containers : Holding(x)' => Holding(x)
      BY <3>1 DEF Holding, Spawning
    <3>5. \A x \in Containers : Holding(x) /\ db[alloc[x]] = "used" => db'[alloc[x]] = "used"
      BY <3>2 DEF Holding, IInv, PoolInv
    <3> QED
      BY <3>1, <3>3, <3>4, <3>5, FrameStep
  <2>27. ASSUME Recreate PROVE IInv'
    <3>1. UNCHANGED <<granted, alloc, porto, spawn>>
      BY <2>27, Zenon DEF Recreate, New
    <3>2. \/ db' = NoEntries
          \/ db' = [id \in Ids |-> IF id \in granted /\ NoEntries[id] = "absent" THEN "free" ELSE NoEntries[id]]
      BY <2>27 DEF Recreate, New, PoolInit
    <3>3. PoolInv'
      BY <3>1, <3>2 DEF NoEntries, IInv, PoolInv
    <3>4. \A x \in Containers : Holding(x)' => Holding(x)
      BY <3>1 DEF Holding, Spawning
    <3>5. misfreed \subseteq misfreed' /\ \A x \in Containers : Holding(x) => x \in misfreed'
      BY <2>27 DEF Recreate
    <3> QED
      BY <3>1, <3>3, <3>4, <3>5, FrameStep
  <2> QED
    BY <2>1, <2>2, <2>3, <2>4, <2>5, <2>6, <2>7, <2>8, <2>9, <2>10, <2>11, <2>12, <2>13,
       <2>14, <2>15, <2>16, <2>17, <2>18, <2>19, <2>20, <2>21, <2>22, <2>23, <2>24, <2>25, <2>26, <2>27
       DEF Next, Pool, Collect, SpawnStep, CleanupStep
<1> QED
  BY <1>1, <1>2, PTL DEF Spec

\* The pool hands no address to two containers (UseAlloc, BindAllocs, PoolInit).
THEOREM AddressesExclusive == Spec => []PoolExclusive
  BY Invariance, PTL DEF IInv

\* The entry of an address in use stays marked, over crashes and restarts.
THEOREM AddressesMarked == Spec => []HeldIsUsed
  BY Invariance, PTL DEF IInv

\* Once a database has been put aside, no step loses an entry (CfgInit).
THEOREM EntriesKept == Spec => RecreatedOnce
<1> DEFINE A == backup => \A id \in Ids : db[id] # "absent" => db'[id] # "absent"
<1>1. PoolInv /\ [Next]_vars => [A]_vars
  <2> SUFFICES ASSUME PoolInv, Next, backup, NEW id \in Ids, db[id] # "absent"
               PROVE  db'[id] # "absent"
    OBVIOUS
  <2> USE DEF disk
  <2>1. ASSUME \E i : FreeDbAlloc(i) PROVE db'[id] # "absent"
    BY <2>1 DEF FreeDbAlloc, PoolInv
  <2>2. ASSUME \E S, T : PutAllocs(S, T) PROVE db'[id] # "absent"
    BY <2>2 DEF PutAllocs
  <2>3. ASSUME Pool PROVE db'[id] # "absent"
    BY <2>2, <2>3, Zenon DEF Pool, BindAllocs, BindAllocsFails
  <2>4. ASSUME NEW c \in Containers, SpawnStep(c) PROVE db'[id] # "absent"
    BY <2>2, <2>4, Zenon DEF SpawnStep, Create, UseAlloc, GetDbAlloc, NoMtn, UseAllocFails, SetProperties,
                      SetPropertiesFails, Start, StartFails
  <2>5. ASSUME NEW c \in Containers, ClientKill(c) \/ WaitKill(c) \/ WorkerExits(c)
        PROVE  db'[id] # "absent"
    BY <2>5, Zenon DEF ClientKill, WaitKill, WorkerExits
  <2>6. ASSUME NEW a \in Actors, NEW c \in Containers, CleanupStep(a, c) PROVE db'[id] # "absent"
    BY <2>1, <2>6, Zenon DEF CleanupStep, CleanupCheck, CleanupUnuse, CleanupMark, CleanupDestroy, UnuseAlloc
  <2>7. ASSUME Collect PROVE db'[id] # "absent"
    BY <2>1, <2>7, Zenon DEF Collect, GcList, GcUsed, GcDestroy, GcDone, GcScan, GcFree, UnuseAlloc
  <2>8. ASSUME Crash \/ SaveRenameFails PROVE db'[id] # "absent"
    BY <2>8, Zenon DEF Crash, SaveRenameFails
  <2>9. ASSUME Restart PROVE db'[id] # "absent"
    BY <2>9 DEF Restart, New, PoolInit
  <2>10. ~Recreate
    BY DEF Recreate, MayRecreate
  <2> QED
    BY <2>3, <2>4, <2>5, <2>6, <2>7, <2>8, <2>9, <2>10 DEF Next
<1> QED
  BY <1>1, Invariance, PTL DEF Spec, RecreatedOnce, IInv

\* The box and its pool stay well typed, and only what the allocator granted
\* is ever in the database.
THEOREM TypeCorrect == Spec => []TypeOK
<1>1. Init => TypeOK
  <2> SUFFICES ASSUME Init PROVE TypeOK
    OBVIOUS
  <2>1. cleaned \in [Containers -> BOOLEAN]
    BY Zenon DEF Init
  <2>2. step \in [Actors -> [Containers -> {"idle", "check", "unuse", "mark", "destroy", "done"}]]
    BY DEF Init
  <2>3. bucket \in BOOLEAN /\ backup \in BOOLEAN /\ spawned \in BOOLEAN
    BY Zenon DEF Init
  <2>4. doomed \in Containers \cup {None}
    BY Zenon DEF Init
  <2> QED
    BY <2>1, <2>2, <2>3, <2>4, BoundAssumption DEF Init, NoEntries, TypeOK
<1>2. TypeOK /\ [Next]_vars => TypeOK'
  <2> SUFFICES ASSUME TypeOK, [Next]_vars PROVE TypeOK'
    OBVIOUS
  <2> USE BoundAssumption DEF TypeOK, disk, cleaning, waiting
  <2>1. ASSUME UNCHANGED vars PROVE TypeOK'
    BY <2>1 DEF vars
  <2>2. ASSUME Pool PROVE TypeOK'
    <3>1. /\ granted' \subseteq Ids /\ granted \subseteq granted'
          /\ db' \in [Ids -> {"absent", "free", "used"}]
          /\ \A id \in Ids : db'[id] # "absent" => id \in granted' /\ (db[id] # "absent" \/ bucket')
      BY <2>2, FreshAllocs DEF Pool, BindAllocs, BindAllocsFails, PutAllocs
    <3>2. bucket' \in BOOLEAN /\ (bucket => bucket')
      BY <2>2, Zenon DEF Pool, BindAllocs, BindAllocsFails
    <3>3. UNCHANGED <<backup, porto, alloc, spawn, containers, cleaning, waiting, crashes, misfreed, spawned>>
      BY <2>2, Zenon DEF Pool, BindAllocs, BindAllocsFails
    <3> QED
      BY <3>1, <3>2, <3>3
  <2>3. ASSUME NEW c \in Containers, UseAlloc(c) PROVE TypeOK'
    BY <2>3, FreshAllocs DEF UseAlloc, Spawn, GetDbAlloc, DbAllocIsFree, PutAllocs
  <2>4. ASSUME NEW c \in Containers, UseAllocFails(c) PROVE TypeOK'
    BY <2>4, FreshAllocs DEF UseAllocFails, CreateContainerFails, Spawn
  <2>5. ASSUME NEW c \in Containers,
               Create(c) \/ NoMtn(c) \/ SetProperties(c) \/ SetPropertiesFails(c) \/ Start(c)
        PROVE  TypeOK'
    BY <2>5, ZenonT(40) DEF Create, NoMtn, SetProperties, SetPropertiesFails, CreateContainerFails, Start, Spawn
  <2>6. ASSUME NEW c \in Containers, StartFails(c) \/ ClientKill(c) \/ WaitKill(c) PROVE TypeOK'
    BY <2>6 DEF StartFails, ClientKill, WaitKill, PortoKill, Spawn, Actors
  <2>7. ASSUME NEW c \in Containers, WorkerExits(c) PROVE TypeOK'
    BY <2>7 DEF WorkerExits
  <2>8. ASSUME NEW a \in Actors, NEW c \in Containers, CleanupStep(a, c) PROVE TypeOK'
    <3>1. PICK l \in {"idle", "unuse", "mark", "destroy", "done"} : step' = [step EXCEPT ![a][c] = l]
      BY <2>8 DEF CleanupStep, CleanupCheck, AfterCheck, CleanupUnuse, CleanupMark, CleanupDestroy, Cleanup
    <3>2. step' \in [Actors -> [Containers -> {"idle", "check", "unuse", "mark", "destroy", "done"}]]
      BY <3>1
    <3>3. cleaned' \in [Containers -> BOOLEAN]
      BY <2>8, Zenon DEF CleanupStep, CleanupCheck, CleanupUnuse, CleanupMark, CleanupDestroy
    <3>4. UNCHANGED <<alloc, spawn, containers, waiting, crashes, granted, bucket, backup, spawned>>
      BY <2>8 DEF CleanupStep, CleanupCheck, CleanupUnuse, CleanupMark, CleanupDestroy, Cleanup,
                  UnuseAlloc, FreeDbAlloc
    <3>5. /\ db' \in [Ids -> {"absent", "free", "used"}] /\ misfreed' \subseteq Containers
          /\ \A id \in Ids : db'[id] # "absent" => db[id] # "absent"
      BY <2>8 DEF CleanupStep, CleanupCheck, CleanupUnuse, CleanupMark, CleanupDestroy,
                  UnuseAlloc, FreeDbAlloc
    <3>6. porto' \in [Containers -> {"absent", "stopped", "running", "dead"}]
      BY <2>8 DEF CleanupStep, CleanupCheck, CleanupUnuse, CleanupMark, CleanupDestroy
    <3> QED
      BY <3>2, <3>3, <3>4, <3>5, <3>6
  <2>9. ASSUME Collect PROVE TypeOK'
    BY <2>9, ZenonT(40) DEF Collect, Gc, GcList, GcUsed, UsedAllocations, Used, GcScan, GcDestroy, GcFree, GcDone,
                UnuseAlloc, FreeDbAlloc
  <2>10. ASSUME Crash PROVE TypeOK'
    <3>1. cleaned' \in [Containers -> BOOLEAN]
      BY <2>10, Zenon DEF Crash
    <3>2. step' \in [Actors -> [Containers -> {"idle", "check", "unuse", "mark", "destroy", "done"}]]
      BY <2>10 DEF Crash
    <3>3. /\ alloc' \in [Containers -> Ids \cup {None}]
          /\ spawn' \in [Containers -> {"idle", "create", "props", "start", "returned", "failed"}]
      BY <2>10 DEF Crash
    <3>4. spawned' \in BOOLEAN
      BY <2>10, Zenon DEF Crash
    <3> QED
      BY <2>10, <3>1, <3>2, <3>3, <3>4 DEF Crash
  <2>11. ASSUME Restart \/ Recreate \/ SaveRenameFails PROVE TypeOK'
    BY <2>11, ZenonT(40) DEF Restart, Recreate, SaveRenameFails, New, PoolInit, NoEntries
  <2> QED
    BY <2>1, <2>2, <2>3, <2>4, <2>5, <2>6, <2>7, <2>8, <2>9, <2>10, <2>11, Zenon DEF Next, SpawnStep
<1> QED
  BY <1>1, <1>2, PTL DEF Spec

(***************************************************************************)
(* The collection.  Until a Spawn takes part the daemon has no goroutine   *)
(* but waitLoop, so a used entry that waitLoop no longer suspects belongs  *)
(* to a container that it has seen and will not destroy.                   *)
(***************************************************************************)

Quiet ==
  /\ \A c \in Containers : spawn[c] \in {"idle", "failed"}
  /\ containers = {}
  /\ \A a \in Actors, c \in Containers : step[a][c] = "idle"

Kept(id) ==
  \E c \in Containers : c \notin listed /\ c # doomed /\ alloc[c] = id /\ porto[c] # "absent"

CollectInv ==
  ~spawned =>
    /\ Quiet
    /\ gc = "scan" => \A id \in Used : id \in suspects \/ Kept(id)
    /\ gc = "loop" => \A id \in Used : \E c \in Containers : alloc[c] = id /\ porto[c] # "absent"

\* A step of the pool or of the world that marks nothing used and removes no
\* container.
LEMMA CollectFrame ==
  ASSUME CollectInv, UNCHANGED <<alloc, spawn, containers, step, waiting, spawned>>,
         Used' \subseteq Used,
         \A c \in Containers : porto[c] # "absent" => porto'[c] # "absent"
  PROVE  CollectInv'
<1>1. Quiet => Quiet'
  BY DEF Quiet
<1>2. \A id : Kept(id) => Kept(id)'
  BY DEF Kept, waiting
<1> QED
  BY <1>1, <1>2 DEF CollectInv, waiting

\* Giving an address back makes no other entry used.
LEMMA UnuseUsed ==
  ASSUME TypeOK, NEW id \in Ids, UnuseAlloc(id)
  PROVE  Used' \subseteq Used \ {id}
  BY DEF TypeOK, UnuseAlloc, FreeDbAlloc, Used

\* Every step keeps it.
LEMMA CollectStep ==
  ASSUME TypeOK, CollectInv, [Next]_vars
  PROVE  CollectInv'
<1> USE DEF disk, cleaning, waiting
<1>1. ASSUME UNCHANGED vars PROVE CollectInv'
  BY <1>1, CollectFrame DEF vars, Used
<1>2. ASSUME Pool PROVE CollectInv'
  <2>1. Used' \subseteq Used
    BY <1>2 DEF Pool, BindAllocs, BindAllocsFails, PutAllocs, Used
  <2> QED
    BY <1>2, <2>1, CollectFrame DEF Pool, BindAllocs, BindAllocsFails
<1>3. ASSUME NEW c \in Containers, Create(c) PROVE CollectInv'
  BY <1>3 DEF Create, CollectInv
<1>4. ASSUME NEW c \in Containers, SpawnStep(c), ~Create(c) PROVE CollectInv'
  <2>1. spawn[c] \in {"create", "props", "start"} /\ spawned' = spawned
    BY <1>4 DEF SpawnStep, UseAlloc, NoMtn, UseAllocFails, SetProperties, SetPropertiesFails, Start,
                StartFails, Spawn
  <2> QED
    BY <2>1 DEF CollectInv, Quiet
<1>5. ASSUME NEW c \in Containers, ClientKill(c) \/ WaitKill(c) PROVE CollectInv'
  BY <1>5 DEF ClientKill, WaitKill, CollectInv, Quiet
<1>6. ASSUME NEW c \in Containers, WorkerExits(c) PROVE CollectInv'
  BY <1>6, CollectFrame, Zenon DEF WorkerExits, Used, TypeOK
<1>7. ASSUME NEW a \in Actors, NEW c \in Containers, CleanupStep(a, c) PROVE CollectInv'
  <2>1. step[a][c] # "idle" /\ spawned' = spawned
    BY <1>7, Zenon DEF CleanupStep, CleanupCheck, CleanupUnuse, CleanupMark, CleanupDestroy, Cleanup
  <2> QED
    BY <2>1, Zenon DEF CollectInv, Quiet
<1>8. ASSUME GcList \/ GcUsed PROVE CollectInv'
  <2>1. Used' = Used
    BY <1>8 DEF GcList, GcUsed, Used
  <2>2. /\ gc' # "loop" /\ (gc' = "scan" => suspects' = Used) /\ (spawned => spawned')
        /\ UNCHANGED <<spawn, containers, step>>
    BY <1>8 DEF GcList, GcUsed, Gc, UsedAllocations
  <2>3. Quiet => Quiet'
    BY <2>2 DEF Quiet
  <2> QED
    BY <2>1, <2>2, <2>3, Zenon DEF CollectInv
<1>9. ASSUME NEW c \in Containers, GcScan(c) PROVE CollectInv'
  <2> SUFFICES ASSUME ~spawned' PROVE Quiet' /\ \A id \in Used' : id \in suspects' \/ Kept(id)'
    BY <1>9 DEF GcScan, Gc, CollectInv
  <2>0. ~spawned
    BY <1>9, Zenon DEF GcScan
  <2>1. /\ gc = "scan" /\ gc' = "scan" /\ ~spawned /\ UNCHANGED <<alloc, porto, spawn, containers, step>>
        /\ doomed = None /\ listed' = listed \ {c}
    BY <1>9, <2>0, Zenon DEF GcScan, Gc
  <2>2. Quiet'
    BY <2>1 DEF CollectInv, Quiet
  <2>3. Used' = Used
    BY <1>9 DEF GcScan, Used
  <2>4. ASSUME NEW id \in Used, Kept(id) PROVE Kept(id)'
    <3>1. PICK d \in Containers : d \notin listed /\ d # doomed /\ alloc[d] = id /\ porto[d] # "absent"
      BY <2>4 DEF Kept
    <3>2. d # c /\ d \notin listed'
      BY <1>9, <2>1, <3>1 DEF GcScan
    <3>3. d # doomed'
      BY <1>9, <3>1, <3>2 DEF GcScan
    <3> QED
      BY <2>1, <3>1, <3>2, <3>3 DEF Kept
  <2>5. ASSUME NEW id \in suspects PROVE id \in suspects' \/ Kept(id)'
    <3>1. CASE id \in suspects'
      BY <3>1
    <3>2. CASE id \notin suspects'
      <4>1. porto[c] = "running" /\ alloc[c] = id /\ doomed' = doomed
        BY <1>9, <3>2 DEF GcScan
      <4>2. c # doomed'
        BY <4>1, <2>1, BufferAssumption
      <4> QED
        BY <2>1, <4>1, <4>2 DEF Kept
    <3> QED
      BY <3>1, <3>2
  <2> QED
    BY <2>1, <2>2, <2>3, <2>4, <2>5 DEF CollectInv
<1>10. ASSUME GcDestroy PROVE CollectInv'
  <2> SUFFICES ASSUME ~spawned' PROVE Quiet' /\ \A id \in Used' : id \in suspects' \/ Kept(id)'
    BY <1>10 DEF GcDestroy, Gc, CollectInv
  <2>1. /\ gc = "scan" /\ gc' = "scan" /\ ~spawned /\ UNCHANGED <<alloc, spawn, containers, step, suspects, listed>>
        /\ doomed # None /\ doomed' = None /\ porto' = [porto EXCEPT ![doomed] = "absent"]
    BY <1>10 DEF GcDestroy, Gc
  <2>2. Quiet'
    BY <2>1 DEF CollectInv, Quiet
  <2>3. Used' = Used
    BY <1>10 DEF GcDestroy, Used
  <2>4. ASSUME NEW id \in Used, Kept(id) PROVE Kept(id)'
    <3>1. PICK d \in Containers : d \notin listed /\ d # doomed /\ alloc[d] = id /\ porto[d] # "absent"
      BY <2>4 DEF Kept
    <3>2. d # doomed'
      BY <2>1, BufferAssumption
    <3> QED
      BY <2>1, <3>1, <3>2 DEF Kept, TypeOK
  <2> QED
    BY <2>1, <2>2, <2>3, <2>4 DEF CollectInv
<1>11. ASSUME NEW id \in Ids, GcFree(id) PROVE CollectInv'
  <2> SUFFICES ASSUME ~spawned' PROVE Quiet' /\ \A i \in Used' : i \in suspects' \/ Kept(i)'
    BY <1>11 DEF GcFree, Gc, CollectInv
  <2>1. /\ gc = "scan" /\ ~spawned /\ UNCHANGED <<alloc, porto, spawn, containers, step, listed, doomed>>
        /\ suspects' = suspects \ {id} /\ UnuseAlloc(id)
    BY <1>11 DEF GcFree, Gc
  <2>2. Quiet'
    BY <2>1 DEF CollectInv, Quiet
  <2>3. \A i : Kept(i) => Kept(i)'
    BY <2>1 DEF Kept
  <2> QED
    BY <2>1, <2>2, <2>3, UnuseUsed DEF CollectInv
<1>12. ASSUME GcDone PROVE CollectInv'
  <2>1. UNCHANGED <<alloc, porto, spawn, containers, step, spawned, db>> /\ gc = "scan" /\ gc' = "loop" /\ suspects = {}
    BY <1>12 DEF GcDone, Gc
  <2>2. Used' = Used /\ (Quiet => Quiet')
    BY <2>1, Zenon DEF Used, Quiet
  <2>3. ~spawned => Quiet /\ \A id \in Used : Kept(id)
    BY <2>1, Zenon DEF CollectInv
  <2>4. ~spawned => \A id \in Used : \E c \in Containers : alloc'[c] = id /\ porto'[c] # "absent"
    BY <2>1, <2>3, Zenon DEF Kept
  <2> QED
    BY <2>1, <2>2, <2>3, <2>4, Zenon DEF CollectInv
<1>13. ASSUME Crash PROVE CollectInv'
  <2>1. Quiet'
    BY <1>13 DEF Crash, Quiet
  <2> QED
    BY <1>13, <2>1 DEF Crash, CollectInv
<1>14. ASSUME Restart \/ Recreate \/ SaveRenameFails PROVE CollectInv'
  <2>1. gc = "down" /\ gc' \in {"list", "down"} /\ UNCHANGED <<spawn, containers, step, spawned>>
    BY <1>14, Zenon DEF Restart, Recreate, SaveRenameFails, New
  <2> QED
    BY <2>1 DEF CollectInv, Quiet
<1> QED
  BY <1>1, <1>2, <1>3, <1>4, <1>5, <1>6, <1>7, <1>8, <1>9, <1>10, <1>11, <1>12, <1>13, <1>14
  DEF Next, Collect

\* A collection that portod and the database answered, without a Spawn beside
\* it, leaves no entry used but for a container portod still has.
THEOREM CollectionLeavesNothing == Spec => []CollectionComplete
<1>1. Init => CollectInv
  BY DEF Init, CollectInv, Quiet
<1>2. CollectInv => CollectionComplete
  BY DEF CollectInv, CollectionComplete
<1> QED
  BY <1>1, <1>2, CollectStep, TypeCorrect, PTL DEF Spec
=============================================================================
