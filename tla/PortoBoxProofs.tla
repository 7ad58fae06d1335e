--------------------------- MODULE PortoBoxProofs ---------------------------
(***************************************************************************)
(* The Porto box, for every profile, every number of Spools, Spawns and    *)
(* Gets, every size of the queue and every number of crashes: the volumes  *)
(* of a container (PortoVolumes), the journal of layers and the gate       *)
(* Spawns pass (PortoSpawn), and the repository of blobs (BlobRepo).  The  *)
(* three share no state, so each is proved on its own.                     *)
(***************************************************************************)
EXTENDS PortoVolumes, PortoSpawn, BlobRepo, GateCounting

NoCleanup == \A a \in Callers : cleanup[a] = {}

\* How far the Spawn is.  Nobody cleans up a container before it is tracked,
\* and the volumes of one that exists are linked in their order.
SpawnInv ==
  /\ pc \in {"idle", "extra", "cleanUpOnError"} => cont = "absent"
  /\ pc \in {"idle", "extra", "cleanUpOnError", "destroyRoot", "link"} => ~tracked /\ NoCleanup
  /\ pc \in {"idle", "extra", "cleanUpOnError"} => linked = {}
  /\ pc = "link" =>
       /\ \E k \in 0..N : linked = 0..(k - 1)
       /\ cont # "absent" => cont = "stopped" /\ link = linked
  /\ pc = "start" /\ cont # "absent" => cont = "stopped" /\ link = Volumes /\ NoCleanup
  /\ cont = "running" => pc \in {"returned", "killed", "failed"}
  /\ cont = "running" /\ pc # "killed" => link = Volumes /\ NoCleanup

\* As long as no step of a cleanup has failed, what exists is known to the one
\* who will destroy it: to newContainer while it holds the volumes, then to the
\* Cleanup of the Spawn that failed or of the client that killed.
Known == link \subseteq linked /\ storage \subseteq storagepath
Left(a) == Known /\ made \cup link \cup storage \subseteq cleanup[a]

OwnerInv ==
  /\ refused => pc \in {"destroyRoot", "failed"}
  /\ pc = "idle" => made = {} /\ storage = {}
  /\ pc \in {"extra", "cleanUpOnError"} =>
       Known /\ made \subseteq volumes /\ storage \subseteq volumes
  /\ pc = "destroyRoot" => cont = "absent" /\ (refused \/ (made \subseteq {root} /\ storage = {}))
  /\ pc \in {"link", "start", "returned"} => Known
  /\ pc = "failed" => IF refused THEN cont = "absent" /\ root \notin made ELSE Left("spawn")
  /\ pc = "killed" => Left("client")

IInv == TypeOK /\ SpawnInv /\ (~fault => OwnerInv)

\* Init.
LEMMA VolumesInit == Init => IInv
  <1> SUFFICES ASSUME Init PROVE IInv
    OBVIOUS
  <1>1. tracked \in BOOLEAN /\ fault \in BOOLEAN /\ refused \in BOOLEAN
    BY Zenon DEF Init
  <1>2. TypeOK
    BY <1>1, NAssumption DEF Init, TypeOK
  <1>3. SpawnInv
    BY DEF Init, SpawnInv, NoCleanup
  <1>4. OwnerInv
    BY DEF Init, OwnerInv
  <1> QED
    BY <1>2, <1>3, <1>4 DEF IInv

\* Every step keeps the invariant.
LEMMA VolumesStep == IInv /\ [Next]_vars => IInv'
  <1> SUFFICES ASSUME TypeOK, SpawnInv, ~fault => OwnerInv, [Next]_vars
               PROVE  IInv'
    BY DEF IInv
  <1> USE NAssumption DEF memory, portod, history, Up, root, Extras, Volumes, container, CleanupAll
  <1>1. ASSUME CreateRootVolume PROVE IInv'
    <2>1. TypeOK'
      <3>1. made' \in {made, {root}} /\ volumes' \in {volumes, {root}} /\ pc' \in {"extra", "failed"}
        BY <1>1 DEF CreateRootVolume, Goto
      <3>2. UNCHANGED <<linked, storagepath, link, storage, cont, tracked, cleanup, gc, crashes, history>>
        BY <1>1 DEF CreateRootVolume
      <3> QED
        BY <3>1, <3>2 DEF TypeOK
    <2>2. SpawnInv'
      BY <1>1 DEF CreateRootVolume, Goto, TypeOK, SpawnInv, NoCleanup, Callers
    <2>3. ~fault' => OwnerInv'
      BY <1>1, Zenon DEF CreateRootVolume, Goto, TypeOK, SpawnInv, OwnerInv, Known, Left, NoCleanup, Callers
    <2> QED
      BY <2>1, <2>2, <2>3 DEF IInv
  <1>2. ASSUME CreateExtraVolume PROVE IInv'
    <2>1. TypeOK'
      <3>1. PICK v \in Extras :
              /\ volumes' \in {volumes, volumes \cup {v}} /\ storagepath' \in {storagepath, storagepath \cup {v}}
              /\ storage' \in {storage, storage \cup {v}} /\ made' \in {made, made \cup {v}}
        BY <1>2 DEF CreateExtraVolume
      <3>2. /\ pc' \in {"extra", "cleanUpOnError"}
            /\ UNCHANGED <<linked, link, cont, tracked, cleanup, gc, crashes, history>>
        BY <1>2 DEF CreateExtraVolume, Goto
      <3>3. /\ volumes' \subseteq Volumes /\ storagepath' \subseteq Extras
            /\ storage' \subseteq Extras /\ made' \subseteq Volumes
        BY <3>1 DEF TypeOK
      <3> QED
        BY <3>2, <3>3 DEF TypeOK
    <2>2. SpawnInv'
      BY <1>2 DEF CreateExtraVolume, Goto, TypeOK, SpawnInv, NoCleanup, Callers
    <2>3. ~fault' => OwnerInv'
      BY <1>2, Zenon DEF CreateExtraVolume, Goto, TypeOK, SpawnInv, OwnerInv, Known, Left, NoCleanup, Callers
    <2> QED
      BY <2>1, <2>2, <2>3 DEF IInv
  <1>3. ASSUME cleanUpOnError PROVE IInv'
    <2>1. TypeOK'
      BY <1>3, Zenon DEF cleanUpOnError, Goto, ToCleanUp, Destroy, TypeOK, SpawnInv
    <2>2. SpawnInv'
      BY <1>3 DEF cleanUpOnError, Goto, ToCleanUp, Destroy, TypeOK, SpawnInv, NoCleanup, Callers
    <2>3. ~fault' => OwnerInv'
      <3> SUFFICES ASSUME ~fault' PROVE OwnerInv'
        OBVIOUS
      <3>0. ~fault
        BY <1>3, Zenon DEF cleanUpOnError, Destroy
      <3>1. ~fault /\ pc = "cleanUpOnError" /\ UNCHANGED <<linked, storagepath, cont, refused>>
        BY <1>3, <3>0 DEF cleanUpOnError, Goto
      <3>2. /\ Known /\ made \subseteq volumes /\ storage \subseteq volumes /\ ~refused
            /\ cont = "absent" /\ link = {}
        BY <3>1 DEF OwnerInv, SpawnInv, TypeOK
      <3>3. CASE pc' = "cleanUpOnError"
        <4>1. PICK v : /\ made' = made \ {v} /\ storage' = storage \ (storagepath \cap {v})
                       /\ link' = link \ (linked \cap {v}) /\ volumes' = volumes \ {v}
          BY <1>3, <3>1, <3>3 DEF cleanUpOnError, Goto, Destroy
        <4> QED
          BY <4>1, <3>1, <3>2, <3>3 DEF OwnerInv, Known
      <3>4. CASE pc' = "destroyRoot"
        <4>1. volumes \cap Extras = {} /\ UNCHANGED <<volumes, link, made, storage>>
          BY <1>3, <3>4 DEF cleanUpOnError, Goto, ToCleanUp
        <4>2. made \subseteq {root} /\ storage = {}
          BY <4>1, <3>2 DEF TypeOK
        <4> QED
          BY <4>1, <4>2, <3>1, <3>2, <3>4 DEF OwnerInv
      <3> QED
        BY <1>3, <3>3, <3>4 DEF cleanUpOnError, Goto
    <2> QED
      BY <2>1, <2>2, <2>3 DEF IInv
  <1>4. ASSUME DestroyRoot PROVE IInv'
    <2>1. TypeOK'
      BY <1>4, Zenon DEF DestroyRoot, Goto, Destroy, TypeOK, SpawnInv
    <2>2. SpawnInv'
      BY <1>4 DEF DestroyRoot, Goto, Destroy, TypeOK, SpawnInv, NoCleanup, Callers
    <2>3. ~fault' => OwnerInv'
      <3> SUFFICES ASSUME ~fault' PROVE OwnerInv'
        OBVIOUS
      <3>0. ~fault
        BY <1>4, Zenon DEF DestroyRoot, Destroy
      <3>1. ~fault /\ pc = "destroyRoot" /\ pc' = "failed" /\ UNCHANGED <<linked, storagepath, cont, refused, cleanup>>
        BY <1>4, <3>0 DEF DestroyRoot, Goto
      <3>2. cont = "absent" /\ link = {} /\ (refused \/ (made \subseteq {root} /\ storage = {}))
        BY <3>1 DEF OwnerInv, TypeOK
      <3>3. /\ made' = made \ {root} /\ storage' = storage \ (storagepath \cap {root})
            /\ link' = link \ (linked \cap {root})
        BY <1>4, <3>1 DEF DestroyRoot, Destroy
      <3> QED
        BY <3>1, <3>2, <3>3 DEF OwnerInv, Left, Known
    <2> QED
      BY <2>1, <2>2, <2>3 DEF IInv
  <1>5. ASSUME Create PROVE IInv'
    <2>1. TypeOK'
      BY <1>5, Zenon DEF Create, Goto, TypeOK, SpawnInv
    <2>2. SpawnInv'
      BY <1>5, Zenon DEF Create, Goto, TypeOK, SpawnInv, NoCleanup, Callers
    <2>3. ~fault' => OwnerInv'
      BY <1>5 DEF Create, Goto, TypeOK, SpawnInv, OwnerInv, Known, Left, NoCleanup, Callers
    <2> QED
      BY <2>1, <2>2, <2>3 DEF IInv
  <1>6. ASSUME CreateContainerFails PROVE IInv'
    <2>1. TypeOK'
      BY <1>6, Zenon DEF CreateContainerFails, Goto, DestroyContainer, TypeOK, SpawnInv
    <2>2. SpawnInv'
      BY <1>6 DEF CreateContainerFails, Goto, DestroyContainer, TypeOK, SpawnInv, NoCleanup, Callers
    <2>3. ~fault' => OwnerInv'
      BY <1>6 DEF CreateContainerFails, Goto, DestroyContainer, TypeOK, SpawnInv, OwnerInv, Known, Left, NoCleanup, Callers
    <2> QED
      BY <2>1, <2>2, <2>3 DEF IInv
  <1>7. ASSUME Start PROVE IInv'
    <2>1. TypeOK'
      BY <1>7 DEF Start, Goto, TypeOK, SpawnInv
    <2>2. SpawnInv'
      BY <1>7 DEF Start, Goto, TypeOK, SpawnInv, NoCleanup, Callers
    <2>3. ~fault' => OwnerInv'
      BY <1>7 DEF Start, Goto, TypeOK, SpawnInv, OwnerInv, Known, Left, NoCleanup, Callers
    <2> QED
      BY <2>1, <2>2, <2>3 DEF IInv
  <1>8. ASSUME ClientKill PROVE IInv'
    <2>1. TypeOK'
      BY <1>8, Zenon DEF ClientKill, Goto, TypeOK, SpawnInv
    <2>2. SpawnInv'
      BY <1>8 DEF ClientKill, Goto, TypeOK, SpawnInv, NoCleanup, Callers
    <2>3. ~fault' => OwnerInv'
      BY <1>8 DEF ClientKill, Goto, TypeOK, SpawnInv, OwnerInv, Known, Left, NoCleanup, Callers
    <2> QED
      BY <2>1, <2>2, <2>3 DEF IInv
  <1>9. ASSUME WaitKill PROVE IInv'
    <2>1. TypeOK'
      BY <1>9, Zenon DEF WaitKill, TypeOK, SpawnInv
    <2>2. SpawnInv'
      BY <1>9 DEF WaitKill, TypeOK, SpawnInv, NoCleanup, Callers
    <2>3. ~fault' => OwnerInv'
      BY <1>9 DEF WaitKill, TypeOK, SpawnInv, OwnerInv, Known, Left, NoCleanup, Callers
    <2> QED
      BY <2>1, <2>2, <2>3 DEF IInv
  <1>10. ASSUME GcContainers PROVE IInv'
    <2>1. TypeOK'
      BY <1>10, Zenon DEF GcContainers, TypeOK, SpawnInv
    <2>2. SpawnInv'
      BY <1>10 DEF GcContainers, TypeOK, SpawnInv, NoCleanup, Callers
    <2>3. ~fault' => OwnerInv'
      BY <1>10 DEF GcContainers, TypeOK, SpawnInv, OwnerInv, Known, Left, NoCleanup, Callers
    <2> QED
      BY <2>1, <2>2, <2>3 DEF IInv
  <1>11. ASSUME GcDestroy PROVE IInv'
    <2>1. TypeOK'
      BY <1>11, Zenon DEF GcDestroy, DestroyContainer, TypeOK, SpawnInv
    <2>2. SpawnInv'
      BY <1>11 DEF GcDestroy, DestroyContainer, TypeOK, SpawnInv, NoCleanup, Callers
    <2>3. ~fault' => OwnerInv'
      BY <1>11, Zenon DEF GcDestroy, DestroyContainer, TypeOK, SpawnInv, OwnerInv, Known, Left, NoCleanup, Callers
    <2> QED
      BY <2>1, <2>2, <2>3 DEF IInv
  <1>12. ASSUME GcVolumes PROVE IInv'
    <2>1. TypeOK'
      BY <1>12 DEF GcVolumes, GcMatches, TypeOK, SpawnInv
    <2>2. SpawnInv'
      BY <1>12 DEF GcVolumes, GcMatches, TypeOK, SpawnInv, NoCleanup, Callers
    <2>3. ~fault' => OwnerInv'
      BY <1>12 DEF GcVolumes, GcMatches, TypeOK, SpawnInv, OwnerInv, Known, Left, NoCleanup, Callers
    <2> QED
      BY <2>1, <2>2, <2>3 DEF IInv
  <1>13. ASSUME WorkerExits PROVE IInv'
    <2>1. TypeOK'
      BY <1>13 DEF WorkerExits, TypeOK, SpawnInv
    <2>2. SpawnInv'
      BY <1>13 DEF WorkerExits, TypeOK, SpawnInv, NoCleanup, Callers
    <2>3. ~fault' => OwnerInv'
      BY <1>13 DEF WorkerExits, TypeOK, SpawnInv, OwnerInv, Known, Left, NoCleanup, Callers
    <2> QED
      BY <2>1, <2>2, <2>3 DEF IInv
  <1>14. ASSUME Crash PROVE IInv'
    <2>1. TypeOK'
      <3>1. tracked' \in BOOLEAN /\ fault' \in BOOLEAN /\ refused' \in BOOLEAN
        BY <1>14, Zenon DEF Crash, TypeOK
      <3>2. cleanup' \in [Callers -> SUBSET CleanupAll] /\ crashes' \in 0..MaxCrashes
        BY <1>14 DEF Crash, TypeOK
      <3>3. /\ pc' \in {"idle", "killed", "failed"} /\ UNCHANGED <<portod, storage>> /\ gc' = "down"
            /\ volumes' = {} /\ linked' = {} /\ storagepath' = {}
        BY <1>14 DEF Crash
      <3> QED
        BY <3>1, <3>2, <3>3 DEF TypeOK
    <2>2. SpawnInv'
      BY <1>14 DEF Crash, Existing, TypeOK, SpawnInv, NoCleanup, Callers
    <2>3. ~fault' => OwnerInv'
      BY <1>14, Zenon DEF Crash, Existing, TypeOK, SpawnInv, OwnerInv, Known, Left, NoCleanup, Callers
    <2> QED
      BY <2>1, <2>2, <2>3 DEF IInv
  <1>15. ASSUME Restart PROVE IInv'
    <2>1. TypeOK'
      BY <1>15 DEF Restart, TypeOK, SpawnInv
    <2>2. SpawnInv'
      BY <1>15 DEF Restart, TypeOK, SpawnInv, NoCleanup, Callers
    <2>3. ~fault' => OwnerInv'
      BY <1>15 DEF Restart, TypeOK, SpawnInv, OwnerInv, Known, Left, NoCleanup, Callers
    <2> QED
      BY <2>1, <2>2, <2>3 DEF IInv
  <1>l. ASSUME Link PROVE IInv'
    <2>1. PICK k \in 0..N : linked = 0..(k - 1)
      BY <1>l DEF Link, Goto, SpawnInv
    <2>2. Cardinality(linked) = k
      BY <2>1, FS_Interval
    <2>3. /\ Goto("link", IF k = N THEN "start" ELSE "link") /\ cont # "absent"
          /\ linked' = linked \cup {k} /\ link' = link \cup {k} /\ made' \in {made, made \ {k}} /\ tracked' = (k = N)
          /\ UNCHANGED <<volumes, storagepath, storage, cont, cleanup, gc, crashes, history>>
      BY <1>l, <2>2 DEF Link, LinkVolume
    <2>4. linked' = 0..k
      BY <2>1, <2>3
    <2>5. TypeOK'
      BY <2>3, <2>4 DEF Goto, TypeOK
    <2>6. SpawnInv'
      <3>1. /\ pc = "link" /\ pc' = (IF k = N THEN "start" ELSE "link") /\ cont = "stopped" /\ cont' = cont
            /\ link' = 0..k /\ cleanup' = cleanup /\ NoCleanup
        BY <2>1, <2>3, <2>4 DEF Goto, SpawnInv
      <3>2. NoCleanup'
        BY <3>1 DEF NoCleanup
      <3>3. CASE k = N
        BY <3>1, <3>2, <3>3, <2>4 DEF SpawnInv
      <3>4. CASE k # N
        <4>1. k + 1 \in 0..N /\ linked' = 0..((k + 1) - 1)
          BY <3>4, <2>4
        <4>2. tracked' = FALSE
          BY <3>4, <2>3, Zenon
        <4> QED
          BY <3>1, <3>2, <3>4, <4>1, <4>2, <2>4 DEF SpawnInv
      <3> QED
        BY <3>3, <3>4
    <2>7. ~fault' => OwnerInv'
      BY <2>3, <2>4 DEF Goto, TypeOK, SpawnInv, OwnerInv, Known
    <2> QED
      BY <2>5, <2>6, <2>7 DEF IInv
  <1>c. ASSUME NEW a \in Callers, Cleanup(a) PROVE IInv'
    <2>1. PICK x :
            /\ cleanup' = [cleanup EXCEPT ![a] = @ \ {x}]
            /\ \/ x # container /\ Destroy(x) /\ UNCHANGED cont
               \/ x = container /\ DestroyContainer /\ UNCHANGED <<made, storage, fault>>
               \/ x = container /\ fault' = TRUE /\ UNCHANGED <<made, link, cont, storage>>
            /\ cleanup[a] # {}
            /\ UNCHANGED <<pc, volumes, linked, storagepath, tracked, gc, crashes, refused>>
      BY <1>c, Zenon DEF Cleanup
    <2>2. TypeOK'
      <3>1. cleanup' \in [Callers -> SUBSET CleanupAll]
        BY <2>1 DEF TypeOK
      <3>2. /\ made' \subseteq made /\ link' \subseteq link /\ storage' \subseteq storage
            /\ cont' \in {cont, "absent"} /\ (cont' = "absent" => link' = {})
        BY <2>1, Zenon DEF Destroy, DestroyContainer, TypeOK
      <3>3. fault' \in BOOLEAN
        BY <2>1, Zenon DEF Destroy, TypeOK
      <3> QED
        BY <2>1, <3>1, <3>2, <3>3 DEF TypeOK
    <2>3. SpawnInv'
      BY <2>1 DEF Destroy, DestroyContainer, TypeOK, SpawnInv, NoCleanup
    <2>4. ~fault' => OwnerInv'
      <3> SUFFICES ASSUME ~fault' PROVE OwnerInv'
        OBVIOUS
      <3>1. ~fault
        BY <2>1, Zenon DEF Destroy
      <3>2. /\ made' \subseteq made /\ link' \subseteq link /\ storage' \subseteq storage
            /\ cont' \in {cont, "absent"}
        BY <2>1 DEF Destroy, DestroyContainer
      <3>3. pc \notin {"idle", "extra", "cleanUpOnError", "destroyRoot", "link"}
        BY <2>1 DEF SpawnInv, NoCleanup
      <3>4. Known => Known'
        BY <2>1, <3>2 DEF Known
      <3>5. ASSUME NEW b \in Callers, Left(b) PROVE Left(b)'
        <4>1. CASE b # a
          BY <4>1, <3>2, <3>4, <3>5, <2>1 DEF Left, TypeOK
        <4>2. CASE b = a
          <5>1. cleanup'[b] = cleanup[b] \ {x}
            BY <4>2, <2>1 DEF TypeOK
          <5>2. x \notin made' \cup link' \cup storage' \/ x = container
            BY <2>1, <3>1, <3>5 DEF Destroy, Left, Known
          <5>3. container \notin made \cup link \cup storage
            BY DEF TypeOK
          <5> QED
            BY <5>1, <5>2, <5>3, <3>2, <3>4, <3>5 DEF Left
        <4> QED
          BY <4>1, <4>2
      <3> QED
        BY <2>1, <3>1, <3>2, <3>3, <3>4, <3>5 DEF OwnerInv, Callers
    <2> QED
      BY <2>2, <2>3, <2>4 DEF IInv
  <1>u. ASSUME UNCHANGED vars PROVE IInv'
    <2>1. TypeOK' /\ SpawnInv'
      BY <1>u DEF vars, TypeOK, SpawnInv, NoCleanup
    <2>2. ~fault' => OwnerInv'
      BY <1>u DEF vars, OwnerInv, Known, Left
    <2> QED
      BY <2>1, <2>2 DEF IInv
  <1> QED
    BY <1>1, <1>2, <1>3, <1>4, <1>5, <1>6, <1>7, <1>8, <1>9, <1>10, <1>11, <1>12, <1>13, <1>14, <1>15, <1>l, <1>c, <1>u DEF Next, newContainer, Gc

\* The inductive invariant holds in every reachable state.
THEOREM VolumesInvariance == Spec => []IInv
  BY VolumesInit, VolumesStep, PTL DEF Spec

\* The state of a Spawn, of portod and of the collection stays well typed, and
\* a container that is gone has no links.
THEOREM VolumesTypeCorrect == Spec => []TypeOK
  BY VolumesInvariance, PTL DEF IInv

\* For any number of extra volumes and of crashes: a worker that runs and was
\* not killed has all its volumes.
THEOREM VolumesKept == Spec => []RunningKeepsVolumes
  <1>1. IInv => RunningKeepsVolumes
    BY DEF IInv, SpawnInv, RunningKeepsVolumes
  <1> QED
    BY <1>1, VolumesInvariance, PTL

\* For any number of extra volumes and of crashes: a Spawn that is over leaves
\* volumes or directories only where an error stopped a cleanup, or where
\* CreateContainer failed, and then never the root volume.
THEOREM VolumesLeak == Spec => []LeakExplained
  <1>1. IInv => LeakExplained
    BY DEF IInv, TypeOK, OwnerInv, Left, LeakExplained, Over, Existing, Cleaning, Callers
  <1> QED
    BY <1>1, VolumesInvariance, PTL

\* Caller a of Cleanup has before it everything that is left of the container.
Covers(a) ==
  made \cup link \cup storage \subseteq cleanup[a] /\ (cont # "absent" => container \in cleanup[a])

\* A worker that has ended is known to waitLoop, or a Kill of waitLoop or of
\* the client has before it all that is left, unless a step of a cleanup has
\* failed.  This is what the liveness property ExitCleaned rests on.
ExitInCare ==
  cont = "dead" /\ ~fault => tracked \/ Covers("wait") \/ Covers("client")

CareInv ==
  /\ pc = "start" /\ cont # "absent" => tracked
  /\ pc = "returned" /\ ~tracked => Covers("wait")
  /\ pc = "killed" => Covers("client")
  /\ cont \in {"running", "dead"} => pc \in {"returned", "killed"}

\* A step of Cleanup that succeeds leaves to every caller all that is left.
LEMMA CleanupCovers ==
  ASSUME IInv, NEW a \in Callers, Cleanup(a), ~fault', NEW b \in Callers, Covers(b), Known
  PROVE  Covers(b)'
  <1>1. PICK x :
          /\ cleanup' = [cleanup EXCEPT ![a] = @ \ {x}]
          /\ \/ x # container /\ Destroy(x) /\ UNCHANGED cont
             \/ x = container /\ DestroyContainer /\ UNCHANGED <<made, storage, fault>>
    BY Zenon DEF Cleanup
  <1>2. /\ made' \subseteq made /\ link' \subseteq link /\ storage' \subseteq storage
        /\ cont' \in {cont, "absent"}
    BY <1>1 DEF Destroy, DestroyContainer
  <1>3. CASE b # a
    BY <1>1, <1>2, <1>3 DEF Covers, IInv, TypeOK
  <1>4. CASE b = a
    <2>1. cleanup'[b] = cleanup[b] \ {x}
      BY <1>1, <1>4 DEF IInv, TypeOK
    <2>2. CASE x # container
      <3>1. x \notin made' \cup link' \cup storage'
        BY <1>1, <2>2 DEF Destroy, Known
      <3> QED
        BY <1>1, <1>2, <2>1, <2>2, <3>1 DEF Covers
    <2>3. CASE x = container
      <3>1. cont' = "absent"
        BY <1>1, <2>3 DEF DestroyContainer
      <3>2. container \notin made' \cup link' \cup storage'
        BY <1>2, NAssumption DEF IInv, TypeOK, container, Volumes, Extras
      <3> QED
        BY <1>2, <2>1, <2>3, <3>1, <3>2, Zenon DEF Covers
    <2> QED
      BY <2>2, <2>3
  <1> QED
    BY <1>3, <1>4

\* Every step that does not fail keeps the worker in somebody's care.
LEMMA CareStep ==
  ASSUME IInv, ~fault => CareInv, [Next]_vars, ~fault'
  PROVE  CareInv'
  <1> USE DEF memory, portod, history, Goto
  <1>0. ~fault
    BY Zenon DEF IInv, TypeOK, Next, newContainer, Gc, CreateRootVolume, CreateExtraVolume, cleanUpOnError, DestroyRoot,
              Create, Link, CreateContainerFails, Start, ClientKill, WaitKill, GcContainers, GcDestroy, GcVolumes,
              WorkerExits, Crash, Restart, Cleanup, Destroy, vars
  <1>1. CareInv /\ OwnerInv
    BY <1>0 DEF IInv
  <1>2. ASSUME \/ CreateRootVolume \/ CreateExtraVolume \/ cleanUpOnError \/ DestroyRoot \/ Create
               \/ CreateContainerFails
        PROVE  CareInv'
    <2>1. pc \notin {"start", "returned", "killed"} /\ pc' \notin {"start", "returned", "killed"}
      BY <1>2, Zenon DEF CreateRootVolume, CreateExtraVolume, cleanUpOnError, DestroyRoot, Create, CreateContainerFails
    <2>2. cont' \in {cont, "absent", "stopped"}
      BY <1>2, Zenon DEF CreateRootVolume, CreateExtraVolume, cleanUpOnError, DestroyRoot, Create, CreateContainerFails,
                  DestroyContainer
    <2> QED
      BY <1>1, <2>1, <2>2 DEF CareInv
  <1>3. ASSUME Link PROVE CareInv'
    <2>1. /\ pc = "link" /\ pc' \in {"link", "start"} /\ cont' = cont
          /\ pc' = "start" => tracked'
      BY <1>3, Zenon DEF Link
    <2> QED
      BY <1>1, <2>1 DEF CareInv
  <1>4. ASSUME Start PROVE CareInv'
    BY <1>1, <1>4 DEF Start, CareInv, IInv, SpawnInv
  <1>5. ASSUME ClientKill PROVE CareInv'
    <2>1. /\ pc' = "killed" /\ cleanup' = [cleanup EXCEPT !["client"] = CleanupAll]
          /\ UNCHANGED <<made, link, storage>>
      BY <1>5, Zenon DEF ClientKill
    <2>2. Covers("client")'
      BY <2>1, NAssumption DEF Covers, IInv, TypeOK, CleanupAll, Volumes, Extras, Callers
    <2> QED
      BY <2>1, <2>2 DEF CareInv
  <1>6. ASSUME WaitKill PROVE CareInv'
    <2>1. /\ cleanup' = [cleanup EXCEPT !["wait"] = CleanupAll] /\ cont \in {"dead", "absent"}
          /\ UNCHANGED <<pc, made, link, storage, cont>>
      BY <1>6, Zenon DEF WaitKill
    <2>2. Covers("wait")' /\ (Covers("client") => Covers("client")')
      BY <2>1, NAssumption DEF Covers, IInv, TypeOK, CleanupAll, Volumes, Extras, Callers
    <2> QED
      BY <1>1, <2>1, <2>2 DEF CareInv
  <1>7. ASSUME NEW a \in Callers, Cleanup(a) PROVE CareInv'
    <2>1. UNCHANGED <<pc, tracked>> /\ cont' \in {cont, "absent"}
      BY <1>7 DEF Cleanup, DestroyContainer
    <2>2. pc = "returned" /\ ~tracked => Covers("wait")'
      BY <1>0, <1>1, <1>7, CleanupCovers DEF CareInv, OwnerInv, Callers
    <2>3. pc = "killed" => Covers("client")'
      BY <1>0, <1>1, <1>7, CleanupCovers DEF CareInv, OwnerInv, Left, Callers
    <2> QED
      BY <1>1, <2>1, <2>2, <2>3 DEF CareInv
  <1>8. ASSUME GcContainers \/ GcDestroy \/ GcVolumes \/ Restart \/ UNCHANGED vars PROVE CareInv'
    <2>1. /\ UNCHANGED <<pc, tracked, cleanup, storage>>
          /\ made' \subseteq made /\ link' \subseteq link /\ cont' \in {cont, "absent"}
      BY <1>8 DEF GcContainers, GcDestroy, GcVolumes, Restart, DestroyContainer, vars
    <2> QED
      BY <1>1, <2>1 DEF CareInv, Covers
  <1>9. ASSUME WorkerExits PROVE CareInv'
    BY <1>1, <1>9, Zenon DEF WorkerExits, CareInv, Covers
  <1>10. ASSUME Crash PROVE CareInv'
    <2>1. cont = "absent" /\ cont' = cont /\ UNCHANGED <<made, link, storage>> /\ made = {} /\ link = {} /\ storage = {}
      BY <1>10, Zenon DEF Crash, Existing
    <2>2. pc' \notin {"start", "returned"}
      BY <1>10 DEF Crash
    <2>3. Covers("client")'
      BY <2>1 DEF Covers
    <2> QED
      BY <2>1, <2>2, <2>3 DEF CareInv
  <1> QED
    BY <1>2, <1>3, <1>4, <1>5, <1>6, <1>7, <1>8, <1>9, <1>10, Zenon DEF Next, newContainer, Gc

\* For any number of extra volumes and of crashes: while no step of a cleanup
\* has failed, a worker that has ended is never out of everybody's sight.
THEOREM ExitNeverMissed == Spec => []ExitInCare
  <1>1. Init => (~fault => CareInv)
    BY DEF Init, CareInv
  <1>2. IInv /\ (~fault => CareInv) /\ [Next]_vars => (~fault => CareInv)'
    BY CareStep
  <1>3. (~fault => CareInv) => ExitInCare
    BY DEF CareInv, ExitInCare
  <1> QED
    BY <1>1, <1>2, <1>3, VolumesInvariance, PTL DEF Spec

-----------------------------------------------------------------------------
(***************************************************************************)
(* Spool and Spawn behind the journal and the queue (PortoSpawn), for      *)
(* every set of calls, every bound of the queue and size of the semaphore, *)
(* and any number of restarts.                                              *)
(***************************************************************************)

Places == {"idle", "check", "refused", "layers", "connect", "acquire", "acquired", "gaveUp",
           "create", "release", "done", "failed"}
Awaiting == {"layers", "connect", "acquire"}
Passed == Awaiting \cup {"acquired", "gaveUp"}
Counted == Passed \cup {"check", "refused"}
Admitted == {"acquired", "create", "release"}

\* The counter is the number of the queued and of those that left without Dec.
GateInv ==
  /\ spawn \in [Spawns -> Places] /\ leaked \in Nat
  /\ queue = Size(Spawns, spawn, Counted) + leaked
  /\ Size(Spawns, spawn, Admitted) <= SmSize
  /\ Size(Spawns, spawn, Passed) + leaked <= QueueMax

\* The numbers after one Spawn has moved to l.
Moved(s, l) ==
  /\ spawn' \in [Spawns -> Places]
  /\ \A L \in {Counted, Passed, Admitted} :
       /\ Size(Spawns, spawn, L) \in Nat /\ Size(Spawns, spawn', L) \in Nat
       /\ Size(Spawns, spawn', L) = Size(Spawns, spawn, L) + In(l, L) - In(spawn[s], L)

LEMMA SpawnMoves ==
  ASSUME SizeAssumption, GateInv, NEW s \in Spawns, NEW l \in Places, NEW at, SpawnGoto(s, at, l)
  PROVE  spawn[s] = at /\ Moved(s, l)
  <1>1. spawn[s] = at /\ spawn' = [spawn EXCEPT ![s] = l]
    BY DEF SpawnGoto
  <1>2. /\ spawn' \in [Spawns -> Places]
        /\ spawn'[s] = l /\ \A t \in Spawns : t # s => spawn'[t] = spawn[t]
    BY <1>1 DEF GateInv
  <1>3. IsFiniteSet(Spawns)
    BY SizeAssumption
  <1>4. ASSUME NEW L
        PROVE  /\ Size(Spawns, spawn, L) \in Nat
               /\ Size(Spawns, spawn', L) = Size(Spawns, spawn, L) + In(l, L) - In(spawn[s], L)
    BY <1>2, <1>3, MoveSize DEF GateInv
  <1>5. ASSUME NEW L PROVE Size(Spawns, spawn', L) \in Nat
    BY <1>3, SizeOrder
  <1> QED
    BY <1>1, <1>2, <1>4, <1>5, Zenon DEF Moved

\* The gate is empty at first.
LEMMA GateInit ==
  ASSUME SizeAssumption, BoxInit
  PROVE  GateInv
  <1>1. ASSUME NEW L \in {Counted, Passed, Admitted} PROVE Size(Spawns, spawn, L) = 0
    BY SizeZero DEF BoxInit, Counted, Passed, Awaiting, Admitted
  <1> QED
    BY <1>1 DEF BoxInit, GateInv, Places

\* Every way through Spawn keeps the gate, a crash starts it anew.
LEMMA GateStep ==
  ASSUME SizeAssumption, GateInv, [BoxNext]_boxVars
  PROVE  GateInv'
  <1>0. Size(Spawns, spawn, Counted) \in Nat /\ Size(Spawns, spawn, Passed) \in Nat /\ Size(Spawns, spawn, Admitted) \in Nat
    BY SizeAssumption, SizeOrder
  <1> USE DEF In, Counted, Passed, Awaiting, Admitted
  <1>1. ASSUME UNCHANGED <<queue, spawn, leaked>> PROVE GateInv'
    BY <1>1 DEF GateInv
  <1>2. ASSUME NEW s \in Spawns, Inc(s) PROVE GateInv'
    <2>1. spawn[s] = "idle" /\ Moved(s, "check")
      BY <1>2, SpawnMoves DEF Inc, Places
    <2> QED
      BY <1>2, <2>1 DEF Inc, Moved, GateInv
  <1>3. ASSUME NEW s \in Spawns, Refuse(s) PROVE GateInv'
    <2>1. spawn[s] = "check" /\ Moved(s, "refused")
      BY <1>3, SpawnMoves DEF Refuse, Places
    <2> QED
      BY <1>3, <2>1 DEF Refuse, Moved, GateInv
  <1>4. ASSUME NEW s \in Spawns, Accept(s) PROVE GateInv'
    <2>1. spawn[s] = "check" /\ Moved(s, "layers") /\ queue <= QueueMax /\ UNCHANGED <<queue, leaked>>
      BY <1>0, <1>4, SpawnMoves DEF Accept, QueueFull, Places, GateInv
    <2>2. Size(Spawns, spawn', Passed) <= Size(Spawns, spawn', Counted)
      BY SizeAssumption, SizeOrder
    <2> QED
      BY <1>0, <2>1, <2>2 DEF Moved, GateInv
  <1>5. ASSUME NEW s \in Spawns, GetManifestLayers(s) PROVE GateInv'
    <2>1. CASE manifest = None
      <3>1. spawn[s] = "layers" /\ Moved(s, "failed") /\ leaked' = leaked + 1 /\ queue' = queue
        BY <1>5, <2>1, SpawnMoves DEF GetManifestLayers, Places
      <3> QED
        BY <3>1 DEF Moved, GateInv
    <2>2. CASE manifest # None
      <3>1. spawn[s] = "layers" /\ Moved(s, "connect") /\ UNCHANGED <<queue, leaked>>
        BY <1>5, <2>2, SpawnMoves DEF GetManifestLayers, Places
      <3> QED
        BY <3>1 DEF Moved, GateInv
    <2> QED
      BY <2>1, <2>2
  <1>6. ASSUME NEW s \in Spawns, PortoConnect(s) PROVE GateInv'
    <2>1. CASE SpawnGoto(s, "connect", "acquire") /\ UNCHANGED leaked
      <3>1. spawn[s] = "connect" /\ Moved(s, "acquire") /\ UNCHANGED <<queue, leaked>>
        BY <1>6, <2>1, SpawnMoves DEF PortoConnect, Places
      <3> QED
        BY <3>1 DEF Moved, GateInv
    <2>2. CASE SpawnGoto(s, "connect", "failed") /\ leaked' = leaked + 1
      <3>1. spawn[s] = "connect" /\ Moved(s, "failed") /\ queue' = queue
        BY <1>6, <2>2, SpawnMoves DEF PortoConnect, Places
      <3> QED
        BY <3>1, <2>2 DEF Moved, GateInv
    <2> QED
      BY <1>6, <2>1, <2>2 DEF PortoConnect
  <1>7. ASSUME NEW s \in Spawns, Acquire(s) PROVE GateInv'
    <2>1. UNCHANGED <<queue, leaked>>
      BY <1>7 DEF Acquire
    <2>2. CASE SlotFree /\ SpawnGoto(s, "acquire", "acquired")
      <3>1. spawn[s] = "acquire" /\ Moved(s, "acquired")
        BY <2>2, SpawnMoves DEF Places
      <3>2. Size(Spawns, spawn, Admitted) < SmSize
        BY <2>2 DEF SlotFree, InSlot, Size, At
      <3> QED
        BY <2>1, <3>1, <3>2 DEF Moved, GateInv
    <2>3. CASE SpawnGoto(s, "acquire", "gaveUp")
      <3>1. spawn[s] = "acquire" /\ Moved(s, "gaveUp")
        BY <2>3, SpawnMoves DEF Places
      <3> QED
        BY <2>1, <3>1 DEF Moved, GateInv
    <2> QED
      BY <1>7, <2>2, <2>3 DEF Acquire
  <1>8. ASSUME NEW s \in Spawns, CreateContainer(s) PROVE GateInv'
    <2>1. spawn[s] = "create" /\ Moved(s, "release") /\ UNCHANGED <<queue, leaked>>
      BY <1>8, SpawnMoves DEF CreateContainer, Places
    <2> QED
      BY <2>1 DEF Moved, GateInv
  <1>9. ASSUME NEW s \in Spawns, ReleaseLock(s) PROVE GateInv'
    <2>1. spawn[s] = "release" /\ Moved(s, "done") /\ UNCHANGED <<queue, leaked>>
      BY <1>9, SpawnMoves DEF ReleaseLock, Places
    <2> QED
      BY <2>1 DEF Moved, GateInv
  <1>10. ASSUME CrashRestart PROVE GateInv'
    <2>1. spawn' = [s \in Spawns |-> IF spawn[s] = "idle" THEN "idle" ELSE "failed"] /\ queue' = 0 /\ leaked' = 0
      BY <1>10 DEF CrashRestart
    <2>2. ASSUME NEW L \in {Counted, Passed, Admitted} PROVE Size(Spawns, spawn', L) = 0
      BY <2>1, SizeZero
    <2>3. spawn' \in [Spawns -> Places]
      BY <2>1 DEF Places
    <2> QED
      BY <2>1, <2>2, <2>3 DEF GateInv
  <1>11. ASSUME NEW p \in Spools, Spool(p) PROVE GateInv'
    BY <1>1, <1>11 DEF Spool, GetLayers, HelperFallsBack, ImportLayers, Importing, GetLayersFails,
                       InsertManifestLayers, Bind, SpoolGoto, gate
  <1>12. ASSUME DumpEncode \/ DumpRename \/ UNCHANGED boxVars PROVE GateInv'
    BY <1>1, <1>12 DEF DumpEncode, DumpRename, gate, boxVars
  <1>13. ASSUME NEW s \in Spawns, ReturnEAGAIN(s) \/ Dequeue(s) PROVE GateInv'
    <2>1. queue' = queue - 1 /\ leaked' = leaked
      BY <1>13 DEF ReturnEAGAIN, Dequeue, Dec
    <2>2. CASE SpawnGoto(s, "acquired", "create")
      <3>1. spawn[s] = "acquired" /\ Moved(s, "create")
        BY <2>2, SpawnMoves DEF Places
      <3> QED
        BY <2>1, <3>1 DEF Moved, GateInv
    <2>3. CASE SpawnGoto(s, "refused", "failed")
      <3>1. spawn[s] = "refused" /\ Moved(s, "failed")
        BY <2>3, SpawnMoves DEF Places
      <3> QED
        BY <2>1, <3>1 DEF Moved, GateInv
    <2>4. CASE SpawnGoto(s, "gaveUp", "failed")
      <3>1. spawn[s] = "gaveUp" /\ Moved(s, "failed")
        BY <2>4, SpawnMoves DEF Places
      <3> QED
        BY <2>1, <3>1 DEF Moved, GateInv
    <2> QED
      BY <1>13, <2>2, <2>3, <2>4 DEF ReturnEAGAIN, Dequeue
  <1> QED
    BY <1>2, <1>3, <1>4, <1>5, <1>6, <1>7, <1>8, <1>9, <1>10, <1>11, <1>12, <1>13 DEF BoxNext, Spawn

\* The counter and the limits of the Porto box: the counter drifts by the
\* Spawns that failed between Inc and Acquire and by nothing else, and neither
\* the semaphore nor the bound of the queue is ever exceeded.
THEOREM PortoGate == BoxSpec => []GateDrift
  <1> USE SizeAssumption
  <1>1. BoxInit => GateInv
    BY GateInit
  <1>2. GateInv /\ [BoxNext]_boxVars => GateInv'
    BY GateStep
  <1>3. GateInv => GateDrift
    <2>1. /\ Queued = At(Spawns, spawn, Counted) /\ InSlot = At(Spawns, spawn, Admitted)
          /\ PastCheck = At(Spawns, spawn, Passed)
      BY DEF Queued, PastCheck, InSlot, At, Counted, Passed, Awaiting, Admitted
    <2> QED
      BY <2>1, Zenon DEF GateInv, GateDrift, Size
  <1> QED
    BY <1>1, <1>2, <1>3, PTL DEF BoxSpec

-----------------------------------------------------------------------------
(* The abstract gate.                                                      *)

\* The instance of the abstract gate counts as the library does.
LEMMA SameGateCardinality == \A X : Gate!Cardinality(X) = Cardinality(X)
  BY DEF Gate!Cardinality, Cardinality, Gate!IsFiniteSet, IsFiniteSet

\* The labels of the gate.
LEMMA Labelled ==
  /\ GateLabel("idle") = "out" /\ GateLabel("check") = "asking"
  /\ GateLabel("refused") = "leaving" /\ GateLabel("gaveUp") = "leaving" /\ GateLabel("acquired") = "entering"
  /\ \A l \in Awaiting : GateLabel(l) = "waiting"
  /\ GateLabel("create") = "inside" /\ GateLabel("release") = "inside"
  /\ GateLabel("done") = "gone" /\ GateLabel("failed") = "gone"
  BY DEF GateLabel, Awaiting

\* The gate counts the Spawns the semaphore counts, and those of the counter
\* with the places lost.
LEMMA GateCounts ==
  ASSUME SizeAssumption, GateInv
  PROVE  /\ Gate!Standing = queue
         /\ Gate!Cardinality(Gate!At({"entering", "inside"})) = Cardinality(InSlot)
  <1>1. \A s \in Spawns : GatePlace[s] \in {"asking", "waiting", "entering", "leaving"} <=> spawn[s] \in Counted
    BY Labelled DEF GateInv, GatePlace, Places, Counted, Passed, Awaiting
  <1>2. \A s \in Spawns : GatePlace[s] \in {"entering", "inside"} <=> spawn[s] \in {"acquired", "create", "release"}
    BY Labelled DEF GateInv, GatePlace, Places, Awaiting
  <1>3. /\ Gate!At({"asking", "waiting", "entering", "leaving"}) = At(Spawns, spawn, Counted)
        /\ Gate!At({"entering", "inside"}) = InSlot
    BY <1>1, <1>2, Zenon DEF Gate!At, At, InSlot
  <1> QED
    BY <1>3, SameGateCardinality DEF Gate!Standing, GateInv, Size

\* A Spawn that moves moves at the gate.
LEMMA GateGo ==
  ASSUME GateInv, NEW s \in Spawns, NEW a, NEW l, SpawnGoto(s, a, l)
  PROVE  Gate!Go(s, GateLabel(a), GateLabel(l))
  BY Zenon DEF GateInv, SpawnGoto, Gate!Go, GatePlace

\* Every step of the box is a step of the gate or none.
LEMMA AbstractGateStep ==
  ASSUME SizeAssumption, GateInv, [BoxNext]_boxVars
  PROVE  [Gate!Next]_(Gate!vars)
  <1>1. ASSUME UNCHANGED <<spawn, leaked, restarts>> PROVE UNCHANGED Gate!vars
    BY <1>1 DEF Gate!vars, GatePlace
  <1>2. ASSUME NEW s \in Spawns, Inc(s) PROVE Gate!Ask(s)
    BY <1>2, GateGo, Labelled DEF Inc, Gate!Ask
  <1>3. ASSUME NEW s \in Spawns, Refuse(s) PROVE Gate!Refuse(s)
    <2>1. Gate!Go(s, "asking", "leaving")
      BY <1>3, GateGo, Labelled DEF Refuse
    <2> QED
      BY <1>3, <2>1, GateCounts DEF Refuse, QueueFull, Gate!Refuse
  <1>4. ASSUME NEW s \in Spawns, Accept(s) PROVE Gate!Admit(s)
    <2>1. Gate!Go(s, "asking", "waiting")
      BY <1>4, GateGo, Labelled DEF Accept, Awaiting
    <2>2. queue \in Nat
      <3>1. IsFiniteSet(Spawns)
        BY SizeAssumption
      <3>2. Size(Spawns, spawn, Counted) \in Nat
        BY <3>1, SizeOrder
      <3> QED
        BY <3>2 DEF GateInv
    <2> QED
      BY <1>4, <2>1, <2>2, GateCounts DEF Accept, QueueFull, Gate!Admit
  <1>5. ASSUME NEW s \in Spawns, NEW a \in Awaiting, NEW l \in Awaiting, SpawnGoto(s, a, l), UNCHANGED leaked
        PROVE  UNCHANGED Gate!vars
    <2>1. Gate!Go(s, "waiting", "waiting")
      BY <1>5, GateGo, Labelled
    <2> QED
      BY <1>5, <2>1, Zenon DEF Gate!Go, Gate!vars, GatePlace
  <1>6. ASSUME NEW s \in Spawns, NEW a \in Awaiting, SpawnGoto(s, a, "failed"), leaked' = leaked + 1
        PROVE  Gate!Lose(s)
    <2>1. Gate!Go(s, "waiting", "gone")
      BY <1>6, GateGo, Labelled
    <2> QED
      BY <1>6, <2>1 DEF Gate!Lose
  <1>7. ASSUME NEW s \in Spawns, GetManifestLayers(s) \/ PortoConnect(s)
        PROVE  UNCHANGED Gate!vars \/ Gate!Lose(s)
    <2>1. \E a \in Awaiting : \/ \E l \in Awaiting : SpawnGoto(s, a, l) /\ UNCHANGED leaked
                              \/ SpawnGoto(s, a, "failed") /\ leaked' = leaked + 1
      BY <1>7 DEF GetManifestLayers, PortoConnect, Awaiting
    <2> QED
      BY <1>5, <1>6, <2>1
  <1>8. ASSUME NEW s \in Spawns, Acquire(s) PROVE Gate!Enter(s) \/ Gate!GiveUp(s)
    <2>1. CASE SlotFree /\ SpawnGoto(s, "acquire", "acquired")
      <3>1. Gate!Go(s, "waiting", "entering")
        BY <2>1, GateGo, Labelled DEF Awaiting
      <3> QED
        BY <1>8, <2>1, <3>1, GateCounts DEF SlotFree, Acquire, Gate!Enter
    <2>2. CASE SpawnGoto(s, "acquire", "gaveUp")
      <3>1. Gate!Go(s, "waiting", "leaving")
        BY <2>2, GateGo, Labelled DEF Awaiting
      <3> QED
        BY <1>8, <3>1 DEF Acquire, Gate!GiveUp
    <2> QED
      BY <1>8, <2>1, <2>2 DEF Acquire
  <1>9. ASSUME NEW s \in Spawns, CreateContainer(s) PROVE UNCHANGED Gate!vars
    <2>1. Gate!Go(s, "inside", "inside")
      BY <1>9, GateGo, Labelled DEF CreateContainer
    <2> QED
      BY <1>9, <2>1, Zenon DEF CreateContainer, Gate!Go, Gate!vars, GatePlace
  <1>10. ASSUME NEW s \in Spawns, ReleaseLock(s) PROVE Gate!Leave(s)
    <2>1. Gate!Go(s, "inside", "gone")
      BY <1>10, GateGo, Labelled DEF ReleaseLock
    <2> QED
      BY <1>10, <2>1 DEF ReleaseLock, Gate!Leave
  <1>11. ASSUME CrashRestart PROVE Gate!Restart
    <2>1. ASSUME NEW s \in Spawns
          PROVE  GateLabel(spawn'[s]) = IF GateLabel(spawn[s]) = "out" THEN "out" ELSE "gone"
      BY <1>11, Labelled DEF CrashRestart, GateInv, Places, Awaiting
    <2>2. GatePlace' = [s \in Spawns |-> IF GatePlace[s] = "out" THEN "out" ELSE "gone"]
      BY <2>1 DEF GatePlace
    <2> QED
      BY <1>11, <2>2 DEF CrashRestart, Gate!Restart
  <1>12. ASSUME \/ \E p \in Spools : Spool(p)
                \/ DumpEncode \/ DumpRename \/ UNCHANGED boxVars
         PROVE  UNCHANGED <<spawn, leaked, restarts>>
    BY <1>12, Zenon DEF Spool, GetLayers, HelperFallsBack, ImportLayers, Importing, GetLayersFails,
                 InsertManifestLayers, Bind, SpoolGoto, DumpEncode, DumpRename, boxVars, gate
  <1>13. ASSUME NEW s \in Spawns, ReturnEAGAIN(s) \/ Dequeue(s) PROVE Gate!Pass(s) \/ Gate!Leave(s)
    <2>0. leaked' = leaked
      BY <1>13 DEF ReturnEAGAIN, Dequeue
    <2>1. CASE SpawnGoto(s, "acquired", "create")
      <3>1. Gate!Go(s, "entering", "inside")
        BY <2>1, GateGo, Labelled
      <3> QED
        BY <2>0, <3>1 DEF Gate!Pass
    <2>2. CASE \E l \in {"refused", "gaveUp"} : SpawnGoto(s, l, "failed")
      <3>1. Gate!Go(s, "leaving", "gone")
        BY <2>2, GateGo, Labelled
      <3> QED
        BY <2>0, <3>1 DEF Gate!Leave
    <2> QED
      BY <1>13, <2>1, <2>2 DEF ReturnEAGAIN, Dequeue
  <1>14. ASSUME NEW s \in Spawns, Spawn(s) PROVE Gate!Next \/ UNCHANGED Gate!vars
    BY <1>2, <1>3, <1>4, <1>7, <1>8, <1>9, <1>10, <1>13, <1>14, Zenon DEF Spawn, Gate!Next
  <1> QED
    BY <1>1, <1>11, <1>12, <1>14, Zenon DEF BoxNext, Gate!Next

\* The Porto box implements a gate that loses a place with every Spawn that
\* fails between Inc and Acquire, and in no other way.
THEOREM PortoImplementsGate == BoxSpec => RefinesGate
  <1> USE SizeAssumption
  <1>1. BoxInit => Gate!Init
    BY Labelled DEF BoxInit, Gate!Init, GatePlace
  <1>2. BoxSpec => []GateInv
    <2>1. BoxInit => GateInv
      BY GateInit
    <2>2. GateInv /\ [BoxNext]_boxVars => GateInv'
      BY GateStep
    <2> QED
      BY <2>1, <2>2, PTL DEF BoxSpec
  <1>3. GateInv /\ [BoxNext]_boxVars => [Gate!Next]_(Gate!vars)
    BY AbstractGateStep, Zenon
  <1> QED
    BY <1>1, <1>2, <1>3, PTL DEF BoxSpec, RefinesGate, Gate!Spec

-----------------------------------------------------------------------------
(* The types and the journal.                                              *)

\* What the journal, its temporary file and its file name was imported, and so
\* was the image of a Spool that is past its import.
BackedInv ==
  /\ \A p \in Spools : spool[p] \in {"insert", "bind", "done"} => p \in imported
  /\ \A i \in dump : i # None => i \in imported
  /\ manifest # None => manifest \in imported
  /\ file # None => file \in imported
  /\ \A s \in Spawns : layers[s] # None => layers[s] \in imported

PortoInv == GateInv /\ BoxTypeOK /\ BackedInv

\* Every step of a Spool, of a dump and of a Spawn, and a crash, keeps them.
LEMMA PortoStep ==
  ASSUME SizeAssumption, BoundAssumption, PortoInv, [BoxNext]_boxVars
  PROVE  PortoInv'
  <1>0. GateInv' /\ queue' \in Nat /\ leaked' \in Nat
    <2>1. GateInv'
      BY GateStep DEF PortoInv
    <2>2. IsFiniteSet(Spawns)
      BY SizeAssumption
    <2>3. Size(Spawns, spawn', Counted) \in Nat
      BY <2>2, SizeOrder
    <2> QED
      BY <2>1, <2>3 DEF GateInv
  <1> SUFFICES BoxTypeOK' /\ BackedInv'
    BY <1>0 DEF PortoInv
  <1> USE DEF PortoInv, BoxTypeOK, Image, BackedInv, journal, gate
  <1>1. ASSUME NEW p \in Spools, Spool(p), imported' = imported \/ imported' = imported \cup {p}
        PROVE  BoxTypeOK' /\ BackedInv'
    <2>1. UNCHANGED <<queue, spawn, layers, leaked, restarts, file, dump>>
      BY <1>1, Zenon DEF Spool, GetLayers, HelperFallsBack, ImportLayers, Importing, GetLayersFails,
                  InsertManifestLayers, Bind, SpoolGoto
    <2>2. PICK l \in {"import", "registry", "insert", "bind", "done", "error"} :
            /\ spool' = [spool EXCEPT ![p] = l]
            /\ l \in {"insert", "bind", "done"} => p \in imported'
      BY <1>1, Zenon DEF Spool, GetLayers, HelperFallsBack, ImportLayers, Importing, GetLayersFails,
                  InsertManifestLayers, Bind, SpoolGoto, Import
    <2>3. manifest' = manifest \/ (manifest' = p /\ p \in imported')
      BY <1>1, Zenon DEF Spool, GetLayers, HelperFallsBack, ImportLayers, Importing, GetLayersFails,
                  InsertManifestLayers, Bind, SpoolGoto
    <2>4. imported' \subseteq Spools /\ imported \subseteq imported'
      BY <1>1
    <2>5. BoxTypeOK'
      BY <2>1, <2>2, <2>3, <2>4
    <2>6. \A q \in Spools : spool'[q] \in {"insert", "bind", "done"} => q \in imported'
      BY <2>2, <2>4
    <2> QED
      BY <2>1, <2>3, <2>4, <2>5, <2>6, Zenon
  <1>2. ASSUME NEW p \in Spools, Spool(p) PROVE imported' = imported \/ imported' = imported \cup {p}
    BY <1>2 DEF Spool, GetLayers, HelperFallsBack, ImportLayers, Import, GetLayersFails,
                InsertManifestLayers, Bind
  <1>3. ASSUME DumpEncode \/ DumpRename PROVE BoxTypeOK' /\ BackedInv'
    BY <1>3 DEF DumpEncode, DumpRename
  <1>4. ASSUME NEW s \in Spawns, Spawn(s) PROVE BoxTypeOK' /\ BackedInv'
    <2>1. UNCHANGED <<imported, manifest, file, dump, spool, restarts>>
      BY <1>4, Zenon DEF Spawn, Inc, Refuse, ReturnEAGAIN, Accept, GetManifestLayers, PortoConnect, Acquire,
                  Dequeue, CreateContainer, ReleaseLock, SpawnGoto
    <2>2. layers' \in {layers, [layers EXCEPT ![s] = manifest]}
      BY <1>4, Zenon DEF Spawn, Inc, Refuse, ReturnEAGAIN, Accept, GetManifestLayers, PortoConnect, Acquire,
                  Dequeue, CreateContainer, ReleaseLock
    <2>3. /\ layers' \in [Spawns -> Image]
          /\ \A q \in Spawns : layers'[q] # None => layers'[q] \in imported
      BY <2>2
    <2>4. BackedInv'
      BY <2>1, <2>3, Zenon
    <2> QED
      BY <2>1, <2>3, <2>4, <1>0, Zenon DEF GateInv, Places
  <1>5. ASSUME CrashRestart PROVE BoxTypeOK' /\ BackedInv'
    <2>1. restarts' \in 0..MaxRestarts
      BY <1>5 DEF CrashRestart
    <2> QED
      BY <1>0, <1>5, <2>1, Zenon DEF CrashRestart
  <1>6. ASSUME UNCHANGED boxVars PROVE BoxTypeOK' /\ BackedInv'
    BY <1>6 DEF boxVars
  <1> QED
    BY <1>1, <1>2, <1>3, <1>4, <1>5, <1>6, Zenon DEF BoxNext

\* The invariant of the Porto box holds in every reachable state.
THEOREM PortoInvariance == BoxSpec => []PortoInv
  <1> USE SizeAssumption, BoundAssumption
  <1>1. BoxInit => PortoInv
    <2> SUFFICES ASSUME BoxInit PROVE PortoInv
      OBVIOUS
    <2>1. GateInv
      BY GateInit
    <2>2. BoxTypeOK
      BY DEF BoxInit, BoxTypeOK, Image
    <2>3. BackedInv
      BY DEF BoxInit, BackedInv
    <2> QED
      BY <2>1, <2>2, <2>3 DEF PortoInv
  <1>2. PortoInv /\ [BoxNext]_boxVars => PortoInv'
    BY PortoStep
  <1> QED
    BY <1>1, <1>2, PTL DEF BoxSpec

\* The box stays well typed; the counter of queued Spawns never falls below
\* zero.
THEOREM PortoTypeCorrect == BoxSpec => []BoxTypeOK
  <1>1. PortoInv => BoxTypeOK
    BY Zenon DEF PortoInv
  <1> QED
    BY <1>1, PortoInvariance, PTL

\* Whatever Spools, dumps and restarts do, what the journal, its file and the
\* Spawns name has been imported into portod.
THEOREM JournalIsBacked == BoxSpec => []JournalBacked
  <1>1. PortoInv => JournalBacked
    <2> SUFFICES ASSUME BackedInv, NEW i \in {manifest, file} \cup {layers[s] : s \in Spawns}, i # None
                 PROVE  i \in imported
      BY Zenon DEF PortoInv, JournalBacked
    <2>1. i = manifest \/ i = file \/ \E s \in Spawns : i = layers[s]
      OBVIOUS
    <2>2. ASSUME NEW s \in Spawns, i = layers[s] PROVE i \in imported
      BY <2>2, Zenon DEF BackedInv
    <2>3. CASE i = manifest
      BY <2>3, Zenon DEF BackedInv
    <2>4. CASE i = file
      BY <2>4, Zenon DEF BackedInv
    <2> QED
      BY <2>1, <2>2, <2>3, <2>4, Zenon
  <1> QED
    BY <1>1, PortoInvariance, PTL

\* Once as many Spawns as the queue has places failed without a manifest or a
\* connection, the box is closed: until the daemon is started again the places
\* stay lost and no Spawn gets past the check of the queue, though everybody may
\* have left it.
StarvedForGood ==
  [][leaked = QueueMax /\ restarts' = restarts =>
       /\ leaked' = QueueMax
       /\ \A s \in Spawns : ~Accept(s)]_boxVars

\* The Dec that two early returns of Spawn miss closes the box in the end, and
\* only a restart opens it.
THEOREM LeakStarves == BoxSpec => StarvedForGood
<1>1. ASSUME PortoInv, PortoInv', [BoxNext]_boxVars, leaked = QueueMax, restarts' = restarts
      PROVE  leaked' = QueueMax /\ \A s \in Spawns : ~Accept(s)
  <2>t. GateInv /\ GateInv' /\ QueueMax \in Nat /\ restarts \in Nat
    BY <1>1, SizeAssumption DEF PortoInv, BoxTypeOK
  <2>1. leaked' <= QueueMax
    <3>1. Size(Spawns, spawn', Passed) \in Nat
      BY SizeAssumption, SizeOrder
    <3> QED
      BY <2>t, <3>1 DEF GateInv
  <2>2. ASSUME NEW s \in Spawns, Spawn(s) PROVE leaked' \in {leaked, leaked + 1}
    BY <2>2, Zenon DEF Spawn, Inc, Refuse, ReturnEAGAIN, Accept, GetManifestLayers, PortoConnect, Acquire,
                       Dequeue, CreateContainer, ReleaseLock
  <2>3. ASSUME NEW p \in Spools, Spool(p) PROVE leaked' = leaked
    BY <2>3, Zenon DEF Spool, GetLayers, HelperFallsBack, ImportLayers, Importing, GetLayersFails,
                       InsertManifestLayers, Bind, SpoolGoto, gate
  <2>4. ASSUME DumpEncode \/ DumpRename \/ UNCHANGED boxVars PROVE leaked' = leaked
    BY <2>4, Zenon DEF DumpEncode, DumpRename, boxVars, gate
  <2>5. ~CrashRestart
    BY <1>1, <2>t DEF CrashRestart
  <2>6. leaked' \in {leaked, leaked + 1}
    BY <1>1, <2>2, <2>3, <2>4, <2>5 DEF BoxNext
  <2>7. ASSUME NEW s \in Spawns, Accept(s) PROVE FALSE
    <3>1. spawn[s] = "check" /\ ~(queue > QueueMax)
      BY <2>7, Zenon DEF Accept, QueueFull, SpawnGoto
    <3>2. At(Spawns, spawn, Counted) # {}
      BY <3>1, Zenon DEF At, Counted
    <3>3. IsFiniteSet(At(Spawns, spawn, Counted))
      BY SizeAssumption, FS_Subset DEF At
    <3>4. Size(Spawns, spawn, Counted) # 0
      BY <3>2, <3>3, FS_EmptySet, Zenon DEF Size
    <3>5. Size(Spawns, spawn, Counted) \in Nat
      BY <3>3, FS_CardinalityType DEF Size
    <3>6. queue = Size(Spawns, spawn, Counted) + QueueMax
      BY <1>1, <2>t, Zenon DEF GateInv
    <3> QED
      BY <2>t, <3>1, <3>4, <3>5, <3>6
  <2> QED
    BY <1>1, <2>t, <2>1, <2>6, <2>7
<1> QED
  BY <1>1, PortoInvariance, PTL DEF BoxSpec, StarvedForGood

-----------------------------------------------------------------------------
(***************************************************************************)
(* The blob repository.                                                    *)
(***************************************************************************)

\* The key is in the map exactly while a goroutine downloads, and there is
\* one such goroutine; this is what WaiterServed and OneFetch rest on.
FlightInv ==
  /\ fetch = {} <=> inProgress = Nothing
  /\ \A f, g \in fetch : f = g

\* A result that is on its way names a file that is there.
ResultInv ==
  /\ PathExists
  /\ \A c \in Gets : chan[c] = "path" => blob
  /\ \A f \in fetch : f.at = "notify" /\ f.res = "path" => blob

BlobInv == RepoTypeOK /\ FlightInv /\ ResultInv /\ WaiterServed

\* The invariant of the repository is inductive.
THEOREM BlobInvariance == RepoSpec => []BlobInv
<1> USE BlobRepoAssumption
<1> USE DEF Results
<1>1. RepoInit => BlobInv
  BY Zenon DEF RepoInit, BlobInv, RepoTypeOK, FlightInv, ResultInv, PathExists, WaiterServed
<1>2. BlobInv /\ [RepoNext]_repoVars => BlobInv'
  <2> SUFFICES ASSUME BlobInv, [RepoNext]_repoVars PROVE BlobInv'
    OBVIOUS
  <2> USE DEF BlobInv, RepoTypeOK, FlightInv, ResultInv, PathExists, WaiterServed, Waiting
  <2>1. ASSUME UNCHANGED repoVars PROVE BlobInv'
    BY <2>1 DEF repoVars
  <2>2. ASSUME NEW c \in Gets, Call(c) PROVE BlobInv'
    BY <2>2 DEF Call
  <2>3. ASSUME NEW c \in Gets, Lstat(c) PROVE BlobInv'
    BY <2>3 DEF Lstat
  <2>4. ASSUME NEW c \in Gets, Join(c) PROVE BlobInv'
    <3>1. CASE Starts
      <4>1. fetch = {} /\ inProgress' = {c} /\ fetch' = {[by |-> c, at |-> "fetch", res |-> "error"]}
        BY <2>4, <3>1, Zenon DEF Join, Starts
      <4>2. get' = [get EXCEPT ![c] = "wait"] /\ UNCHANGED <<cancelled, blob, chan>>
        BY <2>4, Zenon DEF Join
      <4> DEFINE r == [by |-> c, at |-> "fetch", res |-> "error"]
      <4>3. r \in [by : Gets, at : {"fetch", "notify"}, res : Results] /\ r.at = "fetch"
        BY Zenon
      <4>4. fetch' = {r}
        BY <4>1, Zenon
      <4> HIDE DEF r
      <4> QED
        BY <4>1, <4>2, <4>3, <4>4, Zenon
    <3>2. CASE ~Starts
      BY <2>4, <3>2, Zenon DEF Join, Starts
    <3> QED
      BY <3>1, <3>2, Zenon
  <2>5. ASSUME NEW c \in Gets, Receive(c) PROVE BlobInv'
    BY <2>5, Zenon DEF Receive
  <2>6. ASSUME NEW c \in Gets, GiveUp(c) PROVE BlobInv'
    BY <2>6, Zenon DEF GiveUp
  <2>7. ASSUME NEW c \in Gets, Cancel(c) PROVE BlobInv'
    BY <2>7, Zenon DEF Cancel
  <2>8. ASSUME NEW f \in fetch, FetchEnds(f) PROVE BlobInv'
    <3>1. PICK ok \in BOOLEAN :
            /\ blob' = (blob \/ ok)
            /\ fetch' = (fetch \ {f}) \cup {[f EXCEPT !.at = "notify", !.res = FetchResult(ok)]}
      BY <2>8, Zenon DEF FetchEnds
    <3>2. /\ fetch = {f} /\ fetch' = {[f EXCEPT !.at = "notify", !.res = FetchResult(ok)]}
          /\ UNCHANGED <<get, cancelled, inProgress, chan>>
      BY <2>8, <3>1 DEF FetchEnds
    <3>3. blob' \in BOOLEAN /\ (blob => blob') /\ (FetchResult(ok) = "path" => blob')
      BY <3>1 DEF FetchResult
    <3>4. FetchResult(ok) \in Results
      BY DEF FetchResult
    <3> DEFINE g == [f EXCEPT !.at = "notify", !.res = FetchResult(ok)]
    <3>5. g \in [by : Gets, at : {"fetch", "notify"}, res : Results] /\ g.res = FetchResult(ok)
      BY <3>4, Zenon
    <3> QED
      BY <3>2, <3>3, <3>5, Zenon
  <2>9. ASSUME NEW f \in fetch, Notify(f) PROVE BlobInv'
    BY <2>9, Zenon DEF Notify, Notified, ForgetWaiters
  <2> QED
    BY <2>1, <2>2, <2>3, <2>4, <2>5, <2>6, <2>7, <2>8, <2>9, Zenon DEF RepoNext, Get, Fetch
<1> QED
  BY <1>1, <1>2, PTL DEF RepoSpec

\* Single flight: download starts no second goroutine for a digest.
THEOREM SingleFlight == RepoSpec => []OneFetch
<1>1. BlobInv => OneFetch
  <2> SUFFICES ASSUME BlobInv PROVE OneFetch
    OBVIOUS
  <2>1. CASE fetch = {}
    <3>1. Cardinality({}) = 0
      BY FS_EmptySet
    <3> QED
      BY <2>1, <3>1 DEF OneFetch
  <2>2. CASE fetch # {}
    <3>1. PICK f \in fetch : TRUE
      BY <2>2
    <3>2. fetch = {f}
      BY <3>1 DEF BlobInv, FlightInv
    <3> QED
      <4>1. Cardinality({f}) = 1
        BY FS_Singleton
      <4> QED
        BY <3>2, <4>1 DEF OneFetch
  <2> QED
    BY <2>1, <2>2
<1> QED
  BY <1>1, BlobInvariance, PTL

\* Nobody waits in the select of download without a result in its channel or
\* a goroutine that will send one.
THEOREM NobodyForgotten == RepoSpec => []WaiterServed
  BY BlobInvariance, PTL DEF BlobInv

\* Get returns the path of a file that was downloaded.
THEOREM PathsAreFiles == RepoSpec => []PathExists
  BY BlobInvariance, PTL DEF BlobInv, ResultInv

\* The repository stays well typed.
THEOREM BlobTypeCorrect == RepoSpec => []RepoTypeOK
  BY BlobInvariance, PTL DEF BlobInv

\* A channel that download still has in the map is empty, so that the sends to
\* it under the lock of the repository find room in its buffer of one.
RoomForResult == \A c \in Waiting : chan[c] = Nothing

\* A caller that has not joined has an empty channel that is not in the map.
RoomInv ==
  /\ RoomForResult
  /\ \A c \in Gets : get[c] \in {"idle", "lstat", "download"} => c \notin Waiting /\ chan[c] = Nothing

\* The goroutine that announces the end of a download never blocks with the
\* lock in its hands, whether the waiters are still in their select or gone.
THEOREM AnnouncingNeverBlocks == RepoSpec => []RoomForResult
<1>1. RepoInit => RoomInv
  BY DEF RepoInit, RoomInv, RoomForResult, Waiting
<1>2. BlobInv /\ RoomInv /\ [RepoNext]_repoVars => RoomInv'
  <2> SUFFICES ASSUME RepoTypeOK, RoomInv, [RepoNext]_repoVars PROVE RoomInv'
    BY DEF BlobInv
  <2> USE DEF RoomInv, RoomForResult, Waiting, RepoTypeOK
  <2>1. ASSUME UNCHANGED repoVars PROVE RoomInv'
    BY <2>1, Zenon DEF repoVars
  <2>2. ASSUME NEW c \in Gets, Call(c) PROVE RoomInv'
    BY <2>2 DEF Call
  <2>3. ASSUME NEW c \in Gets, Lstat(c) PROVE RoomInv'
    BY <2>3 DEF Lstat
  <2>4. ASSUME NEW c \in Gets, Join(c) PROVE RoomInv'
    <3>1. /\ get[c] = "download" /\ get' = [get EXCEPT ![c] = "wait"] /\ chan' = chan
          /\ inProgress' = Waiting \cup {c}
      BY <2>4 DEF Join
    <3>2. inProgress' # Nothing
      BY <3>1, BlobRepoAssumption
    <3> QED
      BY <3>1, <3>2
  <2>5. ASSUME NEW c \in Gets, Receive(c) PROVE RoomInv'
    BY <2>5 DEF Receive, Results
  <2>6. ASSUME NEW c \in Gets, GiveUp(c) \/ Cancel(c) PROVE RoomInv'
    BY <2>6 DEF GiveUp, Cancel
  <2>7. ASSUME NEW f \in fetch, FetchEnds(f) PROVE RoomInv'
    BY <2>7, Zenon DEF FetchEnds
  <2>8. ASSUME NEW f \in fetch, Notify(f) PROVE RoomInv'
    BY <2>8 DEF Notify, Notified, ForgetWaiters
  <2> QED
    BY <2>1, <2>2, <2>3, <2>4, <2>5, <2>6, <2>7, <2>8, Zenon DEF RepoNext, Get, Fetch
<1>3. RoomInv => RoomForResult
  BY DEF RoomInv
<1> QED
  BY <1>1, <1>2, <1>3, BlobInvariance, PTL DEF RepoSpec
=============================================================================
