----------------------------- MODULE PortoVolumes -----------------------------
(***************************************************************************)
(* The volumes and the storage directories of a container of the Porto     *)
(* box: CreateRootVolume, CreateExtraVolumes, CreateContainer and Link in  *)
(* container_config.go, newContainer and Cleanup in container.go, and what *)
(* waitLoop collects at a start of the daemon (box.go).  The addresses of  *)
(* the containers are in PortoMtn.                                         *)
(*                                                                         *)
(* portod keeps a volume as long as it is linked to a container: to the    *)
(* root container by its creation, to the container of the worker by Link. *)
(* Every call of portod and of the file system may fail.  One Spawn is     *)
(* modelled: Spawns with different IDs share no volume and no directory.   *)
(* Every extra volume has a storage directory; the daemon runs in the root *)
(* container, with cleanup_enabled, its default.                           *)
(***************************************************************************)
EXTENDS Naturals, FiniteSets, FiniteSetsExt

CONSTANTS
  N,           \* the number of extra volumes of the profile
  MaxCrashes   \* bound: the crashes of the daemon

ASSUME NAssumption == N \in Nat /\ MaxCrashes \in Nat

root == 0
Extras == 1..N
Volumes == 0..N

Callers == {"spawn", "client", "wait"}   \* the callers of Cleanup

VARIABLES
  pc,          \* where the Spawn is
  volumes,     \* the volumes newContainer has in its hands
  linked,      \* the volumes with portoVolume.linked
  storagepath, \* the volumes with a storageVolume.storagepath
  made,        \* portod: the volumes linked to the root container
  link,        \* portod: the volumes linked to the container
  storage,     \* the storage directories
  cont,        \* portod: the container
  tracked,     \* the container is in Box.containers
  cleanup,     \* what each caller of Cleanup has still to destroy
  gc,          \* where waitLoop is
  crashes,
  fault,       \* history: a step of a cleanup has failed, or never came
  refused      \* history: CreateContainer has failed

memory == <<pc, volumes, linked, storagepath, tracked, cleanup>>
portod == <<made, link, cont>>
history == <<fault, refused>>
vars == <<memory, portod, storage, gc, crashes, history>>

Up == gc # "down"
Existing == made \cup link

\* What Cleanup goes through, in this order: the volumes, then the container.
container == N + 1
CleanupAll == Volumes \cup {container}
Cleaning == \E a \in Callers : cleanup[a] # {}

(***************************************************************************)
(* Volumes.                                                                *)
(***************************************************************************)

\* Mutant: the storage directory is not removed.
DestroyStorageKept(v) ==
  /\ link' = link \ (linked \cap {v}) /\ made' = made \ {v}
  /\ UNCHANGED <<storage, fault>>

\* portoVolume.Destroy and storageVolume.Destroy: unlink, then remove the
\* storage directory.  An error is logged, and the next step is taken.
Destroy(v) ==
  \/ /\ link' = link \ (linked \cap {v})
     /\ made' = made \ {v}
     /\ storage' = storage \ (storagepath \cap {v})
     /\ UNCHANGED fault
  \/ /\ link' \in {link, link \ (linked \cap {v})}
     /\ made' \in {made, made \ {v}}
     /\ storage' \in {storage, storage \ (storagepath \cap {v})}
     /\ fault' = TRUE

\* portoConn.Destroy ends the worker and takes the links of the container.
DestroyContainer == cont' = "absent" /\ link' = {}

(***************************************************************************)
(* Spawn.                                                                  *)
(***************************************************************************)

Goto(at, next) == Up /\ pc = at /\ pc' = next

\* CreateRootVolume: a volume that cannot be created is destroyed again.
CreateRootVolume ==
  /\ \/ Goto("idle", "extra") /\ made' = {root} /\ volumes' = {root}
     \/ Goto("idle", "failed") /\ UNCHANGED <<made, volumes>>
  /\ UNCHANGED <<linked, storagepath, link, storage, cont, tracked, cleanup, gc, crashes, history>>

\* One round of CreateExtraVolumes.  It fails before the volume is known, on
\* the storage directory, or on the volume; then cleanUpOnError.
CreateExtraVolume ==
  LET v == Cardinality(volumes) IN
  /\ v \in Extras
  /\ \/ /\ Goto("extra", "cleanUpOnError")
        /\ volumes' \in {volumes, volumes \cup {v}}
        /\ UNCHANGED <<storagepath, storage, made>>
     \/ \E created \in BOOLEAN :
          /\ Goto("extra", IF created THEN "extra" ELSE "cleanUpOnError")
          /\ volumes' = volumes \cup {v}
          /\ storagepath' = storagepath \cup {v}
          /\ storage' = storage \cup {v}
          /\ made' = IF created THEN made \cup {v} ELSE made
  /\ UNCHANGED <<linked, link, cont, tracked, cleanup, gc, crashes, history>>

\* Mutant: the volume that could not be created is left out.
ToCleanUpCreated == volumes \cap Extras \cap made

ToCleanUp == volumes \cap Extras

\* cleanUpOnError destroys the extra volumes, newContainer then the root one.
cleanUpOnError ==
  /\ \/ /\ Goto("cleanUpOnError", "cleanUpOnError") /\ ToCleanUp # {}
        /\ Destroy(Min(ToCleanUp)) /\ volumes' = volumes \ {Min(ToCleanUp)}
     \/ /\ Goto("cleanUpOnError", "destroyRoot") /\ ToCleanUp = {}
        /\ UNCHANGED <<volumes, link, made, storage, fault>>
  /\ UNCHANGED <<linked, storagepath, cont, tracked, cleanup, gc, crashes, refused>>

\* The root volume of a container that was not created.
DestroyRoot ==
  /\ Goto("destroyRoot", "failed")
  /\ Destroy(root)
  /\ UNCHANGED <<volumes, linked, storagepath, cont, tracked, cleanup, gc, crashes, refused>>

\* portoConn.Create of CreateContainer.
Create ==
  /\ volumes = Volumes
  /\ \/ Goto("extra", "link") /\ cont' = "stopped" /\ UNCHANGED refused
     \/ Goto("extra", "destroyRoot") /\ refused' = TRUE /\ UNCHANGED cont
  /\ UNCHANGED <<volumes, linked, storagepath, made, link, storage, tracked, cleanup, gc, crashes, fault>>

\* LinkVolume needs the container.
LinkVolume == cont # "absent"

\* The volumes are linked one by one, the root first; the unlinking from the
\* root container may fail.  Spawn then tracks the container.
Link ==
  LET v == Cardinality(linked) IN
  /\ Goto("link", IF v = N THEN "start" ELSE "link") /\ LinkVolume
  /\ linked' = linked \cup {v}
  /\ link' = link \cup {v}
  /\ made' \in {made, made \ {v}}
  /\ tracked' = (v = N)
  /\ UNCHANGED <<volumes, storagepath, storage, cont, cleanup, gc, crashes, history>>

\* A property, the address or a link is refused, or the collection has taken
\* the container: CreateContainer destroys it, newContainer the root volume.
CreateContainerFails ==
  /\ Goto("link", "destroyRoot")
  /\ refused' = TRUE
  /\ \/ DestroyContainer /\ UNCHANGED fault
     \/ fault' = TRUE /\ UNCHANGED <<cont, link>>
  /\ UNCHANGED <<volumes, linked, storagepath, made, storage, tracked, cleanup, gc, crashes>>

Start ==
  /\ \/ Goto("start", "returned") /\ cont = "stopped" /\ cont' = "running" /\ UNCHANGED cleanup
     \/ Goto("start", "failed") /\ cleanup' = [cleanup EXCEPT !["spawn"] = CleanupAll] /\ UNCHANGED cont
  /\ UNCHANGED <<volumes, linked, storagepath, made, link, storage, tracked, gc, crashes, history>>

(***************************************************************************)
(* Kill and Cleanup.                                                       *)
(***************************************************************************)

\* Kill by the client: when portod cannot be reached nothing is cleaned up.
ClientKill ==
  /\ Goto("returned", "killed")
  /\ \/ /\ cleanup' = [cleanup EXCEPT !["client"] = CleanupAll]
        /\ cont' \in {cont, IF cont = "running" THEN "dead" ELSE cont}
        /\ UNCHANGED fault
     \/ fault' = TRUE /\ UNCHANGED <<cleanup, cont>>
  /\ UNCHANGED <<volumes, linked, storagepath, made, link, storage, tracked, gc, crashes, refused>>

\* waitLoop finds a tracked container dead or gone.
WaitKill ==
  /\ gc = "loop" /\ tracked /\ cont \in {"dead", "absent"}
  /\ tracked' = FALSE
  /\ \/ cleanup' = [cleanup EXCEPT !["wait"] = CleanupAll] /\ UNCHANGED fault
     \/ fault' = TRUE /\ UNCHANGED cleanup
  /\ UNCHANGED <<pc, volumes, linked, storagepath, made, link, storage, cont, gc, crashes, refused>>

\* One step of Cleanup.
Cleanup(a) ==
  /\ Up /\ cleanup[a] # {}
  /\ LET x == Min(cleanup[a]) IN
       /\ cleanup' = [cleanup EXCEPT ![a] = @ \ {x}]
       /\ \/ x # container /\ Destroy(x) /\ UNCHANGED cont
          \/ x = container /\ DestroyContainer /\ UNCHANGED <<made, storage, fault>>
          \/ x = container /\ fault' = TRUE /\ UNCHANGED <<made, link, cont, storage>>
  /\ UNCHANGED <<pc, volumes, linked, storagepath, tracked, gc, crashes, refused>>

(***************************************************************************)
(* The collection at a start, the worker, and the daemon.                  *)
(***************************************************************************)

\* waitLoop looks at the container; one it does not see, by an error of List or
\* GetProperty, is left alone, and an error of UsedAllocations ends waitLoop.
GcContainers ==
  /\ gc = "containers"
  /\ \/ gc' = "destroy" /\ cont \in {"dead", "stopped"} /\ UNCHANGED fault
     \/ gc' = "volumes" /\ fault' = (fault \/ cont \in {"dead", "stopped"})
     \/ gc' = "exit" /\ fault' = TRUE
  /\ UNCHANGED <<memory, portod, storage, crashes, refused>>

\* A dead or stopped container is destroyed; it may have been started since.
GcDestroy ==
  /\ gc = "destroy" /\ gc' = "volumes"
  /\ \/ DestroyContainer /\ UNCHANGED fault
     \/ fault' = TRUE /\ UNCHANGED <<cont, link>>
  /\ UNCHANGED <<memory, made, storage, crashes, refused>>

\* Mutant: the label is looked for under the name it was given.
GcMatchesLabel == {root}

\* The volumes with a property "Private" that is CocaineAppVolumeLabel: a
\* property comes back under the name it was created with, and that one is
\* "private".  Assumed is a label that is not empty, as the default is: with an
\* empty one the property no volume has is equal to it, and all volumes match.
GcMatches == {}

\* waitLoop then unlinks those volumes from "***", every container.
GcVolumes ==
  /\ gc = "volumes" /\ gc' = "loop"
  /\ made' = made \ GcMatches
  /\ link' = link \ GcMatches
  /\ UNCHANGED <<memory, cont, storage, crashes, history>>

WorkerExits ==
  /\ cont = "running" /\ cont' = "dead"
  /\ UNCHANGED <<memory, made, link, storage, gc, crashes, history>>

\* That the container was killed is kept, as a history.
Crash ==
  /\ Up /\ crashes < MaxCrashes
  /\ gc' = "down" /\ crashes' = crashes + 1
  /\ pc' = IF pc \in {"idle", "killed"} THEN pc ELSE "failed"
  /\ volumes' = {} /\ linked' = {} /\ storagepath' = {} /\ tracked' = FALSE
  /\ cleanup' = [a \in Callers |-> {}]
  /\ fault' = (fault \/ Existing # {} \/ storage # {} \/ cont # "absent")
  /\ UNCHANGED <<portod, storage, refused>>

Restart ==
  /\ gc = "down" /\ gc' = "containers"
  /\ UNCHANGED <<memory, portod, storage, crashes, history>>

Init ==
  /\ pc = "idle" /\ volumes = {} /\ linked = {} /\ storagepath = {} /\ tracked = FALSE
  /\ cleanup = [a \in Callers |-> {}]
  /\ made = {} /\ link = {} /\ cont = "absent" /\ storage = {}
  /\ gc = "down" /\ crashes = 0 /\ fault = FALSE /\ refused = FALSE

newContainer ==
  \/ CreateExtraVolume \/ cleanUpOnError \/ DestroyRoot
  \/ Create \/ Link \/ CreateContainerFails \/ Start
Gc == GcContainers \/ GcDestroy \/ GcVolumes

Next ==
  \/ CreateRootVolume \/ newContainer \/ ClientKill \/ WaitKill \/ Gc
  \/ WorkerExits \/ Crash \/ Restart
  \/ \E a \in Callers : Cleanup(a)

\* Every goroutine of the daemon goes on while it can; nothing obliges a client
\* to spawn or to kill, a worker to end, or the daemon to crash.
Fairness ==
  /\ WF_vars(newContainer) /\ WF_vars(WaitKill) /\ WF_vars(Gc) /\ WF_vars(Restart)
  /\ \A a \in Callers : WF_vars(Cleanup(a))

Spec == Init /\ [][Next]_vars /\ Fairness

(***************************************************************************)
(* Properties.                                                             *)
(***************************************************************************)

\* The types; a container that is gone has no links (portod).
TypeOK ==
  /\ pc \in {"idle", "extra", "cleanUpOnError", "destroyRoot", "link", "start", "returned",
             "killed", "failed"}
  /\ volumes \subseteq Volumes /\ linked \subseteq Volumes /\ storagepath \subseteq Extras
  /\ made \subseteq Volumes /\ link \subseteq Volumes /\ storage \subseteq Extras
  /\ cont \in {"absent", "stopped", "running", "dead"}
  /\ cont = "absent" => link = {}
  /\ tracked \in BOOLEAN /\ cleanup \in [Callers -> SUBSET CleanupAll]
  /\ gc \in {"down", "containers", "destroy", "volumes", "loop", "exit"} /\ crashes \in 0..MaxCrashes
  /\ fault \in BOOLEAN /\ refused \in BOOLEAN

\* A worker keeps its volumes until it is killed: all of them are linked to a
\* container that runs, whatever the collections of later starts of the daemon
\* destroy and unlink.
RunningKeepsVolumes == cont = "running" /\ pc # "killed" => link = Volumes

Over == pc \in {"failed", "killed"} /\ cont = "absent" /\ ~Cleaning

\* A Spawn that is over has left no volume and no storage directory behind,
\* unless an error stopped a cleanup, or CreateContainer failed: newContainer
\* then destroys the root volume, and nobody the others.
LeakExplained ==
  Over /\ ~fault =>
    IF refused THEN root \notin Existing ELSE Existing = {} /\ storage = {}

\* A worker that ends by itself is cleaned up by waitLoop, volumes included,
\* unless portod, the database or the file system refuses or the daemon crashes.
ExitCleaned ==
  cont = "dead" ~> fault \/ (cont = "absent" /\ Existing = {} /\ storage = {})

\* Violated.  "Now try clean unused volumes" (src/isolate/porto/box.go): when
\* the collection is over, no root volume of an earlier run of the daemon is
\* left without a container.
VolumesCollected ==
  gc = "loop" /\ crashes > 0 /\ pc = "failed" /\ cont = "absent" => root \notin Existing
===============================================================================
