------------------------------- MODULE PortoMtn -------------------------------
(***************************************************************************)
(* The addresses of the multi-tenant network (isolate/mtn.go) and the      *)
(* containers of the Porto box that use them (isolate/porto/container.go,  *)
(* container_config.go and the garbage collection of waitLoop in box.go),  *)
(* over crashes and restarts of the daemon.                                *)
(*                                                                         *)
(* The pool is a bbolt database: every operation on it is one write        *)
(* transaction, and bbolt runs write transactions one at a time, so each   *)
(* is one action.  The database, the containers of portod and the          *)
(* allocations the allocator service has granted outlive the daemon; the   *)
(* goroutines, the map of tracked containers and the mtnAllocCleaned flags *)
(* do not.  One network id, one Porto box.                                 *)
(***************************************************************************)
EXTENDS Naturals, FiniteSets, FiniteSetsExt

CONSTANTS
  Containers,   \* the container ids, each spawned at most once
  Ids,          \* bound: the allocations the allocator can grant
  Allocbuffer,  \* Cfg.Allocbuffer
  MaxCrashes,   \* bound: the crashes of the daemon
  None

ASSUME BufferAssumption == Allocbuffer \in Nat \ {0} /\ IsFiniteSet(Ids) /\ None \notin Ids \cup Containers
ASSUME BoundAssumption == MaxCrashes \in Nat

Actors == {"spawn", "client", "wait"}   \* the callers of Cleanup

VARIABLES
  granted,     \* the allocations the allocator has granted to this scheduler
  bucket,      \* the bucket of the network exists
  db,          \* the entries of the bucket
  backup,      \* the file corruptedBackupPath exists
  porto,       \* the containers portod knows, and their state
  alloc,       \* the allocation of a container
  spawn,       \* where the Spawn of a container is
  containers,  \* Box.containers
  cleaned,     \* container.mtnAllocCleaned
  step,        \* where each caller of Cleanup is
  gc,          \* where waitLoop is
  listed,      \* waitLoop: the names still to be looked at
  doomed,      \* waitLoop: the container it has decided to destroy
  suspects,    \* waitLoop: the used allocations not matched with a container
  crashes,
  misfreed,    \* history: the containers whose allocation was freed under them
  spawned      \* history: the daemon has spawned or failed to ask portod or
               \* the database since its restart

disk == <<granted, bucket, db, backup>>
cleaning == <<cleaned, step>>
waiting == <<gc, listed, doomed, suspects>>
vars == <<disk, porto, alloc, spawn, containers, cleaning, waiting, crashes,
          misfreed, spawned>>

Up == gc # "down"
Free == {id \in Ids : db[id] = "free"}
Used == {id \in Ids : db[id] = "used"}

\* A container whose network is configured or about to be, with its address.
Spawning(c) == spawn[c] \in {"props", "start"}
Holding(c) ==
  /\ alloc[c] # None
  /\ \/ porto[c] = "running"
     \/ porto[c] = "stopped" /\ Spawning(c)

(***************************************************************************)
(* The pool.                                                               *)
(***************************************************************************)

\* RequestAllocs: what the allocator grants when every request is answered,
\* and when one of them is not.  The allocator never grants an id twice.
RequestAllocs == kSubset(Allocbuffer, Ids \ granted)
PartOfAllocs == UNION {kSubset(n, Ids \ granted) : n \in 0..(Allocbuffer - 1)}

\* The entries Put by BindAllocs and by GetDbAlloc, all free but one.
PutAllocs(S, taken) ==
  db' = [id \in Ids |-> IF id \in taken THEN "used" ELSE IF id \in S THEN "free" ELSE db[id]]

\* Mutant: the `used` flag is not looked at.
DbAllocIsFreeAlways(id) == db[id] # "absent"
DbAllocIsFree(id) == db[id] = "free"

\* GetDbAlloc: the free entry with the smallest key, which may be any since
\* the allocator chooses the keys, or when none is free one of those it is then
\* asked for.
GetDbAlloc(id) ==
  /\ bucket
  /\ LET free == {i \in Ids : DbAllocIsFree(i)} IN
       IF free # {}
       THEN id \in free /\ PutAllocs({}, {id}) /\ UNCHANGED granted
       ELSE \E S \in RequestAllocs : /\ id \in S
                                     /\ granted' = granted \cup S
                                     /\ PutAllocs(S, {id})
  /\ UNCHANGED <<bucket, backup>>

\* FreeDbAlloc: the entry must exist.
FreeDbAlloc(id) ==
  /\ db' = IF db[id] = "absent" THEN db ELSE [db EXCEPT ![id] = "free"]
  /\ UNCHANGED <<granted, bucket, backup>>

UnuseAlloc(id) ==
  /\ FreeDbAlloc(id)
  /\ misfreed' = misfreed \cup {c \in Containers : Holding(c) /\ alloc[c] = id}

\* Spool with the network enabled: the pool is topped up when the free entries
\* are fewer than the buffer.
BindAllocs ==
  /\ Up
  /\ IF Allocbuffer > Cardinality(Free)
     THEN \E S \in RequestAllocs : granted' = granted \cup S /\ PutAllocs(S, {})
     ELSE UNCHANGED <<granted, db>>
  /\ bucket' = TRUE
  /\ UNCHANGED <<backup, porto, alloc, spawn, containers, cleaning, waiting, crashes, misfreed, spawned>>

\* An answer of the allocator cannot be decoded: the transaction is rolled
\* back, and what was granted before is known to the allocator alone.
BindAllocsFails ==
  /\ Up /\ Allocbuffer > Cardinality(Free)
  /\ \E S \in PartOfAllocs : granted' = granted \cup S
  /\ UNCHANGED <<bucket, db, backup, porto, alloc, spawn, containers, cleaning, waiting, crashes,
                 misfreed, spawned>>

(***************************************************************************)
(* Spawn of a container.                                                   *)
(***************************************************************************)

Spawn(c, at) == spawn[c] = at /\ Up

\* newContainer up to the portoConn.Create of CreateContainer.
Create(c) ==
  /\ Spawn(c, "idle")
  /\ \/ porto' = [porto EXCEPT ![c] = "stopped"] /\ spawn' = [spawn EXCEPT ![c] = "create"]
     \/ UNCHANGED porto /\ spawn' = [spawn EXCEPT ![c] = "failed"]
  /\ spawned' = TRUE
  /\ UNCHANGED <<disk, alloc, containers, cleaning, waiting, crashes, misfreed>>

\* The deferred Destroy of CreateContainer on an error.
CreateContainerFails(c) ==
  /\ porto' \in {porto, [porto EXCEPT ![c] = "absent"]}
  /\ spawn' = [spawn EXCEPT ![c] = "failed"]

\* UseAlloc of CreateContainer.
UseAlloc(c) ==
  /\ Spawn(c, "create")
  /\ \E id \in Ids : GetDbAlloc(id) /\ alloc' = [alloc EXCEPT ![c] = id]
  /\ spawn' = [spawn EXCEPT ![c] = "props"]
  /\ UNCHANGED <<porto, containers, cleaning, waiting, crashes, misfreed, spawned>>

\* A profile that does not enable the network.
NoMtn(c) ==
  /\ Spawn(c, "create")
  /\ spawn' = [spawn EXCEPT ![c] = "props"]
  /\ UNCHANGED <<disk, porto, alloc, containers, cleaning, waiting, crashes, misfreed, spawned>>

\* UseAlloc returns an error: there is no bucket, the transaction or an answer
\* of the allocator fails.
UseAllocFails(c) ==
  /\ Spawn(c, "create")
  /\ \E S \in IF bucket /\ Free = {} THEN PartOfAllocs ELSE {{}} : granted' = granted \cup S
  /\ CreateContainerFails(c)
  /\ UNCHANGED <<bucket, db, backup, alloc, containers, cleaning, waiting, crashes, misfreed, spawned>>

\* The properties and the volumes of the container; Spawn then tracks it.
SetProperties(c) ==
  /\ Spawn(c, "props") /\ porto[c] = "stopped"
  /\ spawn' = [spawn EXCEPT ![c] = "start"]
  /\ containers' = containers \cup {c}
  /\ cleaned' = [cleaned EXCEPT ![c] = alloc[c] = None]
  /\ UNCHANGED <<disk, porto, alloc, step, waiting, crashes, misfreed, spawned>>

\* A property or a volume is refused, or the container is gone: nothing gives
\* the allocation back.
SetPropertiesFails(c) ==
  /\ Spawn(c, "props")
  /\ CreateContainerFails(c)
  /\ UNCHANGED <<disk, alloc, containers, cleaning, waiting, crashes, misfreed, spawned>>

Start(c) ==
  /\ Spawn(c, "start") /\ porto[c] = "stopped"
  /\ porto' = [porto EXCEPT ![c] = "running"]
  /\ spawn' = [spawn EXCEPT ![c] = "returned"]
  /\ UNCHANGED <<disk, alloc, containers, cleaning, waiting, crashes, misfreed, spawned>>

\* The container cannot be started: Spawn cleans it up and leaves it tracked.
StartFails(c) ==
  /\ Spawn(c, "start")
  /\ spawn' = [spawn EXCEPT ![c] = "failed"]
  /\ step' = [step EXCEPT !["spawn"][c] = "check"]
  /\ UNCHANGED <<disk, porto, alloc, containers, cleaned, waiting, crashes, misfreed,
                 spawned>>

(***************************************************************************)
(* Kill and Cleanup.                                                       *)
(***************************************************************************)

\* portod kills the worker of the container, or refuses to.
PortoKill(c) ==
  porto' \in {porto, IF porto[c] = "running" THEN [porto EXCEPT ![c] = "dead"] ELSE porto}

\* Kill by the dispatcher of the client: no cleanup when portod is unreachable.
ClientKill(c) ==
  /\ Up /\ spawn[c] = "returned" /\ step["client"][c] = "idle"
  /\ \/ UNCHANGED porto /\ step' = [step EXCEPT !["client"][c] = "done"]
     \/ PortoKill(c) /\ step' = [step EXCEPT !["client"][c] = "check"]
  /\ UNCHANGED <<disk, alloc, spawn, containers, cleaned, waiting, crashes, misfreed,
                 spawned>>

\* An iteration of waitLoop: a tracked container that is dead or unknown to
\* portod is no longer tracked and is killed.
WaitKill(c) ==
  /\ gc = "loop" /\ c \in containers /\ porto[c] \in {"dead", "absent"}
  /\ \A d \in Containers : step["wait"][d] = "idle"
  /\ containers' = containers \ {c}
  /\ step' \in {[step EXCEPT !["wait"][c] = s] : s \in {"check", "idle"}}
  /\ UNCHANGED <<disk, porto, alloc, spawn, cleaned, waiting, crashes, misfreed, spawned>>

Cleanup(a, c, at, next) ==
  /\ Up /\ step[a][c] = at
  /\ step' = [step EXCEPT ![a][c] = next]
  /\ UNCHANGED <<alloc, spawn, containers, waiting, crashes>>

AfterCheck(c) == IF alloc[c] # None /\ ~cleaned[c] THEN "unuse" ELSE "destroy"

CleanupCheck(a, c) ==
  /\ Cleanup(a, c, "check", AfterCheck(c))
  /\ UNCHANGED <<disk, porto, cleaned, misfreed, spawned>>

\* An error of the database is only logged.
CleanupUnuse(a, c) ==
  /\ Cleanup(a, c, "unuse", "mark")
  /\ \/ UnuseAlloc(alloc[c])
     \/ UNCHANGED <<disk, misfreed>>
  /\ UNCHANGED <<porto, cleaned, spawned>>

CleanupMark(a, c) ==
  /\ Cleanup(a, c, "mark", "destroy")
  /\ cleaned' = [cleaned EXCEPT ![c] = TRUE]
  /\ UNCHANGED <<disk, porto, misfreed, spawned>>

\* The dispatcher of the client kills once.
CleanupDestroy(a, c) ==
  /\ Cleanup(a, c, "destroy", IF a = "client" THEN "done" ELSE "idle")
  /\ porto' \in {porto, [porto EXCEPT ![c] = "absent"]}
  /\ UNCHANGED <<disk, cleaned, misfreed, spawned>>

(***************************************************************************)
(* The garbage collection at the start of waitLoop.                        *)
(***************************************************************************)

Gc(at, next) ==
  /\ gc = at /\ gc' = next
  /\ UNCHANGED <<alloc, spawn, containers, cleaning, crashes>>

\* The names are listed first; an error leaves no name.
GcList ==
  /\ Gc("list", "used")
  /\ \/ listed' = {c \in Containers : porto[c] # "absent"} /\ UNCHANGED spawned
     \/ listed' = {} /\ spawned' = TRUE
  /\ UNCHANGED <<disk, porto, doomed, suspects, misfreed>>

\* Mutant: the test of `used` is inverted.
UsedAllocationsFree == Free
UsedAllocations == Used

\* When UsedAllocations fails waitLoop is over.
GcUsed ==
  /\ \/ Gc("used", "scan") /\ suspects' = UsedAllocations /\ UNCHANGED listed
     \/ Gc("used", "exit") /\ listed' = {} /\ UNCHANGED suspects
  /\ UNCHANGED <<disk, porto, doomed, spawned, misfreed>>

\* The state of one listed container: a dead or stopped one is to be
\* destroyed, the address of a running one is in use.  Errors are ignored.
GcScan(c) ==
  /\ Gc("scan", "scan") /\ doomed = None /\ c \in listed
  /\ listed' = listed \ {c}
  /\ \/ /\ porto[c] \in {"dead", "stopped"} /\ doomed' = c
        /\ UNCHANGED <<suspects, spawned>>
     \/ /\ porto[c] = "running" /\ suspects' = suspects \ {alloc[c]}
        /\ UNCHANGED <<doomed, spawned>>
     \/ /\ spawned' = (spawned \/ porto[c] # "absent")
        /\ UNCHANGED <<doomed, suspects>>
  /\ UNCHANGED <<disk, porto, misfreed>>

\* It may have been started in the meantime.
GcDestroy ==
  /\ Gc("scan", "scan") /\ doomed # None /\ doomed' = None
  /\ \/ porto' = [porto EXCEPT ![doomed] = "absent"] /\ UNCHANGED spawned
     \/ UNCHANGED porto /\ spawned' = TRUE
  /\ UNCHANGED <<disk, listed, suspects, misfreed>>

GcFree(id) ==
  /\ listed = {} /\ doomed = None /\ id \in suspects
  /\ Gc("scan", "scan")
  /\ suspects' = suspects \ {id}
  /\ \/ UnuseAlloc(id) /\ UNCHANGED spawned
     \/ UNCHANGED <<disk, misfreed>> /\ spawned' = TRUE
  /\ UNCHANGED <<porto, listed, doomed>>

GcDone ==
  /\ listed = {} /\ doomed = None /\ suspects = {}
  /\ Gc("scan", "loop")
  /\ UNCHANGED <<disk, porto, listed, doomed, suspects, misfreed, spawned>>

(***************************************************************************)
(* The world around: workers end, the daemon crashes and restarts.         *)
(***************************************************************************)

WorkerExits(c) ==
  /\ porto[c] = "running"
  /\ porto' = [porto EXCEPT ![c] = "dead"]
  /\ UNCHANGED <<disk, alloc, spawn, containers, cleaning, waiting, crashes, misfreed, spawned>>

\* The daemon ends, by itself or by the nil response that RequestAllocs reads
\* when the allocator is not reached: BindAllocsFails or UseAllocFails, and
\* then this action.  The address that a container has is a property portod
\* keeps.
Crash ==
  /\ Up /\ crashes < MaxCrashes
  /\ spawn' = [c \in Containers |-> IF spawn[c] = "idle" THEN "idle" ELSE "failed"]
  /\ containers' = {} /\ listed' = {} /\ doomed' = None /\ suspects' = {}
  /\ cleaned' = [c \in Containers |-> TRUE]
  /\ step' = [a \in Actors |-> [c \in Containers |-> "idle"]]
  /\ alloc' = [c \in Containers |-> IF porto[c] = "absent" THEN None ELSE alloc[c]]
  /\ gc' = "down" /\ spawned' = FALSE
  /\ crashes' = crashes + 1
  /\ UNCHANGED <<disk, porto, misfreed>>

\* Mutant: known entries are overwritten too.
PoolInitOverwrites(known, d) ==
  /\ bucket' = (known \/ granted # {})
  /\ db' = [id \in Ids |-> IF id \in granted THEN "free" ELSE d[id]]
\* PoolInit: the allocations of the allocator that are not in the database
\* are put there, free.
PoolInit(known, d) ==
  /\ bucket' = (known \/ granted # {})
  /\ db' = [id \in Ids |-> IF id \in granted /\ d[id] = "absent" THEN "free" ELSE d[id]]

\* daemon.New after CfgInit has opened a database with the entries d; with the
\* local state when the allocator's cannot be had.
New(known, d) ==
  /\ PoolInit(known, d) \/ (bucket' = known /\ db' = d)
  /\ gc' = "list"
  /\ UNCHANGED <<granted, porto, alloc, spawn, containers, cleaning, listed, doomed, suspects,
                 crashes, spawned>>

\* CfgInit opens the database.
Restart ==
  /\ gc = "down"
  /\ New(bucket, db)
  /\ UNCHANGED <<backup, misfreed>>

NoEntries == [id \in Ids |-> "absent"]

\* Mutant: the backup of an earlier database is overwritten.
MayRecreateAlways == TRUE

\* CfgInit: a database that cannot be opened is put aside once.
MayRecreate == ~backup

\* bolt.Open fails on the database of an earlier run: SaveRename puts the file
\* aside and an empty database takes its place, so PoolInit takes every address
\* for free, or the second open fails and so does the start.  The backup is
\* empty too: SaveRename copies it over the database, not the other way round.
Recreate ==
  /\ gc = "down" /\ crashes > 0 /\ MayRecreate
  /\ backup' = TRUE
  /\ misfreed' = misfreed \cup {c \in Containers : Holding(c)}
  /\ \/ New(FALSE, NoEntries)
     \/ /\ bucket' = FALSE /\ db' = NoEntries
        /\ UNCHANGED <<granted, porto, alloc, spawn, containers, cleaning, waiting, crashes, spawned>>

\* SaveRename created the backup and could not go on: the start fails, and so
\* does every later one until the database can be opened again.
SaveRenameFails ==
  /\ gc = "down" /\ crashes > 0 /\ MayRecreate
  /\ backup' = TRUE
  /\ UNCHANGED <<granted, bucket, db, porto, alloc, spawn, containers, cleaning, waiting, crashes,
                 misfreed, spawned>>

Init ==
  /\ granted = {} /\ bucket = FALSE /\ db = NoEntries /\ backup = FALSE
  /\ porto = [c \in Containers |-> "absent"] /\ alloc = [c \in Containers |-> None]
  /\ spawn = [c \in Containers |-> "idle"] /\ containers = {}
  /\ cleaned = [c \in Containers |-> TRUE]
  /\ step = [a \in Actors |-> [c \in Containers |-> "idle"]]
  /\ gc = "down" /\ listed = {} /\ doomed = None /\ suspects = {}
  /\ crashes = 0 /\ misfreed = {} /\ spawned = FALSE

Pool == BindAllocs \/ BindAllocsFails
SpawnStep(c) ==
  \/ Create(c) \/ UseAlloc(c) \/ NoMtn(c) \/ UseAllocFails(c)
  \/ SetProperties(c) \/ SetPropertiesFails(c) \/ Start(c) \/ StartFails(c)
CleanupStep(a, c) ==
  CleanupCheck(a, c) \/ CleanupUnuse(a, c) \/ CleanupMark(a, c) \/ CleanupDestroy(a, c)
Collect ==
  \/ GcList \/ GcUsed \/ GcDestroy \/ GcDone
  \/ \E c \in Containers : GcScan(c)
  \/ \E id \in Ids : GcFree(id)

Next ==
  \/ Pool \/ Collect \/ Crash \/ Restart \/ Recreate \/ SaveRenameFails
  \/ \E c \in Containers : SpawnStep(c) \/ ClientKill(c) \/ WaitKill(c) \/ WorkerExits(c)
  \/ \E a \in Actors, c \in Containers : CleanupStep(a, c)

Spec == Init /\ [][Next]_vars

(***************************************************************************)
(* Properties.                                                             *)
(***************************************************************************)

\* The types, and what ties the entries to the allocator: only what it granted
\* is ever in the database (PoolInit, BindAllocs, GetDbAlloc).
TypeOK ==
  /\ granted \subseteq Ids /\ bucket \in BOOLEAN /\ backup \in BOOLEAN
  /\ db \in [Ids -> {"absent", "free", "used"}]
  /\ \A id \in Ids : db[id] # "absent" => id \in granted /\ bucket
  /\ porto \in [Containers -> {"absent", "stopped", "running", "dead"}]
  /\ alloc \in [Containers -> Ids \cup {None}]
  /\ spawn \in [Containers -> {"idle", "create", "props", "start", "returned", "failed"}]
  /\ containers \subseteq Containers /\ cleaned \in [Containers -> BOOLEAN]
  /\ step \in [Actors -> [Containers ->
                 {"idle", "check", "unuse", "mark", "destroy", "done"}]]
  /\ gc \in {"down", "list", "used", "scan", "loop", "exit"}
  /\ listed \subseteq Containers /\ suspects \subseteq Ids /\ doomed \in Containers \cup {None}
  /\ crashes \in 0..MaxCrashes /\ misfreed \subseteq Containers /\ spawned \in BOOLEAN

\* Two containers that run, or are about to, have different addresses, unless
\* the address was given back under one of them: the pool hands
\* an entry out once, across top-ups, requests made inside UseAlloc, crashes in
\* the middle of a transaction and PoolInit at restart.
PoolExclusive ==
  \A c, d \in Containers :
    c # d /\ Holding(c) /\ Holding(d) /\ alloc[c] = alloc[d] => {c, d} \cap misfreed # {}

\* The entry of an address that a container holds stays marked used, also over
\* a restart that loads the pool from the allocator again (PoolInit).
HeldIsUsed ==
  \A c \in Containers : Holding(c) /\ c \notin misfreed => db[alloc[c]] = "used"

\* After a collection in which portod and the database answered and no Spawn
\* took part, no entry is used but for a container portod still has: what an
\* earlier run leaked (a failed CreateContainer, a Kill that did not reach
\* portod, a crash) is given back.
CollectionComplete ==
  gc = "loop" /\ ~spawned => \A id \in Used : \E c \in Containers : alloc[c] = id /\ porto[c] # "absent"

\* The database is put aside at most once: after that its entries, and with
\* them the knowledge of which addresses the running containers have, outlive
\* every restart, and a database that cannot be opened stops the daemon
\* instead ("Corrupted DB backup file exist, nothing to do there").
RecreatedOnce ==
  [][backup => \A id \in Ids : db[id] # "absent" => db'[id] # "absent"]_vars

\* Violated.  The allocation of a container is given back at most once:
\* changelog 0.2.1.2, "mtn: add check for prevent call UnuseAlloc() second
\* time".  No caller of Cleanup is about to call UnuseAlloc for a container
\* when another is too, or has called it.
UnusedOnce ==
  \A a, b \in Actors, c \in Containers :
    a # b /\ step[a][c] = "unuse" => step[b][c] \notin {"unuse", "mark"}
===============================================================================
