------------------------------- MODULE DockerBox -------------------------------
(***************************************************************************)
(* The Docker box (isolate/docker/box.go and container.go): Spawn behind   *)
(* the queue counter and the semaphore, Kill, and watchEvents, which reads *)
(* the "die" events of the Docker daemon and removes what has died.  The   *)
(* Docker daemon outlives crashes of the box.                              *)
(*                                                                         *)
(* A request made with a context that is done returns the context's error; *)
(* the Docker daemon may still have received it.  Every request of a       *)
(* process uses a context derived from the context of its Spawn.           *)
(***************************************************************************)
EXTENDS Naturals, Sequences, FiniteSets

CONSTANTS
  Spawns,      \* the Spawn calls, each for a container of its own
  QueueMax,    \* the bound of the queue, 10 in the code
  SmSize,      \* SpawnConcurrency
  MaxDrops,    \* bound: how often the event stream breaks
  MaxCrashes,  \* bound: the crashes of the box
  None

ASSUME SizeAssumption == QueueMax \in Nat /\ SmSize \in Nat \ {0} /\ IsFiniteSet(Spawns)
ASSUME BoundAssumption == MaxDrops \in Nat /\ MaxCrashes \in Nat
ASSUME NoneAssumption == None \notin [id : Spawns, ok : BOOLEAN]

VARIABLES
  queue,       \* spawningQueueSize
  spawn,       \* where a Spawn is
  ctxDone,     \* the processes whose context is done
  tracked,     \* Box.containers
  removed,     \* process.removed
  killer,      \* where the Kill of a process is
  docker,      \* the containers of the Docker daemon
  log,         \* the die events since the box started
  cursor,      \* the events received on the stream, 0 when none was
  stream,      \* the event stream is open
  watch,       \* watchEvents: the event being handled, with what the map said
  drops, crashes,
  refused,     \* history: Docker failed a request about it, or a crash hid its death
  aborted      \* history: a request about it was made with a context that is done

gate == <<queue, spawn>>
watcher == <<cursor, stream, watch, drops>>
vars == <<gate, ctxDone, tracked, removed, killer, docker, log, watcher, crashes, refused, aborted>>

Queued == {s \in Spawns : spawn[s] \in {"inc", "refused", "acquire", "acquired", "gaveUp"}}
Spawning == {s \in Spawns : spawn[s] \in {"acquired", "create", "start"}}

Goto(s, at, next) == spawn[s] = at /\ spawn' = [spawn EXCEPT ![s] = next]

\* A request about s: answered by Docker, refused, or given up because the
\* context is done.
Answered(s) == s \notin ctxDone /\ UNCHANGED <<refused, aborted>>
Fails(s) == IF s \in ctxDone
            THEN aborted' = aborted \cup {s} /\ UNCHANGED refused
            ELSE refused' = refused \cup {s} /\ UNCHANGED aborted

\* The containers after the request failed: the change may have been made
\* when it was given up.
PerhapsChanged(s, new) ==
  docker' \in {docker, IF s \in ctxDone THEN [docker EXCEPT ![s] = new] ELSE docker}

(***************************************************************************)
(* Spawn.                                                                  *)
(***************************************************************************)

Inc(s) ==
  /\ Goto(s, "idle", "inc")
  /\ queue' = queue + 1
  /\ UNCHANGED <<ctxDone, tracked, removed, killer, docker, log, watcher, crashes, refused, aborted>>

\* Mutant: a refused Spawn does not leave the counter.
LeavesCount(n) == n
LeavesQueue(n) == n - 1

QueueFull == queue > QueueMax

\* A refused call still counts.
Check(s) ==
  /\ IF QueueFull THEN Goto(s, "inc", "refused") ELSE Goto(s, "inc", "acquire")
  /\ UNCHANGED <<queue, ctxDone, tracked, removed, killer, docker, log, watcher, crashes, refused, aborted>>

\* Dec and the return of EAGAIN.
ReturnEAGAIN(s) ==
  /\ Goto(s, "refused", "failed")
  /\ queue' = LeavesQueue(queue)
  /\ UNCHANGED <<ctxDone, tracked, removed, killer, docker, log, watcher, crashes, refused, aborted>>

\* Mutant: one more than the size of the semaphore.
SlotFreeOneMore == Cardinality(Spawning) <= SmSize
SlotFree == Cardinality(Spawning) < SmSize

\* Acquire takes a slot or returns because the context is done.
Acquire(s) ==
  /\ \/ SlotFree /\ Goto(s, "acquire", "acquired")
     \/ s \in ctxDone /\ Goto(s, "acquire", "gaveUp")
  /\ UNCHANGED <<queue, ctxDone, tracked, removed, killer, docker, log, watcher, crashes, refused, aborted>>

\* Dec in either case.
Dequeue(s) ==
  /\ Goto(s, "acquired", "create") \/ Goto(s, "gaveUp", "failed")
  /\ queue' = LeavesQueue(queue)
  /\ UNCHANGED <<ctxDone, tracked, removed, killer, docker, log, watcher, crashes, refused, aborted>>

\* Mutant: the process is not put into the map.
TrackNothing(s) == tracked
Track(s) == tracked \cup {s}

\* newContainer, and the process put into the map.
Create(s) ==
  /\ Answered(s) /\ Goto(s, "create", "start")
  /\ docker' = [docker EXCEPT ![s] = "created"]
  /\ tracked' = Track(s)
  /\ removed' = [removed EXCEPT ![s] = FALSE]
  /\ UNCHANGED <<queue, ctxDone, killer, log, watcher, crashes>>

CreateFails(s) ==
  /\ Goto(s, "create", "failed") /\ Fails(s) /\ PerhapsChanged(s, "created")
  /\ UNCHANGED <<queue, ctxDone, tracked, removed, killer, log, watcher, crashes>>

Start(s) ==
  /\ Answered(s) /\ Goto(s, "start", "returned")
  /\ docker' = [docker EXCEPT ![s] = "running"]
  /\ UNCHANGED <<queue, ctxDone, tracked, removed, killer, log, watcher, crashes>>

\* startContainer cancels the context of the process; nothing removes the
\* container or takes it out of the map.
StartFails(s) ==
  /\ Goto(s, "start", "failed") /\ Fails(s) /\ PerhapsChanged(s, "running")
  /\ ctxDone' = ctxDone \cup {s}
  /\ UNCHANGED <<queue, tracked, removed, killer, log, watcher, crashes>>

\* The client cancels the spawn, or its connection ends.
Cancel(s) ==
  /\ spawn[s] # "idle" /\ s \notin ctxDone
  /\ ctxDone' = ctxDone \cup {s}
  /\ UNCHANGED <<gate, tracked, removed, killer, docker, log, watcher, crashes, refused, aborted>>

(***************************************************************************)
(* Kill.                                                                   *)
(***************************************************************************)

Dies(s) == docker' = [docker EXCEPT ![s] = "dead"] /\ log' = Append(log, s)

\* ContainerKill; the container may have died before.
Kill(s) ==
  /\ spawn[s] = "returned" /\ killer[s] = "idle"
  /\ killer' = [killer EXCEPT ![s] = "remove"]
  /\ \/ docker[s] = "running" /\ Answered(s) /\ Dies(s)
     \/ docker[s] = "running" /\ Fails(s) /\ s \in ctxDone /\ Dies(s)
     \/ docker[s] = "running" /\ Fails(s) /\ UNCHANGED <<docker, log>>
     \/ docker[s] # "running" /\ UNCHANGED <<docker, log, refused, aborted>>
  /\ UNCHANGED <<gate, ctxDone, tracked, removed, watcher, crashes>>

\* ContainerRemove without force, with the given context: done, refused, or
\* given up with the context.
ContainerRemove(s, done) ==
  LET gone == IF docker[s] = "running" THEN docker ELSE [docker EXCEPT ![s] = "absent"] IN
    \/ ~done /\ docker' = gone /\ UNCHANGED <<refused, aborted>>
    \/ ~done /\ UNCHANGED <<docker, aborted>> /\ refused' = refused \cup {s}
    \/ done /\ docker' \in {docker, gone} /\ aborted' = aborted \cup {s} /\ UNCHANGED refused

\* process.remove: the swap lets one caller through.
remove(s) ==
  /\ removed' = [removed EXCEPT ![s] = TRUE]
  /\ IF removed[s]
     THEN UNCHANGED <<docker, refused, aborted>>
     ELSE ContainerRemove(s, s \in ctxDone)

\* The deferred remove and cancellation.
KillRemove(s) ==
  /\ killer[s] = "remove" /\ killer' = [killer EXCEPT ![s] = "done"]
  /\ remove(s)
  /\ ctxDone' = ctxDone \cup {s}
  /\ UNCHANGED <<gate, tracked, log, watcher, crashes>>

(***************************************************************************)
(* watchEvents.                                                            *)
(***************************************************************************)

\* Mutant: the events are asked for from now on.
ResumeLate == {Len(log)}
\* The events are asked for since the second of the last one received: it and
\* others of that second come again.
Resume == 0..cursor

Connect ==
  /\ ~stream /\ stream' = TRUE
  /\ cursor' \in Resume
  /\ UNCHANGED <<gate, ctxDone, tracked, removed, killer, docker, log, watch, drops, crashes, refused,
                 aborted>>

Disconnect ==
  /\ stream /\ watch = None /\ drops < MaxDrops
  /\ stream' = FALSE /\ drops' = drops + 1
  /\ UNCHANGED <<gate, ctxDone, tracked, removed, killer, docker, log, cursor, watch, crashes, refused,
                 aborted>>

ReadEvent ==
  /\ stream /\ watch = None /\ cursor < Len(log)
  /\ cursor' = cursor + 1
  /\ LET s == log[cursor + 1] IN
       /\ watch' = [id |-> s, ok |-> s \in tracked]
       /\ tracked' = tracked \ {s}
  /\ UNCHANGED <<gate, ctxDone, removed, killer, docker, log, stream, drops, crashes, refused, aborted>>

\* A container of the map is removed through its process, another one with the
\* context of the box.
HandleEvent ==
  /\ watch # None /\ watch' = None
  /\ IF watch.ok
     THEN remove(watch.id)
     ELSE ContainerRemove(watch.id, FALSE) /\ UNCHANGED removed
  /\ UNCHANGED <<gate, ctxDone, tracked, killer, log, cursor, stream, drops, crashes>>

(***************************************************************************)
(* The world around.                                                       *)
(***************************************************************************)

WorkerExits(s) ==
  /\ docker[s] = "running" /\ Dies(s)
  /\ UNCHANGED <<gate, ctxDone, tracked, removed, killer, watcher, crashes, refused, aborted>>

\* A crash and the next start, which asks for the events from now on; some
\* workers may die in between.
CrashRestart ==
  /\ crashes < MaxCrashes /\ crashes' = crashes + 1
  /\ queue' = 0
  /\ spawn' = [s \in Spawns |-> IF spawn[s] = "idle" THEN "idle" ELSE "failed"]
  /\ tracked' = {} /\ removed' = [s \in Spawns |-> FALSE]
  /\ killer' = [s \in Spawns |-> "idle"]
  /\ \E D \in SUBSET {s \in Spawns : docker[s] = "running"} :
       /\ docker' = [s \in Spawns |-> IF s \in D THEN "dead" ELSE docker[s]]
       /\ refused' = refused \cup D \cup {s \in Spawns : docker[s] = "dead"}
  /\ log' = <<>> /\ cursor' = 0 /\ stream' = FALSE /\ watch' = None
  /\ UNCHANGED <<ctxDone, drops, aborted>>

Init ==
  /\ queue = 0 /\ spawn = [s \in Spawns |-> "idle"] /\ ctxDone = {}
  /\ tracked = {} /\ removed = [s \in Spawns |-> FALSE]
  /\ killer = [s \in Spawns |-> "idle"]
  /\ docker = [s \in Spawns |-> "absent"] /\ log = <<>>
  /\ cursor = 0 /\ stream = FALSE /\ watch = None
  /\ drops = 0 /\ crashes = 0 /\ refused = {} /\ aborted = {}

SpawnStep(s) ==
  \/ Inc(s) \/ Check(s) \/ ReturnEAGAIN(s) \/ Acquire(s) \/ Dequeue(s)
  \/ Create(s) \/ CreateFails(s) \/ Start(s) \/ StartFails(s)
WatchEvents == Connect \/ ReadEvent \/ HandleEvent

Next ==
  \/ \E s \in Spawns : SpawnStep(s) \/ Cancel(s) \/ Kill(s) \/ KillRemove(s) \/ WorkerExits(s)
  \/ WatchEvents \/ Disconnect \/ CrashRestart

Spec == Init /\ [][Next]_vars

\* The watcher runs and the Docker daemon answers it in the end (it retries
\* with a backoff for ever); a Kill that began ends.
Fairness == WF_vars(WatchEvents) /\ \A s \in Spawns : WF_vars(KillRemove(s))

FairSpec == Spec /\ Fairness

(***************************************************************************)
(* Properties.                                                             *)
(***************************************************************************)

\* The types; watchEvents never believes to have read an event that was not sent.
TypeOK ==
  /\ queue \in Nat
  /\ spawn \in [Spawns -> {"idle", "inc", "refused", "acquire", "acquired", "gaveUp", "create", "start",
                           "returned", "failed"}]
  /\ ctxDone \subseteq Spawns /\ tracked \subseteq Spawns
  /\ removed \in [Spawns -> BOOLEAN]
  /\ killer \in [Spawns -> {"idle", "remove", "done"}]
  /\ docker \in [Spawns -> {"absent", "created", "running", "dead"}]
  /\ log \in Seq(Spawns) /\ cursor \in 0..Len(log) /\ stream \in BOOLEAN
  /\ watch \in [id : Spawns, ok : BOOLEAN] \cup {None}
  /\ drops \in 0..MaxDrops /\ crashes \in 0..MaxCrashes
  /\ refused \subseteq Spawns /\ aborted \subseteq Spawns

\* The counter that decides on EAGAIN is the number of Spawns between Inc and Dec,
\* and no more of them than the semaphore allows talk to Docker, whichever way
\* a Spawn leaves the queue: refused, cancelled, admitted or cut by a crash.
GateExact == queue = Cardinality(Queued) /\ Cardinality(Spawning) <= SmSize

\* Where with respect to the gate a Spawn is that is at l.
GateLabel(l) ==
  CASE l = "idle" -> "out"
    [] l = "inc" -> "asking"
    [] l \in {"refused", "gaveUp"} -> "leaving"
    [] l = "acquire" -> "waiting"
    [] l = "acquired" -> "entering"
    [] l \in {"create", "start"} -> "inside"
    [] OTHER -> "gone"

GatePlace == [s \in Spawns |-> GateLabel(spawn[s])]

Gate == INSTANCE SpawnGate WITH place <- GatePlace, lost <- 0

\* The counter and the semaphore make the gate of SpawnGate, and lose no place:
\* EAGAIN is the answer only while more than QueueMax Spawns are counted, those
\* included that have their answer or their slot and have yet to call Dec.
RefinesGate == Gate!Spec

\* A worker that has been handed out and runs is in the map, so that its death
\* is attributed to its process and not to an earlier run of the daemon.
RunningTracked ==
  \A s \in Spawns : spawn[s] = "returned" /\ docker[s] = "running" => s \in tracked

\* A container that has died is removed, whether its event comes before, during
\* or after its Kill, and however often the event stream breaks, unless Docker
\* or the context of the Spawn made a request fail.
DeadRemoved ==
  \A s \in Spawns : docker[s] = "dead" ~> docker[s] = "absent" \/ s \in refused \cup aborted

\* Violated.  Kill leaves no worker running when Docker does what it is asked:
\* the goroutine of onSpawn takes the way "Kill the process, set flagKilled"
\* with the very context that is done.
KilledIsDead ==
  \A s \in Spawns : killer[s] = "done" /\ s \notin refused => docker[s] # "running"
===============================================================================
