# A TLA+ model of stout

`stout` is the isolation daemon of the Cocaine cloud: a client opens a TCP
connection, asks it to *spool* an application and to *spawn* workers of it, and
the daemon runs the workers as processes, Docker containers or Porto containers.
This directory models the parts of the daemon where goroutines, signals,
external daemons and restarts meet. Paths are relative to `src/`.

## The system

| part | state | operations | what is hard about it |
|---|---|---|---|
| client connection, `isolate/conn_handler.go`, `*dispatch.go` | sessions by channel, `highestChannel`, a response stream and a context per channel | read a message, dispatch it, attach or detach; goroutines for spool, spawn and kill | the worker is handed over through an unbuffered channel while the client kills it or disconnects |
| output collector, `isolate/initialdispatch.go:271` | `notified` | `Write` by two copiers and by `NotifyAboutStart` | a swap and two writes that are not one step |
| process box, `isolate/process` | queue counter, semaphore, `children` under `mu` | `Spawn`, `Kill`, `Close`, the SIGCHLD handler | merged signals, recycled pids, `Wait4(-1)` |
| network pool, `isolate/mtn.go` | a bbolt database, the allocator service | `BindAllocs`, `UseAlloc`, `UnuseAlloc`, `PoolInit`, `CfgInit` | partial answers of the allocator, crashes, merging at restart, a database that cannot be opened |
| Porto containers, `isolate/porto/container*.go`, `box.go` | `containers`, `mtnAllocCleaned`, the containers and volumes of portod, storage directories | create, start, `Kill`, `Cleanup`, `waitLoop` with its collection | three callers of `Cleanup`, a collection beside the first Spawns, every step of a cleanup failing alone |
| Porto spool and spawn, `isolate/porto/box.go`, `journal.go` | the journal and its file, queue counter, semaphore | `Spool`, `Spawn`, `dumpJournal`, `loadJournal` | crashes around the dump, early returns between `Inc` and `Dec` |
| blob repository, `isolate/porto/repository.go` | `inProgress`, the files | `Get`, `download`, `fetch` | a shared download, callers that leave |
| Docker box, `isolate/docker` | queue counter, semaphore, `containers`, `removed`, the event stream | `Spawn`, `Kill`, `remove`, `watchEvents` | events that come late, twice or never; contexts that are done |
| daemon, `daemon/daemon.go`, `cmd/stout` | boxes, listeners, the contexts of boxes and connections | `New`, `Serve`, `Close`, accept loops | failures half-way through a start, the order of shutdown |

A connection calls the `Box` interface (`Spool`, `Spawn`) and the `Process`
interface (`Kill`); the boxes write the output of a worker to the output
collector, which writes to the response stream of its channel. The Porto box
uses the network pool and the blob repository.

## Modules

`Connection` models one client connection. The variables `rpc`, `rch`, `rnum`
and `rdisp` are the reader loop of `HandleConn` and its locals; `session` and
`highestChannel` have the names of the code. `spooler`, `spawner` and `killer`
say where the goroutine of `onSpool`, the goroutine of `onSpawn` and `asyncKill`
are, for every channel. `SpawnReturns` leads to the `select` on `prCh` and
`ctx.Done()`; `KillerReceives` is the rendezvous on the unbuffered `prCh`, so it
moves both goroutines; `KillerCancels` is the `default` case, possible only
while nothing is offered. A message is a channel, a number and the outcome of
decoding its arguments, and any message may come at any time: a client that
breaks the protocol and a stream that lost its framing are included. The boxes
end `Spool`, `Spawn` and `Kill` in every way their interfaces permit, with one
assumption: a `Spawn` that returns an error has left no worker running. The
Docker box does not keep it when its context is cancelled; see the finding
`KilledIsDead`.

`Workers` is the abstract specification of what a client is promised about the
worker of a channel: requested, running or never coming, killed only after the
client gave it up, and every answer true and given once. `ConnectionWorkers`
maps the variables of `Connection` to it (`Life`, `GivenUp`, `Answer`) and states
`RefinesWorkers`. `Promise` of `Workers` is what a client may conclude from it.

`OutputCollector` models `OutputCollector.Write` with the copiers of the worker's
output streams and the call of `NotifyAboutStart`. `frames` is what the client
receives.

`ProcessBox` models `process.Box` with the kernel around it. `Spawn` is cut where
another goroutine can see the difference: `Inc`, the comparison with the limit,
the semaphore, the `Dec` that follows either, the lock, the fork, the entry in
the map. Pids are recycled as
soon as `Wait4` has returned them, also to programs that are not workers
(`foreign`). `Signal` is the non-blocking send of the runtime into a channel of
capacity one.

`PortoMtn` models the pool and the containers together, since what matters is
whether a container and the pool agree. Every method of `MtnState` that opens a
bbolt transaction is one action, because bbolt runs write transactions one at a
time; `Cleanup` is four actions, since `mtnAllocCleaned` is not protected. A
crash loses the goroutines and `Box.containers` and keeps the database, the
containers of portod and what the allocator has granted. It is the model of a
box configured with the collection and the network; a container may still be
spawned without it (`NoMtn`). A restart opens the database (`Restart`), or fails
to and puts it aside (`Recreate`, `SaveRenameFails`); `backup` is the file
`isolate.mtn.db.corrupted`.

`PortoVolumes` models what `PortoMtn` leaves out of a container: its volumes, the
links portod keeps from containers to volumes, and the storage directories.
Every call of portod and of the file system may fail alone; `fault` and `refused`
are histories of which kind of failure there was. The label of the volumes is
taken to be non-empty, as it is by default (`porto/box.go:115`): with an empty one
the collection would match every volume. One Spawn is enough, since
containers share no volume and no directory.

`Daemon` models `main`, `New`, `Serve`, `ServeOnListeners` and `Close`, with an
accept loop per endpoint, a handler per connection, and every box as its context
and its loop. `Init` leaves the types of the configured boxes and the network
open, so every configuration of the given size is explored. A constructor fails
where the code can: without a trace, with a context that nobody holds any more,
or, for the Porto box, in `loadJournal`, which closes the box first. The panics of
the program that depend on its surroundings are steps to the state `"panic"`:
a nil database in `Close` (`porto/box.go:818`), a nil connection in the collection
(`porto/box.go:359`), a broken connection in `waitLoop` (`porto/box.go:458`), and
an allocator that is not reached, at the start (`isolate/mtn.go:240`) or by a
request (`isolate/mtn.go:302`).

`BlobRepo` models the callers of `Get` for one digest and the goroutine that
downloads it; digests share nothing but the lock. `fetch` is given the context of
the caller that started it, which neither it nor the client of the registry looks
at, so a caller that leaves does not end the download.

`DockerBox` models `Spawn`, `Kill` and `watchEvents` against a Docker daemon. A
request made with a context that is done returns the error of the context,
whether or not Docker has acted on it (the behaviour of the vendored client).
The position on the event stream is a number of events; asking again since a
second may repeat any of those received, which is coarser than the code and
includes it.

`PortoSpawn` models `Spool` and `Spawn` of the Porto box around the journal for
one application: two concurrent Spools bring different images.

`SpawnGate` is the abstract specification of the gate that every Spawn of the
three boxes goes through, in terms of the calls themselves: refused only while
too many stand at it, admitted only while there are no more, a bounded number
inside, and out of it once. A call stands at the gate from its `Inc` to its `Dec`,
which comes after the answer: one that was refused or gave up is `leaving`, one
that has its slot is `entering`, and either can still make another be refused. The boxes keep a counter and a semaphore instead, cut
into steps; each maps the place of a Spawn in its code to a place at the gate
(`GateLabel`, `GatePlace`) and states `RefinesGate`. A gate may lose places
(`Lose`), which only the Porto box does.

The `MC...` modules instantiate these for TLC. The theorems about a module are
in the module of the same name with `Proofs` appended, with three exceptions.
`ConnectionClientProofs` has what a client sees of a connection: late frames, and
the refinement of `ConnectionWorkers`. `ServerProofs` has the parts around a
connection, `OutputCollector` and `Daemon`. `PortoBoxProofs` has the parts of the
Porto box that share no state, `PortoVolumes`, `PortoSpawn` and `BlobRepo`. So
that one module can extend several, the specifications of `Daemon`, `PortoSpawn`
and `BlobRepo` are called `DaemonSpec`, `BoxSpec` and `RepoSpec`.
`GateCounting` holds the counting lemmas of the three gates.

## What the runs check

Bounds are constants of the models, and each run names its own in its `.cfg`.

| run | instance | properties |
|---|---|---|
| `connection` | two channels that can be opened | `NoOrphan`, `KilledOnce`, `SpawnAnsweredOnce`, `LateExplained`, `ChannelUsedOnce`, `ConnectionEndKillsWorkers`, `KillRequestEndsWorker`, `RequestsAnswered`, `RefinesWorkers` |
| `output_collector` | two copiers and the box | `OutputComplete`, `OneNotification`, `StartNotified` |
| `process_box` | two Spawns, two pids, queue of one, semaphore of one | `RefinesGate`, `ChildrenAccurate`, `HandlerSparesWorkers`, `ZombiesReaped`, `SpawnReturns` |
| `porto_mtn` | two containers, three addresses, buffer of two, one crash | `PoolExclusive`, `HeldIsUsed`, `CollectionComplete`, `RecreatedOnce` |
| `blob_repo` | three callers | `OneFetch`, `WaiterServed`, `PathExists`, `GetReturns` |
| `docker_box` | two Spawns, queue of one, semaphore of one, two broken streams, two crashes | `GateExact`, `RunningTracked`, `RefinesGate`, `DeadRemoved` |
| `porto_spawn` | two Spools, three Spawns, one crash | `JournalBacked`, `GateDrift`, `RefinesGate` |
| `porto_volumes` | one container with two extra volumes, two crashes | `RunningKeepsVolumes`, `LeakExplained`, `ExitCleaned` |
| `daemon` | three boxes of any types, two endpoints, two connections, network on or off | `ServingIsComplete`, `HandlersGivenUpFirst`, `FailedStartUndone`, `CloseComplete`, `DeafDaemonEnds` |

The type invariants are proved (below) rather than run, and so is the `GateExact`
of `ProcessBox`, which `RefinesGate` rests on. The `RefinesGate` of three runs are
three mappings to one specification.

Why the bounds are enough. Channels share only the reader, `highestChannel` and
the connection, so two of them show every interaction. A queue limit of one is
reached by one call and exceeded by two as the limit of ten is by eleven, and a
semaphore of one makes the second call wait for the first. Two calls are also
enough for one to be refused because of another that has its EAGAIN already and
not yet its `Dec`: both increment, both read two, and the second does so after the
first was refused. `porto_spawn` has three, and the theorems any number. Pids are freed by
`Wait4` and may be taken by programs that are not workers, so two of them are
enough for a pid to be used again while its first worker is still being handled.
Three addresses requested two at a time give partial grants, a full top-up and an
allocator that has too few left; which free address a transaction takes is left
open, so addresses are symmetric. Three callers are the one that starts a
download, one that joins and one that comes at its end. Two extra volumes let the
first exist when the second fails, and two crashes let a collection be cut short
and repeated. Three boxes let one fail to be constructed before, between and
after others, and are enough for one of every known type; of two endpoints one
can be deaf while the other serves. `CHECK_DEADLOCK FALSE` is
set where all calls may have been made and ended.

Fairness. A goroutine that can run runs (weak fairness on its steps). In
`ProcessBox` who waits for a mutex or for a place in a channel gets it in the
end (strong fairness), since both queue their waiters. A read from a dead
connection fails. Boxes return from `Spool`, `Spawn` and `Kill`, and the Docker
daemon, portod and the registry answer in the end, with success or an error. A
daemon that crashed is started again (`PortoVolumes`). Nothing
obliges a client to send, a worker to exit, a connection or stream to break,
`Accept` to fail, or the daemon to crash.

Two results a reader of the code may want to know. The comment at
`isolate/process/box.go:140`, "there is possible logic race here", describes a
race that cannot happen: `ChildrenAccurate` holds because the fork and the entry
in the map are under the lock that the handler holds while it waits. And
`CollectionComplete` needs its premises: a collection in which portod failed, or
beside which a Spawn ran, may leave addresses marked used.

## Where the code and its documentation disagree

Each of these is a run that must end in a violation.

| run | what is said | what happens |
|---|---|---|
| `unused_once` | `debian/changelog:31` "add check for prevent call UnuseAlloc() second time" | the check is not synchronised; two Kills both pass it |
| `killed_is_dead` | `initialdispatch.go:255` "Kill the process" | the Docker box kills with the cancelled context |
| `volumes_collected` | `porto/box.go:411` "Now try clean unused volumes" | the label is stored as `private` and looked for as `Private`: nothing is ever collected |

`PoolExclusive` and `HeldIsUsed` leave out the containers in `misfreed`, whose
address was given back or forgotten while they held it: `unused_once`, errors
that the collection ignores, and the recreation of the database are the ways a
container gets there. The mutant of `RunningKeepsVolumes` repairs the name of the
label that `volumes_collected` is about: the collection then takes the root
volumes of the workers that still run, since it unlinks a volume from every
container.

More behaviours are in the models, with a property that says exactly what holds
instead of a violated one:

- `closed` of a response stream is never set (`conn_handler.go:214`), though
  `errStreamIsClosed` is defined for it. `LateExplained` lists the frames that
  can follow a terminal one: leftover output of a killed worker, and the second
  answer to a cancelled spool.
- The queue counter of the Porto box is not decremented by two early returns
  (`porto/box.go:731`, `758`), though `porto/metrics.go:10` calls it "how many
  conatainers are queued to be spawned". `GateDrift` says that it is off by
  these and nothing else, and that each takes a place of the queue away. A call
  counts itself, so after ten of them every Spawn gets EAGAIN until the daemon is
  started again (`LeakStarves`, below).
- `wait` kills the group of a pid that `Wait4` has freed (`process/box.go:153`),
  and `process.Kill` of a reaped worker does so too: a process of another program
  can have the pid. `HandlerSparesWorkers` says that the handler never hits a
  worker of the box.
- `Close` of a Porto box panics when the network is disabled
  (`porto/box.go:818`), and the program panics in the other places listed above
  for `Daemon`. `CloseComplete` says that a program which ends after serving
  without a panic has closed every box, has waited for the loop of a process box,
  and has no Porto box unless the network is enabled. The panic of
  `RequestAllocs` is also part of `Crash` in `PortoMtn`.
- When `CreateContainer` fails, the extra volumes and storage directories stay
  (`porto/container.go:57`); `LeakExplained` says that only this or an error of
  portod or the file system leaves any.
- `SaveRename` copies the empty backup over the database (`isolate/mtn.go:95`)
  and removes the database; `RecreatedOnce` bounds the damage.

Three more have no such property. A goroutine
that replies before `HandleConn` has attached its dispatcher is detached first
and attached afterwards (`conn_handler.go:183`), so the channel keeps its
dispatcher; `ChannelUsedOnce` bounds what a later message can start. The writer that
loses the swap of the output collector can send its chunk before the winner sends
the empty one, though `d_test.go:217` expects the empty chunk first;
`OneNotification` says what holds. The collection at start destroys containers in
the state "stopped", among them one that a Spawn beside it has just created
(`porto/box.go:378`); `PoolExclusive` and `HeldIsUsed` hold in spite of it.

## What is proved

Every theorem below is for all values of the constants, under the named
assumptions of the modules: limits and bounds are natural numbers, semaphores
have a place, the set of Spawns is finite, and "no value" is not a value. Every
safety property that a run checks, invariant, action property or refinement, is
a theorem. An invariant is seldom inductive as it stands; this is what has to be
added.

**`ConnectionProofs`** (`MaxChannel \in Nat`): `TypeCorrect`, `NoOrphanWorker`,
`WorkerKilledOnce`, `SpawnAnswer` and `ChannelUse` (`ChannelUsedOnce`).
`KilledOnce`, say, needs to know that
nobody has called `Kill` while a worker is still offered, and that only one of the
two goroutines can be past the swap. `IInv` therefore lists the *stages* of a
channel (`Stage`): nothing started, spawning, offering, one side killing, one side
answering, finished, and for each stage what `spawner`, `killer`, `flagKilled`,
`proc`, `kills` and `replies` may be. `SessionInv` ties the attached dispatcher
to the stage, and `ReaderInv` the message in the reader's hands; a channel above
`highestChannel` is untouched, which is what makes opening it safe.
`KillRequestHeard` and `RequestsSettled` add what is owed to a client
(`CareInv`): an `asyncKill` that is over has stopped the spawner, and no request
is left by every goroutine that could answer it, except a spawn cancelled before
there was a worker.

**`ConnectionClientProofs`**: `LateFrames` (`LateExplained`) adds how many replies a stream can have by the time
its spooler is done and whether it was cancelled (`CancelInv`, `LateInv`): the
second reply can only be that of a cancelled spool.
`ImplementsWorkers` is `Spec => RefinesWorkers`. A
step that leaves spawner, process and replies alone maps to a stutter or to
`GiveUp`; every other changes one channel, and `IInv` says how far that channel
is: a first reply is a `Tell`, a kill has a reason, a silent end was asked for.
`ClientPromise` is `Spec => []W!Promise`: the promise is an invariant of
`Workers`, and the refinement carries it over to the connection.

**`ServerProofs`**, the output of a worker: `OutputArrives` (`OutputComplete`), by an invariant
about every prefix of the frames (`Stream`): what is appended comes after all that
is there. `NotifiedOnce` (`OneNotification`) counts the writers that won the swap
and the empty frames together (`NotifyInv`), and `NotificationNotLost` says that
the two are never both none once somebody has called `Write`.

**`ProcessBoxProofs`** (finitely many Spawns; the handler is not a Spawn):
`MapMatchesKernel` (`ChildrenAccurate`) and `HandlerKillsNoWorker`
(`HandlerSparesWorkers`) rest on who holds the lock (`LockInv`) and on a pid being
one worker's until `Wait4` returns it, and then nobody's while the handler has it
(`WorkerInv`). `GateIsExact` (`GateExact`)
counts the calls at each place of the code, with the lemmas of `GateCounting`: a
call that moves changes a count by the difference of its two places.
`ImplementsGate` (`RefinesGate`) follows from it: the comparison the code makes
with its counter is the one `SpawnGate` makes with the calls between `Inc` and
`Dec`, those that have their answer included. `NoLostSignal` says
that a zombie whose signal was sent has a signal in the channel or a handler on
its way to `Wait4`. `NobodyStuck` says that the Spawns and the handler never all
wait for each other: a semaphore without a free slot has a holder, by counting,
who can go on or waits for the lock, and who holds the lock is between `Lock` and
`Unlock` (`HolderInv`).

**`DockerBoxProofs`** (finitely many Spawns): `GateIsExact` (`GateExact`) by
counting, `ImplementsGate` from it as above, and `WorkersTracked`
(`RunningTracked`): nothing runs before its Spawn
is over, what the event log names runs no more, and a container is in the map
before it is started (`TrackInv`). `NoDeathForgotten` says that a dead container
has an event that is not read yet or is being handled, unless a request about it
failed or a crash hid its death; `DeathInv` adds that `removed` is set, and a
Kill gets to its removal, only where that is so.

**`PortoBoxProofs`**. For `PortoVolumes` (any number of extra volumes): `VolumesKept`
(`RunningKeepsVolumes`) and `VolumesLeak` (`LeakExplained`), from how far the Spawn
is (`SpawnInv`) and from who knows of what exists while no cleanup has failed
(`OwnerInv`), and `ExitNeverMissed`, that a worker which ended is with `waitLoop`
or with a Cleanup that has all of it before it. For `PortoSpawn` (finitely many
Spawns): `PortoGate` (`GateDrift`) by counting, `LeakStarves`, that a box which has
lost every place accepts no Spawn before a restart, `PortoImplementsGate`
(`RefinesGate`), and `JournalIsBacked` (`JournalBacked`), which needs that a Spool
past its import has its image in portod and that a dump under way holds one. For
`BlobRepo`: `SingleFlight` (`OneFetch`), `NobodyForgotten` (`WaiterServed`),
`PathsAreFiles` (`PathExists`); the key is in the map exactly
while one goroutine downloads (`FlightInv`), and a result on its way names a file
that is there (`ResultInv`). `AnnouncingNeverBlocks`: the results are sent under
the lock, and the channel of a caller in the map is always empty (`RoomInv`).

**`PortoMtnProofs`** (a finite pool, `Allocbuffer` at least one): `AddressesMarked`
(`HeldIsUsed`), `AddressesExclusive` (`PoolExclusive`), `EntriesKept`
(`RecreatedOnce`). The two invariants need each other, and that every entry was
granted, that a request brings only addresses not granted before, and that a
container has no address before `UseAlloc` (`PoolInv`). `FrameStep` covers every
action that hands out nothing. `CollectionLeavesNothing` (`CollectionComplete`)
follows the collection: until it is over, an address in use is a suspect or one of
a container it has kept (`CollectInv`).

**`ServerProofs`**, the daemon: `ServesComplete`, `BoxesOutlive`, `FailuresUndone`
(`FailedStartUndone`) and `EndIsClean` (`CloseComplete`). `NewInv`, `ServeInv` and
`CloseInv` say what each phase of `main` has done so far; a box that `Close` has
behind it is closed (`Closed`) whatever panics are possible beside it. `NothingHangs` says that
`Serve` and `Close` wait only for loops that were started (`StartedInv`), and
`Close` only for one that was told to end.

`Spec => []TypeOK` is a theorem for every component but `OutputCollector`, whose
types are part of its `Invariance`. That the queue counters stay natural numbers
is not a matter of types: it follows from their being exact.

Model-checked only: the liveness properties (`ConnectionEndKillsWorkers`,
`KillRequestEndsWorker`, `RequestsAnswered`, `StartNotified`, `ZombiesReaped`,
`SpawnReturns`, `GetReturns`, `DeadRemoved`, `ExitCleaned`, `DeafDaemonEnds`),
which need reasoning about fairness that the prover does not do. For each of them
the safety half, that what is owed is never out of everybody's hands, is proved:

| liveness property | safety half |
|---|---|
| `ConnectionEndKillsWorkers` | `NoOrphanWorker` |
| `KillRequestEndsWorker` | `KillRequestHeard` |
| `RequestsAnswered` | `RequestsSettled` |
| `StartNotified` | `NotificationNotLost` |
| `ZombiesReaped` | `NoLostSignal` |
| `SpawnReturns` | `NobodyStuck` |
| `GetReturns` | `NobodyForgotten`, `AnnouncingNeverBlocks` |
| `DeadRemoved` | `NoDeathForgotten` |
| `ExitCleaned` | `ExitNeverMissed` |
| `DeafDaemonEnds` | `NothingHangs` |

## What is not modelled

The spool of the process box and of the Docker box (downloads without shared
state), `collectOutput` of the Docker box, `Inspect`, its HTTP handlers and the
debug server (reads only), the `Layers` map of the journal, the formatting of the
properties of a container, the generated codecs of profiles, configuration,
logging and the export of metrics. The last dump of the journal, at `Close`, is
not waited for by anybody; `PortoSpawn` covers that as a crash before the dump.
The boxes are not composed with each other: `Wait4(-1)` of the process box can
reap the helper of the Porto box, which `PortoSpawn` has as a helper that fails.
`PROJECT.json` lists every component with the reason, and the hazards of the code
with the properties that cover them or the reason why none does.
