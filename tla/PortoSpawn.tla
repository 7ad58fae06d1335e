------------------------------ MODULE PortoSpawn ------------------------------
(***************************************************************************)
(* Spool and Spawn of the Porto box for one application, around the        *)
(* journal (isolate/porto/box.go, journal.go): Spool imports the layers of *)
(* an image into portod and records them in the journal, the journal is    *)
(* dumped to a file every minute and loaded at start, and Spawn takes the  *)
(* layers from the journal behind the queue counter and the semaphore.     *)
(* What a container then goes through is the module PortoMtn.  The         *)
(* specification is BoxSpec: no name is one of the other parts of the box, *)
(* PortoVolumes and BlobRepo.                                              *)
(***************************************************************************)
EXTENDS Naturals, FiniteSets

CONSTANTS
  Spools,      \* the Spool calls, each of an image of its own
  Spawns,      \* the Spawn calls
  QueueMax,    \* the bound of the queue, 10 in the code
  SmSize,      \* SpawnConcurrency
  MaxRestarts, \* bound: the crashes of the daemon
  None

ASSUME SizeAssumption == QueueMax \in Nat /\ SmSize \in Nat \ {0} /\ IsFiniteSet(Spawns)
ASSUME BoundAssumption == MaxRestarts \in Nat

VARIABLES
  imported,    \* the images whose layers portod has
  manifest,    \* journal.Manifests of the application: an image or None
  file,        \* the same entry in the journal file
  dump,        \* dumpJournal: the entry in the temporary file, {} without one
  spool,       \* where a Spool is
  queue,       \* spawningQueueSize
  spawn,       \* where a Spawn is
  layers,      \* the layers a Spawn was given
  restarts,
  leaked       \* history: the Spawns that left the queue without Dec

journal == <<imported, manifest, file, dump>>
gate == <<queue, spawn, layers, leaked>>
boxVars == <<journal, spool, gate, restarts>>

(***************************************************************************)
(* Spool.                                                                  *)
(***************************************************************************)

SpoolGoto(p, at, next) ==
  /\ spool[p] = at
  /\ spool' = [spool EXCEPT ![p] = next]
  /\ UNCHANGED <<gate, restarts>>

\* The download helper when the profile names layers; the registry otherwise,
\* and after a helper that failed when the box is configured to fall back.
GetLayers(p) ==
  /\ SpoolGoto(p, "idle", "import")
  /\ UNCHANGED journal

HelperFallsBack(p) ==
  /\ SpoolGoto(p, "import", "registry")
  /\ UNCHANGED journal

Importing(p) == \E at \in {"import", "registry"} : SpoolGoto(p, at, "insert")

\* Mutant: the layers are recorded without being imported.
ImportNothing(p) == imported
Import(p) == imported \cup {p}

\* Every layer is imported, or was before.
ImportLayers(p) ==
  /\ Importing(p)
  /\ imported' = Import(p)
  /\ UNCHANGED <<manifest, file, dump>>

\* A download, a digest or an import is wrong; the journal is not changed.
GetLayersFails(p) ==
  /\ \E at \in {"import", "registry"} : SpoolGoto(p, at, "error")
  /\ UNCHANGED journal

InsertManifestLayers(p) ==
  /\ SpoolGoto(p, "insert", "bind")
  /\ manifest' = p
  /\ UNCHANGED <<imported, file, dump>>

\* BindAllocs of the network, when the profile asks for it.
Bind(p) ==
  /\ \E r \in {"done", "error"} : SpoolGoto(p, "bind", r)
  /\ UNCHANGED journal

(***************************************************************************)
(* dumpJournal: the journal is encoded into a temporary file, which then   *)
(* replaces the journal file.                                              *)
(***************************************************************************)

DumpEncode ==
  /\ dump = {}
  /\ dump' = {manifest}
  /\ UNCHANGED <<imported, manifest, file, spool, gate, restarts>>

DumpRename ==
  /\ dump # {}
  /\ file' \in dump \cup {file}
  /\ dump' = {}
  /\ UNCHANGED <<imported, manifest, spool, gate, restarts>>

(***************************************************************************)
(* Spawn.                                                                  *)
(***************************************************************************)

SpawnGoto(s, at, next) ==
  /\ spawn[s] = at
  /\ spawn' = [spawn EXCEPT ![s] = next]
  /\ UNCHANGED <<journal, spool, restarts>>

InSlot == {s \in Spawns : spawn[s] \in {"acquired", "create", "release"}}
PastCheck == {s \in Spawns : spawn[s] \in {"layers", "connect", "acquire", "acquired", "gaveUp"}}
Queued == PastCheck \cup {s \in Spawns : spawn[s] \in {"check", "refused"}}

Inc(s) ==
  /\ SpawnGoto(s, "idle", "check")
  /\ queue' = queue + 1
  /\ UNCHANGED <<layers, leaked>>

QueueFull == queue > QueueMax

\* Mutant: no Dec.
DecNothing(n) == n
\* Mutant: Dec by the caller and by a defer.
DecTwice(n) == n - 2
Dec(n) == n - 1

\* A refused call still counts.
Refuse(s) ==
  /\ QueueFull /\ SpawnGoto(s, "check", "refused")
  /\ UNCHANGED <<queue, layers, leaked>>

ReturnEAGAIN(s) ==
  /\ SpawnGoto(s, "refused", "failed")
  /\ queue' = Dec(queue)
  /\ UNCHANGED <<layers, leaked>>

Accept(s) ==
  /\ ~QueueFull /\ SpawnGoto(s, "check", "layers")
  /\ UNCHANGED <<queue, layers, leaked>>

\* GetManifestLayers; without an entry Spawn returns, and the counter stays.
GetManifestLayers(s) ==
  /\ IF manifest = None
     THEN SpawnGoto(s, "layers", "failed") /\ leaked' = leaked + 1
     ELSE SpawnGoto(s, "layers", "connect") /\ UNCHANGED leaked
  /\ layers' = [layers EXCEPT ![s] = manifest]
  /\ UNCHANGED queue

\* portoConnect; on an error the counter stays too.
PortoConnect(s) ==
  /\ \/ SpawnGoto(s, "connect", "acquire") /\ UNCHANGED leaked
     \/ SpawnGoto(s, "connect", "failed") /\ leaked' = leaked + 1
  /\ UNCHANGED <<queue, layers>>

SlotFree == Cardinality(InSlot) < SmSize

\* The semaphore, or the end of the context.
Acquire(s) ==
  /\ \/ SlotFree /\ SpawnGoto(s, "acquire", "acquired")
     \/ SpawnGoto(s, "acquire", "gaveUp")
  /\ UNCHANGED <<queue, layers, leaked>>

\* Dec in either case.
Dequeue(s) ==
  /\ SpawnGoto(s, "acquired", "create") \/ SpawnGoto(s, "gaveUp", "failed")
  /\ queue' = Dec(queue)
  /\ UNCHANGED <<layers, leaked>>

\* newContainer and start, whatever their outcome; the slot is released by
\* ReleaseLock, after a pause, and only then Spawn returns.
CreateContainer(s) == SpawnGoto(s, "create", "release") /\ UNCHANGED <<queue, layers, leaked>>
ReleaseLock(s) == SpawnGoto(s, "release", "done") /\ UNCHANGED <<queue, layers, leaked>>

(***************************************************************************)
(* A crash, and a start that loads the journal file.                       *)
(***************************************************************************)

CrashRestart ==
  /\ restarts < MaxRestarts /\ restarts' = restarts + 1
  /\ manifest' = file /\ dump' = {}
  /\ spool' = [p \in Spools |-> IF spool[p] = "idle" THEN "idle" ELSE "error"]
  /\ spawn' = [s \in Spawns |-> IF spawn[s] = "idle" THEN "idle" ELSE "failed"]
  /\ queue' = 0 /\ leaked' = 0
  /\ UNCHANGED <<imported, file, layers>>

BoxInit ==
  /\ imported = {} /\ manifest = None /\ file = None /\ dump = {}
  /\ spool = [p \in Spools |-> "idle"] /\ spawn = [s \in Spawns |-> "idle"]
  /\ queue = 0 /\ layers = [s \in Spawns |-> None] /\ leaked = 0 /\ restarts = 0

Spool(p) ==
  \/ GetLayers(p) \/ HelperFallsBack(p) \/ ImportLayers(p) \/ GetLayersFails(p)
  \/ InsertManifestLayers(p) \/ Bind(p)
Spawn(s) ==
  \/ Inc(s) \/ Refuse(s) \/ ReturnEAGAIN(s) \/ Accept(s) \/ GetManifestLayers(s) \/ PortoConnect(s)
  \/ Acquire(s) \/ Dequeue(s) \/ CreateContainer(s) \/ ReleaseLock(s)

BoxNext ==
  \/ \E p \in Spools : Spool(p)
  \/ \E s \in Spawns : Spawn(s)
  \/ DumpEncode \/ DumpRename \/ CrashRestart

BoxSpec == BoxInit /\ [][BoxNext]_boxVars

(***************************************************************************)
(* Properties.                                                             *)
(***************************************************************************)

Image == Spools \cup {None}

\* The types; the counter of queued Spawns never falls below zero.
BoxTypeOK ==
  /\ imported \subseteq Spools /\ manifest \in Image /\ file \in Image
  /\ dump \subseteq Image
  /\ spool \in [Spools -> {"idle", "import", "registry", "insert", "bind", "done", "error"}]
  /\ queue \in Nat /\ leaked \in Nat /\ restarts \in 0..MaxRestarts
  /\ spawn \in [Spawns -> {"idle", "check", "refused", "layers", "connect", "acquire", "acquired",
                           "gaveUp", "create", "release", "done", "failed"}]
  /\ layers \in [Spawns -> Image]

\* What the journal, its file and the Spawns name has been imported into
\* portod, through concurrent Spools, dumps and crashes at any point.
JournalBacked ==
  \A i \in {manifest, file} \cup {layers[s] : s \in Spawns} : i # None => i \in imported

\* The counter is off from the number of Spawns before Dec by those that failed
\* between Inc and Acquire, and by nothing else.  At most SpawnConcurrency Spawns
\* create a container or wait out the pause after it.  Each missed Dec takes a
\* place of the queue away: at most QueueMax less these are past its check.
GateDrift ==
  /\ queue = Cardinality(Queued) + leaked
  /\ Cardinality(InSlot) <= SmSize
  /\ Cardinality(PastCheck) + leaked <= QueueMax

\* Where with respect to the gate a Spawn is that is at l.
GateLabel(l) ==
  CASE l = "idle" -> "out"
    [] l = "check" -> "asking"
    [] l \in {"refused", "gaveUp"} -> "leaving"
    [] l \in {"layers", "connect", "acquire"} -> "waiting"
    [] l = "acquired" -> "entering"
    [] l \in {"create", "release"} -> "inside"
    [] OTHER -> "gone"

GatePlace == [s \in Spawns |-> GateLabel(spawn[s])]

Gate == INSTANCE SpawnGate WITH place <- GatePlace, lost <- leaked, crashes <- restarts

\* The counter and the semaphore make the gate of SpawnGate, one that loses a
\* place with every Spawn that fails between Inc and Acquire.
RefinesGate == Gate!Spec
===============================================================================
