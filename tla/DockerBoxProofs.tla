--------------------------- MODULE DockerBoxProofs ---------------------------
(***************************************************************************)
(* The Docker box for every set of Spawns, every limit of the queue, every *)
(* size of the semaphore and any number of broken streams and crashes: the *)
(* counter of the queue is exact, the semaphore keeps its bound, the box   *)
(* implements the gate of SpawnGate, a worker that was handed out and runs *)
(* is in the map, and no death is forgotten.                               *)
(***************************************************************************)
EXTENDS DockerBox, GateCounting

Labels == {"idle", "inc", "refused", "acquire", "acquired", "gaveUp", "create", "start",
           "returned", "failed"}
Counted == {"inc", "refused", "acquire", "acquired", "gaveUp"}
Admitted == {"acquired", "create", "start"}

GateInv ==
  /\ spawn \in [Spawns -> Labels]
  /\ queue = Size(Spawns, spawn, Counted)
  /\ Size(Spawns, spawn, Admitted) <= SmSize

\* Every way through Spawn, and a crash in the middle of it, keeps the counter
\* equal to the number of the queued.
THEOREM GateInvariance == Spec => []GateInv
<1>1. Init => GateInv
  <2> SUFFICES ASSUME Init PROVE GateInv
    OBVIOUS
  <2>1. Size(Spawns, spawn, Counted) = 0 /\ Size(Spawns, spawn, Admitted) = 0
    BY SizeZero DEF Init, Counted, Admitted
  <2> QED
    BY <2>1, SizeAssumption DEF Init, GateInv, Labels
<1>2. GateInv /\ [Next]_vars => GateInv'
  <2> SUFFICES ASSUME GateInv, [Next]_vars PROVE GateInv'
    OBVIOUS
  <2> USE SizeAssumption DEF GateInv
  <2>1. ASSUME UNCHANGED gate PROVE GateInv'
    BY <2>1 DEF gate
  <2> DEFINE Moved(s, l) ==
        /\ spawn' \in [Spawns -> Labels]
        /\ Size(Spawns, spawn', Counted) = Size(Spawns, spawn, Counted) + In(l, Counted) - In(spawn[s], Counted)
        /\ Size(Spawns, spawn', Admitted) = Size(Spawns, spawn, Admitted) + In(l, Admitted) - In(spawn[s], Admitted)
        /\ Size(Spawns, spawn, Counted) \in Nat /\ Size(Spawns, spawn, Admitted) \in Nat
  <2>2. ASSUME NEW s \in Spawns, NEW l \in Labels, spawn' = [spawn EXCEPT ![s] = l] PROVE Moved(s, l)
    <3>1. /\ spawn' \in [Spawns -> Labels]
          /\ spawn'[s] = l /\ \A t \in Spawns : t # s => spawn'[t] = spawn[t]
      BY <2>2
    <3>2. ASSUME NEW L
          PROVE  /\ Size(Spawns, spawn', L) = Size(Spawns, spawn, L) + In(l, L) - In(spawn[s], L)
                 /\ Size(Spawns, spawn, L) \in Nat
      BY <3>1, MoveSize
    <3> QED
      BY <3>1, <3>2
  <2>3. ASSUME NEW s \in Spawns, Inc(s) PROVE GateInv'
    <3>1. spawn[s] = "idle" /\ Moved(s, "inc")
      BY <2>2, <2>3, Zenon DEF Inc, Goto, Labels
    <3> QED
      BY <2>3, <3>1 DEF Inc, In, Counted, Admitted
  <2>4. ASSUME NEW s \in Spawns, Check(s) PROVE GateInv'
    <3>1. CASE QueueFull
      <4>1. spawn[s] = "inc" /\ Moved(s, "refused") /\ queue' = queue
        BY <2>2, <2>4, <3>1, Zenon DEF Check, Goto, Labels
      <4> QED
        BY <4>1 DEF In, Counted, Admitted
    <3>2. CASE ~QueueFull
      <4>1. spawn[s] = "inc" /\ Moved(s, "acquire") /\ queue' = queue
        BY <2>2, <2>4, <3>2, Zenon DEF Check, Goto, Labels
      <4> QED
        BY <4>1 DEF In, Counted, Admitted
    <3> QED
      BY <3>1, <3>2
  <2>5. ASSUME NEW s \in Spawns, Acquire(s) PROVE GateInv'
    <3>1. queue' = queue
      BY <2>5 DEF Acquire
    <3>2. CASE SlotFree /\ Goto(s, "acquire", "acquired")
      <4>1. spawn[s] = "acquire" /\ Moved(s, "acquired")
        BY <2>2, <3>2, Zenon DEF Goto, Labels
      <4>2. Size(Spawns, spawn, Admitted) < SmSize
        BY <3>2 DEF SlotFree, Spawning, Size, At, Admitted
      <4> QED
        BY <3>1, <4>1, <4>2 DEF In, Counted, Admitted
    <3>3. CASE Goto(s, "acquire", "gaveUp")
      <4>1. spawn[s] = "acquire" /\ Moved(s, "gaveUp")
        BY <2>2, <3>3, Zenon DEF Goto, Labels
      <4> QED
        BY <3>1, <4>1 DEF In, Counted, Admitted
    <3> QED
      BY <2>5, <3>2, <3>3 DEF Acquire
  <2>6. ASSUME NEW s \in Spawns, ReturnEAGAIN(s) \/ Dequeue(s) PROVE GateInv'
    <3>1. queue' = queue - 1
      BY <2>6 DEF ReturnEAGAIN, Dequeue, LeavesQueue
    <3>2. CASE Goto(s, "acquired", "create")
      <4>1. spawn[s] = "acquired" /\ Moved(s, "create")
        BY <2>2, <3>2, Zenon DEF Goto, Labels
      <4> QED
        BY <3>1, <4>1 DEF In, Counted, Admitted
    <3>3. CASE \E l \in {"refused", "gaveUp"} : Goto(s, l, "failed")
      <4>1. spawn[s] \in {"refused", "gaveUp"} /\ Moved(s, "failed")
        BY <2>2, <3>3, Zenon DEF Goto, Labels
      <4> QED
        BY <3>1, <4>1 DEF In, Counted, Admitted
    <3> QED
      BY <2>6, <3>2, <3>3 DEF ReturnEAGAIN, Dequeue
  <2>7. ASSUME NEW s \in Spawns, Create(s) \/ CreateFails(s) \/ Start(s) \/ StartFails(s) PROVE GateInv'
    <3>1. PICK l \in {"start", "failed", "returned"} :
            spawn[s] \in {"create", "start"} /\ spawn' = [spawn EXCEPT ![s] = l]
      BY <2>7 DEF Create, CreateFails, Start, StartFails, Goto
    <3>2. l \in Labels
      BY DEF Labels
    <3>3. Moved(s, l)
      BY <2>2, <3>1, <3>2, Zenon
    <3>4. queue' = queue
      BY <2>7 DEF Create, CreateFails, Start, StartFails
    <3>5. /\ In(l, Counted) = 0 /\ In(spawn[s], Counted) = 0
          /\ In(l, Admitted) \in {0, 1} /\ In(spawn[s], Admitted) = 1
      BY <3>1 DEF In, Counted, Admitted
    <3> QED
      BY <3>3, <3>4, <3>5
  <2>8. ASSUME CrashRestart PROVE GateInv'
    <3>1. spawn' = [s \in Spawns |-> IF spawn[s] = "idle" THEN "idle" ELSE "failed"] /\ queue' = 0
      BY <2>8 DEF CrashRestart
    <3>2. Size(Spawns, spawn', Counted) = 0 /\ Size(Spawns, spawn', Admitted) = 0
      BY <3>1, SizeZero DEF Counted, Admitted
    <3> QED
      BY <3>1, <3>2 DEF Labels
  <2>9. ASSUME NEW s \in Spawns, Cancel(s) \/ Kill(s) \/ KillRemove(s) \/ WorkerExits(s) PROVE GateInv'
    BY <2>1, <2>9 DEF Cancel, Kill, KillRemove, WorkerExits
  <2>10. ASSUME WatchEvents \/ Disconnect \/ UNCHANGED vars PROVE GateInv'
    BY <2>1, <2>10, Zenon DEF WatchEvents, Connect, ReadEvent, HandleEvent, Disconnect, vars
  <2> QED
    BY <2>3, <2>4, <2>5, <2>6, <2>7, <2>8, <2>9, <2>10 DEF Next, SpawnStep
<1> QED
  BY <1>1, <1>2, PTL DEF Spec

\* The counter that decides on EAGAIN and the semaphore of the Docker box.
THEOREM GateIsExact == Spec => []GateExact
<1>1. GateInv => GateExact
  <2>1. Queued = At(Spawns, spawn, Counted) /\ Spawning = At(Spawns, spawn, Admitted)
    BY DEF Queued, Spawning, At, Counted, Admitted
  <2> QED
    BY <2>1 DEF GateInv, GateExact, Size
<1> QED
  BY <1>1, GateInvariance, PTL

-----------------------------------------------------------------------------
(* The gate.                                                               *)

\* The instance counts as the library does.
LEMMA SameCardinality == \A X : Gate!Cardinality(X) = Cardinality(X)
  BY DEF Gate!Cardinality, Cardinality, Gate!IsFiniteSet, IsFiniteSet

\* The labels of the gate.
LEMMA Labelled ==
  /\ GateLabel("idle") = "out" /\ GateLabel("inc") = "asking" /\ GateLabel("acquire") = "waiting"
  /\ GateLabel("refused") = "leaving" /\ GateLabel("gaveUp") = "leaving" /\ GateLabel("acquired") = "entering"
  /\ GateLabel("create") = "inside" /\ GateLabel("start") = "inside"
  /\ GateLabel("returned") = "gone" /\ GateLabel("failed") = "gone"
  BY DEF GateLabel

\* The gate counts the Spawns the counter and the semaphore count.
LEMMA GateCounts ==
  ASSUME GateInv
  PROVE  /\ Gate!Standing = queue
         /\ Gate!Cardinality(Gate!At({"entering", "inside"})) = Cardinality(Spawning)
  <1>1. \A s \in Spawns : GatePlace[s] \in {"asking", "waiting", "entering", "leaving"} <=> spawn[s] \in Counted
    BY Labelled DEF GateInv, GatePlace, Labels, Counted
  <1>2. \A s \in Spawns : GatePlace[s] \in {"entering", "inside"} <=> spawn[s] \in {"acquired", "create", "start"}
    BY Labelled DEF GateInv, GatePlace, Labels
  <1>3. /\ Gate!At({"asking", "waiting", "entering", "leaving"}) = At(Spawns, spawn, Counted)
        /\ Gate!At({"entering", "inside"}) = Spawning
    BY <1>1, <1>2, Zenon DEF Gate!At, At, Spawning
  <1>4. Size(Spawns, spawn, Counted) \in Nat
    BY SizeAssumption, SizeOrder
  <1> QED
    BY <1>3, <1>4, SameCardinality DEF Gate!Standing, GateInv, Size

\* A Spawn that moves moves at the gate.
LEMMA GateGo ==
  ASSUME GateInv, NEW s \in Spawns, NEW a, NEW l, Goto(s, a, l), crashes' = crashes
  PROVE  Gate!Go(s, GateLabel(a), GateLabel(l))
  BY Zenon DEF GateInv, Goto, Gate!Go, GatePlace

\* Every step of the box is a step of the gate or none.
LEMMA GateStep ==
  ASSUME GateInv, [Next]_vars
  PROVE  [Gate!Next]_(Gate!vars)
  <1>1. ASSUME UNCHANGED <<spawn, crashes>> PROVE UNCHANGED Gate!vars
    BY <1>1 DEF Gate!vars, GatePlace
  <1>2. ASSUME NEW s \in Spawns, Inc(s) PROVE Gate!Ask(s)
    BY <1>2, GateGo, Labelled DEF Inc, Gate!Ask
  <1>3. ASSUME NEW s \in Spawns, Check(s) PROVE Gate!Refuse(s) \/ Gate!Admit(s)
    <2>1. CASE QueueFull
      <3>1. Gate!Go(s, "asking", "leaving")
        BY <1>3, <2>1, GateGo, Labelled DEF Check
      <3> QED
        BY <2>1, <3>1, GateCounts DEF QueueFull, Gate!Refuse
    <2>2. CASE ~QueueFull
      <3>1. Gate!Go(s, "asking", "waiting")
        BY <1>3, <2>2, GateGo, Labelled DEF Check
      <3>2. queue \in Nat
        BY SizeAssumption, SizeOrder DEF GateInv
      <3> QED
        BY <2>2, <3>1, <3>2, GateCounts, SizeAssumption DEF QueueFull, Gate!Admit
    <2> QED
      BY <2>1, <2>2
  <1>4. ASSUME NEW s \in Spawns, Acquire(s) PROVE Gate!Enter(s) \/ Gate!GiveUp(s)
    <2>1. CASE SlotFree /\ Goto(s, "acquire", "acquired")
      <3>1. Gate!Go(s, "waiting", "entering")
        BY <1>4, <2>1, GateGo, Labelled DEF Acquire
      <3> QED
        BY <2>1, <3>1, GateCounts DEF SlotFree, Gate!Enter
    <2>2. CASE Goto(s, "acquire", "gaveUp")
      <3>1. Gate!Go(s, "waiting", "leaving")
        BY <1>4, <2>2, GateGo, Labelled DEF Acquire
      <3> QED
        BY <3>1 DEF Gate!GiveUp
    <2> QED
      BY <1>4, <2>1, <2>2 DEF Acquire
  <1>5. ASSUME NEW s \in Spawns, ReturnEAGAIN(s) \/ Dequeue(s) PROVE Gate!Pass(s) \/ Gate!Leave(s)
    <2>0. crashes' = crashes
      BY <1>5 DEF ReturnEAGAIN, Dequeue
    <2>1. CASE Goto(s, "acquired", "create")
      <3>1. Gate!Go(s, "entering", "inside")
        BY <2>0, <2>1, GateGo, Labelled
      <3> QED
        BY <3>1 DEF Gate!Pass
    <2>2. CASE \E l \in {"refused", "gaveUp"} : Goto(s, l, "failed")
      <3>1. Gate!Go(s, "leaving", "gone")
        BY <2>0, <2>2, GateGo, Labelled
      <3> QED
        BY <3>1 DEF Gate!Leave
    <2> QED
      BY <1>5, <2>1, <2>2 DEF ReturnEAGAIN, Dequeue
  <1>6. ASSUME NEW s \in Spawns, Create(s) PROVE UNCHANGED Gate!vars
    <2>1. Gate!Go(s, "inside", "inside")
      BY <1>6, GateGo, Labelled DEF Create
    <2> QED
      BY <2>1, Zenon DEF Gate!Go, Gate!vars, GatePlace
  <1>7. ASSUME NEW s \in Spawns, CreateFails(s) \/ Start(s) \/ StartFails(s) PROVE Gate!Leave(s)
    <2>1. Gate!Go(s, "inside", "gone")
      BY <1>7, GateGo, Labelled DEF CreateFails, Start, StartFails
    <2> QED
      BY <2>1 DEF Gate!Leave
  <1>8. ASSUME CrashRestart PROVE Gate!Restart
    <2>1. ASSUME NEW s \in Spawns
          PROVE  GateLabel(spawn'[s]) = IF GateLabel(spawn[s]) = "out" THEN "out" ELSE "gone"
      BY <1>8, Labelled DEF CrashRestart, GateInv, Labels
    <2>2. GatePlace' = [s \in Spawns |-> IF GatePlace[s] = "out" THEN "out" ELSE "gone"]
      BY <2>1 DEF GatePlace
    <2> QED
      BY <1>8, <2>2 DEF CrashRestart, Gate!Restart
  <1>9. ASSUME NEW s \in Spawns, Cancel(s) \/ Kill(s) \/ KillRemove(s) \/ WorkerExits(s)
        PROVE  UNCHANGED <<spawn, crashes>>
    BY <1>9 DEF Cancel, Kill, KillRemove, WorkerExits, gate
  <1>10. ASSUME WatchEvents \/ Disconnect \/ UNCHANGED vars PROVE UNCHANGED <<spawn, crashes>>
    BY <1>10, Zenon DEF WatchEvents, Connect, ReadEvent, HandleEvent, Disconnect, vars, gate
  <1> QED
    BY <1>1, <1>2, <1>3, <1>4, <1>5, <1>6, <1>7, <1>8, <1>9, <1>10 DEF Next, SpawnStep, Gate!Next

\* The Docker box implements the gate, and loses no place: whatever calls fail,
\* are cancelled or cut by a crash, EAGAIN is the answer only while more than
\* QueueMax Spawns are between Inc and Dec.
THEOREM ImplementsGate == Spec => RefinesGate
  <1>1. Init => Gate!Init
    BY Labelled DEF Init, Gate!Init, GatePlace
  <1>2. GateInv /\ [Next]_vars => [Gate!Next]_(Gate!vars)
    BY GateStep
  <1> QED
    BY <1>1, <1>2, GateInvariance, PTL DEF Spec, RefinesGate, Gate!Spec

-----------------------------------------------------------------------------
(* The map of containers.                                                  *)

Over == {"returned", "failed"}

\* Only what has been started runs or has run; what the events name runs no
\* more; and a process is in the map before it is started.
TrackInv ==
  /\ spawn \in [Spawns -> Labels]
  /\ docker \in [Spawns -> {"absent", "created", "running", "dead"}]
  /\ log \in Seq(Spawns) /\ cursor \in Nat /\ cursor <= Len(log)
  /\ \A s \in Spawns : docker[s] = "running" => spawn[s] \in Over
  /\ \A i \in 1..Len(log) : docker[log[i]] # "running" /\ spawn[log[i]] \in Over
  /\ \A s \in Spawns : spawn[s] = "start" => s \in tracked
  /\ RunningTracked

\* A step that starts nothing and takes nobody out of the map.
LEMMA QuietStep ==
  ASSUME TrackInv, UNCHANGED <<spawn, log, tracked>>, cursor' \in 0..Len(log),
         docker' \in [Spawns -> {"absent", "created", "running", "dead"}],
         \A s \in Spawns : docker'[s] = "running" => docker[s] = "running"
  PROVE  TrackInv'
  BY DEF TrackInv, RunningTracked, Over

\* The death of a worker that ran, with its event.
LEMMA DeathStep ==
  ASSUME TrackInv, NEW s \in Spawns, docker[s] = "running", Dies(s), UNCHANGED <<spawn, tracked, cursor>>
  PROVE  TrackInv'
<1>1. docker' = [docker EXCEPT ![s] = "dead"] /\ log' = Append(log, s)
  BY DEF Dies
<1>2. log' \in Seq(Spawns) /\ Len(log') = Len(log) + 1 /\ Len(log) \in Nat
  BY <1>1 DEF TrackInv
<1>3. \A i \in 1..Len(log') : log'[i] = s \/ (i \in 1..Len(log) /\ log'[i] = log[i])
  BY <1>1 DEF TrackInv
<1>4. \A i \in 1..Len(log) : log[i] \in Spawns
  BY DEF TrackInv
<1>5. docker' \in [Spawns -> {"absent", "created", "running", "dead"}]
      /\ docker'[s] = "dead" /\ \A t \in Spawns : t # s => docker'[t] = docker[t]
  BY <1>1 DEF TrackInv
<1>6. \A i \in 1..Len(log') : docker'[log'[i]] # "running" /\ spawn'[log'[i]] \in Over
  BY <1>3, <1>4, <1>5 DEF TrackInv
<1> QED
  BY <1>2, <1>5, <1>6 DEF TrackInv, RunningTracked

\* ContainerRemove starts nothing.
LEMMA RemoveEffect ==
  ASSUME TrackInv, NEW s, NEW done, ContainerRemove(s, done)
  PROVE  /\ docker' \in [Spawns -> {"absent", "created", "running", "dead"}]
         /\ \A t \in Spawns : docker'[t] = "running" => docker[t] = "running"
  BY DEF ContainerRemove, TrackInv

\* TrackInv is inductive.
THEOREM TrackInvariance == Spec => []TrackInv
<1>1. Init => TrackInv
  BY DEF Init, TrackInv, RunningTracked, Labels
<1>2. TrackInv /\ [Next]_vars => TrackInv'
  <2> SUFFICES ASSUME TrackInv, [Next]_vars PROVE TrackInv'
    OBVIOUS
  <2> USE DEF gate, watcher
  <2>1. ASSUME NEW s \in Spawns,
               \/ Inc(s) \/ Check(s) \/ ReturnEAGAIN(s) \/ Acquire(s) \/ Dequeue(s)
               \/ Create(s) \/ CreateFails(s) \/ Start(s) \/ StartFails(s)
        PROVE  TrackInv'
    <3>1. UNCHANGED <<log, cursor>>
      BY <2>1 DEF Inc, Check, ReturnEAGAIN, Acquire, Dequeue, Create, CreateFails, Start, StartFails
    <3>2. PICK l \in Labels \ {"idle"} :
            /\ spawn' = [spawn EXCEPT ![s] = l]
            /\ spawn[s] \notin Over
            /\ l = "start" => s \in tracked'
            /\ l = "returned" => spawn[s] = "start"
            /\ docker' \in [Spawns -> {"absent", "created", "running", "dead"}]
            /\ \A t \in Spawns : t # s => docker'[t] = docker[t]
            /\ docker'[s] = "running" => l \in Over
            /\ tracked \subseteq tracked'
      BY <2>1 DEF Inc, Check, ReturnEAGAIN, Acquire, Dequeue, Create, CreateFails, Start, StartFails, Goto, Track,
                  PerhapsChanged, TrackInv, Over, Labels
    <3>3. \A i \in 1..Len(log) : log[i] \in Spawns /\ log[i] # s
      BY <3>2 DEF TrackInv
    <3>4. spawn' \in [Spawns -> Labels] /\ spawn'[s] = l /\ \A t \in Spawns : t # s => spawn'[t] = spawn[t]
      BY <3>2 DEF TrackInv
    <3> QED
      BY <3>1, <3>2, <3>3, <3>4 DEF TrackInv, RunningTracked
  <2>2. ASSUME NEW s \in Spawns, Cancel(s) PROVE TrackInv'
    BY <2>2, QuietStep DEF Cancel, TrackInv
  <2>3. ASSUME NEW s \in Spawns, Kill(s) PROVE TrackInv'
    <3>1. CASE docker[s] = "running" /\ Dies(s)
      BY <2>3, <3>1, DeathStep DEF Kill
    <3>2. CASE UNCHANGED <<docker, log>>
      BY <2>3, <3>2, QuietStep DEF Kill, TrackInv
    <3> QED
      BY <2>3, <3>1, <3>2 DEF Kill
  <2>4. ASSUME NEW s \in Spawns, KillRemove(s) PROVE TrackInv'
    <3>1. /\ docker' \in [Spawns -> {"absent", "created", "running", "dead"}]
          /\ \A t \in Spawns : docker'[t] = "running" => docker[t] = "running"
      BY <2>4, RemoveEffect DEF KillRemove, remove, TrackInv
    <3> QED
      BY <2>4, <3>1, QuietStep DEF KillRemove, TrackInv
  <2>5. ASSUME NEW s \in Spawns, WorkerExits(s) PROVE TrackInv'
    BY <2>5, DeathStep DEF WorkerExits
  <2>6. ASSUME Connect \/ Disconnect \/ UNCHANGED vars PROVE TrackInv'
    BY <2>6, QuietStep DEF Connect, Resume, Disconnect, vars, TrackInv
  <2>7. ASSUME ReadEvent PROVE TrackInv'
    <3> DEFINE s == log[cursor + 1]
    <3>1. cursor + 1 \in 1..Len(log)
      BY <2>7 DEF ReadEvent, TrackInv
    <3>2. s \in Spawns /\ docker[s] # "running" /\ spawn[s] \in Over
      BY <3>1 DEF TrackInv
    <3>3. tracked' = tracked \ {s} /\ cursor' = cursor + 1 /\ UNCHANGED <<spawn, docker, log>>
      BY <2>7 DEF ReadEvent
    <3> HIDE DEF s
    <3> QED
      BY <3>1, <3>2, <3>3 DEF TrackInv, RunningTracked, Over
  <2>8. ASSUME HandleEvent PROVE TrackInv'
    <3>1. /\ docker' \in [Spawns -> {"absent", "created", "running", "dead"}]
          /\ \A t \in Spawns : docker'[t] = "running" => docker[t] = "running"
      BY <2>8, RemoveEffect, Zenon DEF HandleEvent, remove, TrackInv
    <3> QED
      BY <2>8, <3>1, QuietStep DEF HandleEvent, TrackInv
  <2>9. ASSUME CrashRestart PROVE TrackInv'
    <3>1. /\ spawn' = [s \in Spawns |-> IF spawn[s] = "idle" THEN "idle" ELSE "failed"]
          /\ log' = <<>> /\ cursor' = 0
      BY <2>9 DEF CrashRestart
    <3>2. /\ docker' \in [Spawns -> {"absent", "created", "running", "dead"}]
          /\ \A s \in Spawns : docker'[s] = "running" => docker[s] = "running"
      BY <2>9 DEF CrashRestart, TrackInv
    <3> QED
      BY <3>1, <3>2 DEF TrackInv, RunningTracked, Over, Labels
  <2> QED
    BY <2>1, <2>2, <2>3, <2>4, <2>5, <2>6, <2>7, <2>8, <2>9 DEF Next, SpawnStep, WatchEvents
<1> QED
  BY <1>1, <1>2, PTL DEF Spec

\* A worker that Spawn has returned and that runs is in Box.containers.
THEOREM WorkersTracked == Spec => []RunningTracked
  BY TrackInvariance, PTL DEF TrackInv

-----------------------------------------------------------------------------
(* The types.                                                              *)

\* The box stays well typed; in particular the counter of the queue never
\* wraps below zero and the cursor never runs ahead of the events.
THEOREM TypeCorrect == Spec => []TypeOK
<1>1. GateInv => queue \in Nat
  <2>1. Size(Spawns, spawn, Counted) \in Nat
    BY SizeAssumption, SizeOrder
  <2> QED
    BY <2>1 DEF GateInv
<1>2. Init => TypeOK
  <2> SUFFICES ASSUME Init PROVE TypeOK
    OBVIOUS
  <2>1. removed \in [Spawns -> BOOLEAN] /\ stream \in BOOLEAN
    BY Zenon DEF Init
  <2>2. watch \in [id : Spawns, ok : BOOLEAN] \cup {None}
    BY Zenon DEF Init
  <2> QED
    BY <2>1, <2>2, BoundAssumption DEF Init, TypeOK
<1>3. TypeOK /\ (queue \in Nat)' /\ [Next]_vars => TypeOK'
  <2> SUFFICES ASSUME TypeOK, queue' \in Nat, [Next]_vars PROVE TypeOK'
    OBVIOUS
  <2> USE BoundAssumption DEF TypeOK, gate, watcher
  <2>1. ASSUME NEW s \in Spawns, Inc(s) \/ Check(s) \/ ReturnEAGAIN(s) PROVE TypeOK'
    BY <2>1, Zenon DEF Inc, Check, ReturnEAGAIN, Goto
  <2>2. ASSUME NEW s \in Spawns, Acquire(s) \/ Dequeue(s) \/ Cancel(s) PROVE TypeOK'
    BY <2>2 DEF Acquire, Dequeue, Cancel, Goto
  <2>3. ASSUME NEW s \in Spawns, Create(s) \/ CreateFails(s) PROVE TypeOK'
    <3>1. removed' \in [Spawns -> BOOLEAN]
      BY <2>3, Zenon DEF Create, CreateFails
    <3> QED
      BY <2>3, <3>1 DEF Create, CreateFails, Goto, Track, Answered, Fails, PerhapsChanged
  <2>4. ASSUME NEW s \in Spawns, Start(s) \/ StartFails(s) PROVE TypeOK'
    BY <2>4 DEF Start, StartFails, Goto, Answered, Fails, PerhapsChanged
  <2>5. ASSUME NEW s \in Spawns, Kill(s) \/ WorkerExits(s) PROVE TypeOK'
    <3>1. \/ docker' = [docker EXCEPT ![s] = "dead"] /\ log' = Append(log, s)
          \/ UNCHANGED <<docker, log>>
      BY <2>5 DEF Kill, WorkerExits, Dies
    <3>2. log' \in Seq(Spawns) /\ Len(log) <= Len(log') /\ Len(log) \in Nat /\ Len(log') \in Nat
      <4>1. CASE log' = Append(log, s)
        BY <4>1
      <4>2. CASE log' = log
        <5>1. Len(log) \in Nat
          OBVIOUS
        <5> QED
          BY <4>2, <5>1
      <4> QED
        BY <3>1, <4>1, <4>2
    <3>3. cursor' \in 0..Len(log')
      BY <2>5, <3>2 DEF Kill, WorkerExits
    <3>4. refused' \subseteq Spawns /\ aborted' \subseteq Spawns
      BY <2>5 DEF Kill, WorkerExits, Answered, Fails
    <3>5. killer' \in [Spawns -> {"idle", "remove", "done"}]
      BY <2>5 DEF Kill, WorkerExits
    <3> QED
      BY <2>5, <3>1, <3>2, <3>3, <3>4, <3>5, Zenon DEF Kill, WorkerExits
  <2>6. ASSUME NEW s \in Spawns, KillRemove(s) PROVE TypeOK'
    <3>1. removed' \in [Spawns -> BOOLEAN]
      BY <2>6, Zenon DEF KillRemove, remove
    <3> QED
      BY <2>6, <3>1 DEF KillRemove, remove, ContainerRemove
  <2>7. ASSUME Connect \/ Disconnect \/ UNCHANGED vars PROVE TypeOK'
    <3>1. stream' \in BOOLEAN
      BY <2>7, Zenon DEF Connect, Disconnect, vars
    <3>2. cursor' \in 0..cursor \/ UNCHANGED cursor
      BY <2>7 DEF Connect, Resume, Disconnect, vars
    <3>3. log' = log /\ Len(log) \in Nat
      BY <2>7 DEF Connect, Disconnect, vars
    <3>4. cursor' \in 0..Len(log')
      BY <3>2, <3>3
    <3> QED
      BY <2>7, <3>1, <3>3, <3>4 DEF Connect, Disconnect, vars
  <2>8. ASSUME ReadEvent PROVE TypeOK'
    <3>1. cursor + 1 \in 1..Len(log) /\ log[cursor + 1] \in Spawns
      BY <2>8 DEF ReadEvent
    <3>2. watch' \in [id : Spawns, ok : BOOLEAN]
      BY <2>8, <3>1 DEF ReadEvent
    <3> QED
      BY <2>8, <3>1, <3>2 DEF ReadEvent
  <2>9. ASSUME HandleEvent PROVE TypeOK'
    <3>1. watch.id \in Spawns
      BY <2>9 DEF HandleEvent
    <3>2. removed' \in [Spawns -> BOOLEAN]
      BY <2>9, Zenon DEF HandleEvent, remove
    <3>3. watch' \in [id : Spawns, ok : BOOLEAN] \cup {None}
      BY <2>9, Zenon DEF HandleEvent
    <3>4. /\ docker' \in [Spawns -> {"absent", "created", "running", "dead"}]
          /\ refused' \subseteq Spawns /\ aborted' \subseteq Spawns
      BY <2>9, <3>1 DEF HandleEvent, remove, ContainerRemove
    <3> QED
      BY <2>9, <3>2, <3>3, <3>4 DEF HandleEvent
  <2>10. ASSUME CrashRestart PROVE TypeOK'
    <3>1. removed' \in [Spawns -> BOOLEAN] /\ stream' \in BOOLEAN
      BY <2>10, Zenon DEF CrashRestart
    <3>2. watch' \in [id : Spawns, ok : BOOLEAN] \cup {None}
      BY <2>10, Zenon DEF CrashRestart
    <3>3. /\ docker' \in [Spawns -> {"absent", "created", "running", "dead"}]
          /\ refused' \subseteq Spawns /\ aborted' \subseteq Spawns
      BY <2>10 DEF CrashRestart
    <3>4. spawn' \in [Spawns -> Labels] /\ killer' \in [Spawns -> {"idle", "remove", "done"}]
      BY <2>10 DEF CrashRestart, Labels
    <3>5. log' \in Seq(Spawns) /\ cursor' \in 0..Len(log')
      BY <2>10 DEF CrashRestart
    <3> QED
      BY <2>10, <3>1, <3>2, <3>3, <3>4, <3>5 DEF CrashRestart, Labels
  <2> QED
    BY <2>1, <2>2, <2>3, <2>4, <2>5, <2>6, <2>7, <2>8, <2>9, <2>10, Zenon
       DEF Next, SpawnStep, WatchEvents
<1> QED
  BY <1>1, <1>2, <1>3, GateInvariance, PTL DEF Spec

-----------------------------------------------------------------------------
(* No death is forgotten.                                                  *)

\* A request about the container failed, or a crash hid its death.
Excused == refused \cup aborted

Unread(s) == \E i \in 1..Len(log) : cursor < i /\ log[i] = s
Handling(s) == watch # None /\ watch.id = s

\* A container that is dead has an event that watchEvents has yet to read, or
\* is removing right now, unless a request about it failed: however the streams
\* break and the Kills interleave.  This is what the liveness property
\* DeadRemoved rests on.
DeathPending ==
  \A s \in Spawns : docker[s] = "dead" => s \in Excused \/ Unread(s) \/ Handling(s)

\* What the watcher handles runs no more, and removed is only set where the
\* container is removed or a request failed.
DeathInv ==
  /\ \A s \in Spawns : Handling(s) => docker[s] # "running" /\ spawn[s] \in Over
  /\ \A s \in Spawns : removed[s] /\ docker[s] \in {"running", "dead"} => s \in Excused
  /\ \A s \in Spawns : killer[s] = "remove" /\ docker[s] = "running" => s \in Excused
  /\ \A s \in Spawns : killer[s] # "idle" => spawn[s] = "returned"
  /\ \A s \in Spawns : spawn[s] = "start" => ~removed[s]
  /\ DeathPending

\* A worker that ran dies: its event is the last of the log.
LEMMA DeathLogged ==
  ASSUME TypeOK, DeathInv, NEW s \in Spawns, docker[s] = "running", Dies(s),
         UNCHANGED <<spawn, removed, cursor, watch>>, Excused \subseteq Excused',
         \A t \in Spawns : t # s => killer'[t] = killer[t],
         killer'[s] # "idle" => spawn[s] = "returned"
  PROVE  DeathInv'
  <1>1. docker' = [docker EXCEPT ![s] = "dead"] /\ log' = Append(log, s)
    BY DEF Dies
  <1>2. docker'[s] = "dead" /\ \A t \in Spawns : t # s => docker'[t] = docker[t]
    BY <1>1 DEF TypeOK
  <1>3. /\ Len(log) \in Nat /\ Len(log') = Len(log) + 1 /\ log'[Len(log) + 1] = s
        /\ \A j \in 1..Len(log) : log'[j] = log[j]
    BY <1>1 DEF TypeOK
  <1>4. Unread(s)'
    <2>1. cursor' \in Nat /\ cursor' <= Len(log)
      BY <1>3 DEF TypeOK
    <2>2. Len(log) + 1 \in 1..Len(log') /\ cursor' < Len(log) + 1
      BY <1>3, <2>1
    <2> QED
      BY <1>3, <2>2 DEF Unread
  <1>5. ASSUME NEW t \in Spawns, Unread(t) PROVE Unread(t)'
    <2>1. PICK j \in 1..Len(log) : cursor < j /\ log[j] = t
      BY <1>5 DEF Unread
    <2>2. j \in 1..Len(log') /\ log'[j] = t /\ cursor' < j
      BY <1>3, <2>1
    <2> QED
      BY <2>2 DEF Unread
  <1>6. \A t \in Spawns : Handling(t)' = Handling(t)
    BY DEF Handling
  <1>7. DeathPending'
    BY <1>2, <1>4, <1>5, <1>6 DEF DeathInv, DeathPending
  <1> QED
    BY <1>2, <1>6, <1>7 DEF DeathInv

\* ContainerRemove on a container that does not run: it is gone, or the request
\* is accounted for.
LEMMA RemoveDead ==
  ASSUME TypeOK, NEW s \in Spawns, NEW done, ContainerRemove(s, done)
  PROVE  /\ Excused \subseteq Excused'
         /\ \A t \in Spawns : t # s => docker'[t] = docker[t]
         /\ docker'[s] \in {docker[s], "absent"}
         /\ docker[s] # "running" => docker'[s] = "absent" \/ s \in Excused'
  BY DEF ContainerRemove, TypeOK, Excused

\* process.remove: the same, when the swap of an earlier call is accounted for.
LEMMA RemoveOnce ==
  ASSUME TypeOK, DeathInv, NEW s \in Spawns, remove(s)
  PROVE  /\ Excused \subseteq Excused'
         /\ \A t \in Spawns : t # s => docker'[t] = docker[t] /\ removed'[t] = removed[t]
         /\ docker'[s] \in {docker[s], "absent"}
         /\ docker[s] = "dead" => docker'[s] = "absent" \/ s \in Excused'
  <1>1. \A t \in Spawns : t # s => removed'[t] = removed[t]
    BY DEF remove, TypeOK
  <1>2. CASE removed[s]
    <2>1. UNCHANGED <<docker, refused, aborted>>
      BY <1>2 DEF remove
    <2>2. docker[s] = "dead" => s \in Excused
      BY <1>2 DEF DeathInv
    <2> QED
      BY <1>1, <2>1, <2>2 DEF Excused
  <1>3. CASE ~removed[s]
    <2>1. ContainerRemove(s, s \in ctxDone)
      BY <1>3 DEF remove
    <2> QED
      BY <1>1, <2>1, RemoveDead
  <1> QED
    BY <1>2, <1>3

\* A Spawn that moves on.
LEMMA SpawnKeepsDeaths ==
  ASSUME TypeOK, TrackInv, DeathInv, NEW s \in Spawns, SpawnStep(s)
  PROVE  DeathInv'
  <1>1. UNCHANGED <<log, cursor, watch, killer>> /\ Excused \subseteq Excused'
    BY DEF SpawnStep, Inc, Check, ReturnEAGAIN, Acquire, Dequeue, Create, CreateFails, Start,
           StartFails, watcher, Answered, Fails, Excused
  <1>2. PICK l \in Labels \ {"idle"} :
          /\ spawn' = [spawn EXCEPT ![s] = l]
          /\ spawn[s] \notin Over
          /\ \A t \in Spawns : t # s => docker'[t] = docker[t]
          /\ docker'[s] \in {docker[s], "created"} \/ (docker'[s] = "running" /\ (spawn[s] = "start" \/ s \in Excused'))
    BY DEF SpawnStep, Inc, Check, ReturnEAGAIN, Acquire, Dequeue, Create, CreateFails, Start,
           StartFails, Goto, PerhapsChanged, TypeOK, Over, Labels, Answered, Fails, Excused
  <1>3. /\ \A t \in Spawns : t # s => removed'[t] = removed[t]
        /\ removed'[s] => removed[s]
        /\ spawn'[s] = "start" => ~removed'[s]
    BY DEF SpawnStep, Inc, Check, ReturnEAGAIN, Acquire, Dequeue, Create, CreateFails, Start,
           StartFails, Goto, TypeOK
  <1>4. spawn'[s] = l /\ \A t \in Spawns : t # s => spawn'[t] = spawn[t]
    BY <1>2 DEF TypeOK
  <1>5. \A t \in Spawns : Unread(t)' = Unread(t) /\ Handling(t)' = Handling(t)
    BY <1>1 DEF Unread, Handling
  <1>6. killer[s] = "idle" /\ ~Handling(s) /\ docker[s] # "running"
    BY <1>2 DEF DeathInv, TrackInv, Over
  <1>7. DeathPending'
    BY <1>1, <1>2, <1>5 DEF DeathInv, DeathPending
  <1>8. ASSUME NEW t \in Spawns, removed'[t], docker'[t] \in {"running", "dead"} PROVE t \in Excused'
    <2>1. CASE t # s
      BY <1>1, <1>2, <1>3, <1>8, <2>1 DEF DeathInv
    <2>2. CASE t = s
      BY <1>1, <1>2, <1>3, <1>8, <2>2 DEF DeathInv
    <2> QED
      BY <2>1, <2>2
  <1>9. ASSUME NEW t \in Spawns, Handling(t)' PROVE docker'[t] # "running" /\ spawn'[t] \in Over
    <2>1. t # s /\ Handling(t)
      BY <1>5, <1>6, <1>9, Zenon
    <2> QED
      BY <1>2, <1>4, <2>1, Zenon DEF DeathInv
  <1>10. ASSUME NEW t \in Spawns, killer'[t] # "idle"
         PROVE  spawn'[t] = "returned" /\ (killer'[t] = "remove" /\ docker'[t] = "running" => t \in Excused')
    <2>1. t # s /\ killer'[t] = killer[t]
      BY <1>1, <1>6, <1>10, Zenon
    <2> QED
      BY <1>1, <1>2, <1>4, <1>10, <2>1, Zenon DEF DeathInv
  <1>11. ASSUME NEW t \in Spawns, spawn'[t] = "start" PROVE ~removed'[t]
    BY <1>3, <1>4, <1>11, Zenon DEF DeathInv
  <1>12. \A t \in Spawns : killer'[t] = "remove" => killer'[t] # "idle"
    OBVIOUS
  <1> QED
    BY <1>7, <1>8, <1>9, <1>10, <1>11, <1>12, Zenon DEF DeathInv

\* A step that leaves the containers, the events and the Spawns alone.
LEMMA NothingForgotten ==
  ASSUME DeathInv, UNCHANGED <<spawn, removed, docker, watch, log, refused, aborted>>, cursor' \in 0..cursor \/ cursor' = cursor,
         cursor \in Nat, killer' = killer
  PROVE  DeathInv'
  <1>1. cursor' \in Nat /\ cursor' <= cursor
    OBVIOUS
  <1>2. ASSUME NEW t \in Spawns, Unread(t) PROVE Unread(t)'
    <2>1. PICK j \in 1..Len(log) : cursor < j /\ log[j] = t
      BY <1>2 DEF Unread
    <2>2. cursor' < j
      BY <1>1, <2>1
    <2> QED
      BY <2>1, <2>2 DEF Unread
  <1>3. \A t \in Spawns : Handling(t)' = Handling(t)
    BY DEF Handling
  <1>4. DeathPending'
    BY <1>2, <1>3 DEF DeathInv, DeathPending, Excused
  <1> QED
    BY <1>3, <1>4 DEF DeathInv, Excused

\* Every step keeps the invariant.
LEMMA DeathStepKept ==
  ASSUME TypeOK, TrackInv, DeathInv, [Next]_vars
  PROVE  DeathInv'
  <1> USE DEF gate, watcher
  <1>0. cursor \in Nat /\ Len(log) \in Nat
    BY DEF TypeOK
  <1>1. ASSUME NEW s \in Spawns, SpawnStep(s) PROVE DeathInv'
    BY <1>1, SpawnKeepsDeaths
  <1>2. ASSUME NEW s \in Spawns, Cancel(s) PROVE DeathInv'
    BY <1>0, <1>2, NothingForgotten DEF Cancel
  <1>3. ASSUME NEW s \in Spawns, Kill(s) PROVE DeathInv'
    <2>1. /\ spawn[s] = "returned" /\ killer' = [killer EXCEPT ![s] = "remove"]
          /\ UNCHANGED <<spawn, removed, cursor, watch>>
      BY <1>3, Zenon DEF Kill
    <2>2. Excused \subseteq Excused'
      BY <1>3 DEF Kill, Answered, Fails, Excused
    <2>3. killer'[s] = "remove" /\ \A t \in Spawns : t # s => killer'[t] = killer[t]
      BY <2>1 DEF TypeOK
    <2>4. CASE docker[s] = "running" /\ Dies(s)
      BY <2>1, <2>2, <2>3, <2>4, DeathLogged
    <2>5. CASE UNCHANGED <<docker, log>> /\ (docker[s] = "running" => s \in Excused')
      <3>1. \A t \in Spawns : Unread(t)' = Unread(t) /\ Handling(t)' = Handling(t)
        BY <2>1, <2>5 DEF Unread, Handling
      <3>2. DeathPending'
        BY <2>2, <2>5, <3>1, Zenon DEF DeathInv, DeathPending
      <3> QED
        BY <2>1, <2>2, <2>3, <2>5, <3>1, <3>2, Zenon DEF DeathInv
    <2> QED
      BY <1>3, <2>4, <2>5, Zenon DEF Kill, Fails, Excused
  <1>4. ASSUME NEW s \in Spawns, UNCHANGED <<spawn, cursor, log>>, remove(s),
               \A t \in Spawns : t # s => (Handling(t)' <=> Handling(t)), Handling(s)' => Handling(s),
               killer' = killer \/ killer' = [killer EXCEPT ![s] = "done"], killer' # killer => killer[s] = "remove",
               spawn[s] # "start", docker[s] = "running" => s \in Excused
        PROVE  DeathInv'
    <2>1. /\ Excused \subseteq Excused'
          /\ \A t \in Spawns : t # s => docker'[t] = docker[t] /\ removed'[t] = removed[t]
          /\ docker'[s] \in {docker[s], "absent"}
          /\ docker[s] = "dead" => docker'[s] = "absent" \/ s \in Excused'
      BY <1>4, RemoveOnce
    <2>2. \A t \in Spawns : Unread(t)' = Unread(t)
      BY <1>4, Zenon DEF Unread
    <2>3. DeathPending'
      BY <1>4, <2>1, <2>2, Zenon DEF DeathInv, DeathPending
    <2>4. \A t \in Spawns : /\ killer'[t] = "remove" => killer[t] = "remove"
                            /\ killer'[t] # "idle" => killer[t] # "idle"
      BY <1>4 DEF TypeOK
    <2>5. docker'[s] \in {"running", "dead"} => s \in Excused'
      BY <1>4, <2>1
    <2> QED
      BY <1>4, <2>1, <2>3, <2>4, <2>5, SMTT(30), ZenonT(40) DEF DeathInv
  <1>5. ASSUME NEW s \in Spawns, KillRemove(s) PROVE DeathInv'
    <2>1. /\ UNCHANGED <<spawn, cursor, log, watch>> /\ remove(s)
          /\ killer[s] = "remove" /\ killer' = [killer EXCEPT ![s] = "done"]
      BY <1>5 DEF KillRemove
    <2>2. \A t \in Spawns : Handling(t)' = Handling(t)
      BY <2>1 DEF Handling
    <2>3. spawn[s] # "start" /\ (docker[s] = "running" => s \in Excused)
      BY <2>1 DEF DeathInv
    <2> QED
      BY <1>4, <2>1, <2>2, <2>3, Zenon
  <1>6. ASSUME NEW s \in Spawns, WorkerExits(s) PROVE DeathInv'
    <2>1. killer'[s] # "idle" => spawn[s] = "returned"
      BY <1>6 DEF WorkerExits, DeathInv
    <2> QED
      BY <1>6, <2>1, DeathLogged DEF WorkerExits, Excused
  <1>7. ASSUME Connect \/ Disconnect \/ UNCHANGED vars PROVE DeathInv'
    BY <1>0, <1>7, NothingForgotten, Zenon DEF Connect, Resume, Disconnect, vars
  <1>8. ASSUME ReadEvent PROVE DeathInv'
    <2>1. cursor + 1 \in 1..Len(log) /\ log[cursor + 1] \in Spawns
      BY <1>8 DEF ReadEvent, TypeOK
    <2>2. PICK s \in Spawns : s = log[cursor + 1]
      BY <2>1
    <2>3. docker[s] # "running" /\ spawn[s] \in Over
      BY <2>1, <2>2 DEF TrackInv
    <2>4. /\ watch = None /\ cursor' = cursor + 1
          /\ UNCHANGED <<spawn, removed, killer, docker, log, refused, aborted>>
      BY <1>8 DEF ReadEvent
    <2>5. watch' = [id |-> s, ok |-> s \in tracked]
      BY <1>8, <2>2 DEF ReadEvent
    <2>6. ASSUME NEW t \in Spawns PROVE Handling(t)' => t = s
      BY <2>5 DEF Handling
    <2>7. ASSUME NEW t \in Spawns, Unread(t) PROVE Unread(t)' \/ t = s
      <3>1. PICK j \in 1..Len(log) : cursor < j /\ log[j] = t
        BY <2>7 DEF Unread
      <3>2. j = cursor + 1 \/ cursor' < j
        BY <1>0, <2>4, <3>1
      <3> QED
        BY <2>4, <2>2, <3>1, <3>2 DEF Unread
    <2>8. Handling(s)'
      <3>1. watch' \in [id : Spawns, ok : BOOLEAN]
        BY <2>5, <2>1
      <3>2. watch'.id = s
        BY <2>5
      <3> QED
        BY <3>1, <3>2, NoneAssumption DEF Handling
    <2>9. ASSUME NEW t \in Spawns, docker'[t] = "dead" PROVE t \in Excused' \/ Unread(t)' \/ Handling(t)'
      <3>1. t \in Excused \/ Unread(t)
        BY <2>4, <2>9 DEF DeathInv, DeathPending, Handling
      <3> QED
        BY <2>4, <2>7, <2>8, <3>1 DEF Excused
    <2> QED
      BY <2>1, <2>3, <2>4, <2>6, <2>9, Zenon DEF DeathInv, DeathPending, Excused
  <1>9. ASSUME HandleEvent PROVE DeathInv'
    <2>0. watch.id \in Spawns /\ watch # None /\ watch' = None /\ UNCHANGED <<spawn, killer, log, cursor>>
      BY <1>9 DEF HandleEvent, TypeOK
    <2>1. PICK s \in Spawns : s = watch.id
      BY <2>0
    <2>2. Handling(s) /\ \A t \in Spawns : ~Handling(t)' /\ (t # s => ~Handling(t))
      BY <2>0, <2>1 DEF Handling
    <2>3. docker[s] # "running" /\ spawn[s] \in Over
      BY <2>0, <2>1, <2>2 DEF DeathInv
    <2>4. CASE watch.ok
      <3>1. remove(s)
        BY <1>9, <2>1, <2>4 DEF HandleEvent
      <3>2. \A t \in Spawns : t # s => (Handling(t)' <=> Handling(t))
        BY <2>2
      <3>3. spawn[s] # "start"
        BY <2>3 DEF Over
      <3> QED
        BY <1>4, <2>0, <2>1, <2>2, <2>3, <3>1, <3>2, <3>3
    <2>5. CASE ~watch.ok
      <3>1. ContainerRemove(s, FALSE) /\ removed' = removed
        BY <1>9, <2>1, <2>5, Zenon DEF HandleEvent
      <3>2. /\ Excused \subseteq Excused'
            /\ \A t \in Spawns : t # s => docker'[t] = docker[t]
            /\ docker'[s] \in {docker[s], "absent"}
            /\ docker'[s] = "absent" \/ s \in Excused'
        BY <2>0, <2>1, <2>3, <3>1, RemoveDead, Zenon
      <3>3. \A t \in Spawns : Unread(t)' = Unread(t)
        BY <2>0, <2>1, Zenon DEF Unread
      <3>4. DeathPending'
        BY <2>2, <3>2, <3>3 DEF DeathInv, DeathPending
      <3> QED
        BY <2>0, <2>1, <2>2, <3>1, <3>2, <3>4, Zenon DEF DeathInv
    <2> QED
      BY <2>4, <2>5
  <1>10. ASSUME CrashRestart PROVE DeathInv'
    <2>1. /\ killer' = [s \in Spawns |-> "idle"] /\ watch' = None
          /\ spawn' = [s \in Spawns |-> IF spawn[s] = "idle" THEN "idle" ELSE "failed"]
      BY <1>10 DEF CrashRestart
    <2>2. \A s \in Spawns : ~removed'[s]
      BY <1>10 DEF CrashRestart
    <2>3. \A s \in Spawns : docker'[s] = "dead" => s \in Excused'
      BY <1>10 DEF CrashRestart, Excused, TypeOK
    <2>4. \A s \in Spawns : ~Handling(s)'
      BY <2>1 DEF Handling
    <2>5. DeathPending'
      BY <2>3 DEF DeathPending
    <2> QED
      BY <2>1, <2>2, <2>4, <2>5, Zenon DEF DeathInv
  <1> QED
    BY <1>1, <1>2, <1>3, <1>5, <1>6, <1>7, <1>8, <1>9, <1>10 DEF Next, WatchEvents

\* watchEvents forgets no container that died.
THEOREM NoDeathForgotten == Spec => []DeathPending
  <1>1. Init => DeathInv
    <2> SUFFICES ASSUME Init PROVE DeathInv
      OBVIOUS
    <2>1. \A s \in Spawns : ~removed[s]
      BY DEF Init
    <2> QED
      BY <2>1 DEF Init, DeathInv, DeathPending, Handling
  <1>2. TypeOK /\ TrackInv /\ DeathInv /\ [Next]_vars => DeathInv'
    BY DeathStepKept
  <1>3. DeathInv => DeathPending
    BY DEF DeathInv
  <1> QED
    BY <1>1, <1>2, <1>3, TypeCorrect, TrackInvariance, PTL DEF Spec
=============================================================================
