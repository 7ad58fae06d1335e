-------------------------- MODULE ProcessBoxProofs --------------------------
(***************************************************************************)
(* The process box for every number of Spawn calls and pids, every limit   *)
(* of the queue and every size of the semaphore: the map of children and   *)
(* the kernel agree, the handler kills no worker of the box, the counter   *)
(* of the queue is exact, the queue and the semaphore keep their bounds,   *)
(* the box implements the gate of SpawnGate, no death goes unnoticed, and  *)
(* Spawns and the handler never all wait for each other.                   *)
(***************************************************************************)
EXTENDS ProcessBox, GateCounting

\* The types, but for the counter.
TypeInv ==
  /\ pc \in [Spawns -> {"idle", "count", "refused", "acquire", "acquired", "gaveUp", "lock",
                        "start", "put", "release", "EAGAIN", "cancelled", "error", "ok"}]
  /\ mu \in Spawns \union {Handler, None}
  /\ children \in [Pids -> Spawns \union {None}]
  /\ hpc \in {"notify", "select", "lock", "wait", "reap", "exit"}
  /\ hpid \in Pids \union {None}
  /\ wpid \in [Spawns -> Pids \union {None}]
  /\ wstate \in [Spawns -> {"none", "running", "zombie", "reaped"}]
  /\ missed \in [Spawns -> BOOLEAN]

\* Who is between Lock and Unlock holds the lock.
LockInv ==
  /\ \A s \in Spawns : pc[s] \in {"start", "put"} => mu = s
  /\ hpc \in {"wait", "reap"} => mu = Handler

\* A worker exists from the fork on, with a pid of its own until Wait4 has
\* returned it; the pid in the hands of the handler is nobody's.
WorkerInv ==
  /\ \A s \in Spawns :
       /\ pc[s] \notin {"put", "release", "ok"} => wstate[s] = "none"
       /\ wstate[s] # "none" => wpid[s] \in Pids
       /\ pc[s] = "put" => Unreaped(s)
  /\ \A s, t \in Spawns : Unreaped(s) /\ Unreaped(t) /\ wpid[s] = wpid[t] => s = t
  /\ hpc = "reap" => hpid \in Pids /\ \A s \in Spawns : Unreaped(s) => wpid[s] # hpid

IInv == TypeInv /\ LockInv /\ WorkerInv /\ ChildrenAccurate

\* KillPg changes a running worker with the pid to a zombie, if there is one.
LEMMA KillPgEffect ==
  ASSUME TypeInv, NEW p, KillPg(p)
  PROVE  /\ wstate' \in [Spawns -> {"none", "running", "zombie", "reaped"}]
         /\ missed' \in [Spawns -> BOOLEAN]
         /\ \A s \in Spawns : (wstate'[s] = "none") = (wstate[s] = "none")
         /\ \A s \in Spawns : Unreaped(s)' = Unreaped(s)
         /\ (\A s \in Spawns : wpid[s] = p => wstate[s] # "running") => wstate' = wstate
<1>1. CASE Running(p) = {}
  BY <1>1 DEF KillPg, TypeInv, Unreaped
<1>2. CASE Running(p) # {}
  <2>1. PICK t \in Running(p) : Dies(t)
    BY <1>2 DEF KillPg
  <2>2. t \in Spawns /\ wpid[t] = p /\ wstate[t] = "running"
    BY DEF Running
  <2>3. /\ wstate' = [wstate EXCEPT ![t] = "zombie"]
        /\ missed' = [missed EXCEPT ![t] = hpc = "notify"]
    BY <2>1 DEF Dies
  <2> QED
    BY <2>2, <2>3 DEF TypeInv, Unreaped
<1> QED
  BY <1>1, <1>2

\* The lock keeps fork and entry, Wait4 and removal together: IInv is inductive.
THEOREM Invariance == Spec => []IInv
<1>1. Init => IInv
  BY ProcessBoxAssumption DEF Init, IInv, TypeInv, LockInv, WorkerInv, ChildrenAccurate, Unreaped
<1>2. IInv /\ [Next]_vars => IInv'
  <2> SUFFICES ASSUME IInv, [Next]_vars PROVE IInv'
    OBVIOUS
  <2> USE ProcessBoxAssumption DEF IInv, Handler
  <2>1. CASE UNCHANGED vars
    BY <2>1 DEF vars, spawnVars, handlerVars, kernelVars, TypeInv, LockInv, WorkerInv,
                ChildrenAccurate, Unreaped
  <2>2. ASSUME NEW s \in Spawns, Enqueue(s) PROVE IInv'
    BY <2>2 DEF Enqueue, SpawnGoto, spawnVars, handlerVars, kernelVars,
                TypeInv, LockInv, WorkerInv, ChildrenAccurate, Unreaped
  <2>3. ASSUME NEW s \in Spawns, Refuse(s) PROVE IInv'
    BY <2>3 DEF Refuse, SpawnGoto, spawnVars, handlerVars, kernelVars,
                TypeInv, LockInv, WorkerInv, ChildrenAccurate, Unreaped
  <2>4. ASSUME NEW s \in Spawns, Accept(s) PROVE IInv'
    BY <2>4 DEF Accept, SpawnGoto, spawnVars, handlerVars, kernelVars,
                TypeInv, LockInv, WorkerInv, ChildrenAccurate, Unreaped
  <2>5. ASSUME NEW s \in Spawns, Acquire(s) PROVE IInv'
    BY <2>5 DEF Acquire, SpawnGoto, spawnVars, handlerVars, kernelVars,
                TypeInv, LockInv, WorkerInv, ChildrenAccurate, Unreaped
  <2>6. ASSUME NEW s \in Spawns, Lock(s) PROVE IInv'
    BY <2>6 DEF Lock, SpawnGoto, spawnVars, handlerVars, kernelVars,
                TypeInv, LockInv, WorkerInv, ChildrenAccurate, Unreaped
  <2>7. ASSUME NEW s \in Spawns, StartFails(s) PROVE IInv'
    BY <2>7 DEF StartFails, SpawnGoto, spawnVars, handlerVars, kernelVars,
                TypeInv, LockInv, WorkerInv, ChildrenAccurate, Unreaped
  <2>8. ASSUME NEW s \in Spawns, ReturnProcess(s) PROVE IInv'
    BY <2>8 DEF ReturnProcess, SpawnGoto, spawnVars, handlerVars, kernelVars,
                TypeInv, LockInv, WorkerInv, ChildrenAccurate, Unreaped
  <2>9. ASSUME NEW s \in Spawns, Cancel(s) PROVE IInv'
    BY <2>9 DEF Cancel, spawnVars, handlerVars, kernelVars,
                TypeInv, LockInv, WorkerInv, ChildrenAccurate, Unreaped
  <2>10. ASSUME NEW s \in Spawns, WorkerExits(s) PROVE IInv'
    BY <2>10 DEF WorkerExits, Dies, spawnVars, handlerVars, kernelVars,
                TypeInv, LockInv, WorkerInv, ChildrenAccurate, Unreaped
  <2>11. ASSUME Notify PROVE IInv'
    BY <2>11 DEF Notify, spawnVars, handlerVars, kernelVars,
                TypeInv, LockInv, WorkerInv, ChildrenAccurate, Unreaped
  <2>12. ASSUME Receive PROVE IInv'
    BY <2>12 DEF Receive, spawnVars, handlerVars, kernelVars,
                TypeInv, LockInv, WorkerInv, ChildrenAccurate, Unreaped
  <2>13. ASSUME HandlerLock PROVE IInv'
    BY <2>13 DEF HandlerLock, spawnVars, handlerVars, kernelVars,
                TypeInv, LockInv, WorkerInv, ChildrenAccurate, Unreaped
  <2>14. ASSUME WaitEmpty PROVE IInv'
    BY <2>14 DEF WaitEmpty, spawnVars, handlerVars, kernelVars,
                TypeInv, LockInv, WorkerInv, ChildrenAccurate, Unreaped
  <2>15. ASSUME HandlerExits PROVE IInv'
    BY <2>15 DEF HandlerExits, spawnVars, handlerVars, kernelVars,
                TypeInv, LockInv, WorkerInv, ChildrenAccurate, Unreaped
  <2>16. ASSUME Close PROVE IInv'
    BY <2>16 DEF Close, spawnVars, handlerVars, kernelVars,
                TypeInv, LockInv, WorkerInv, ChildrenAccurate, Unreaped
  <2>17. ASSUME NEW p \in Pids, ForeignFork(p) \/ ForeignExit(p) PROVE IInv'
    BY <2>17 DEF ForeignFork, ForeignExit, spawnVars, handlerVars,
                TypeInv, LockInv, WorkerInv, ChildrenAccurate, Unreaped
  <2>18. ASSUME NEW s \in Spawns, Kill(s) PROVE IInv'
    <3>1. KillPg(wpid[s]) /\ UNCHANGED <<pc, mu, children, hpc, hpid, wpid>>
      BY <2>18 DEF Kill, spawnVars
    <3> QED
      BY <3>1, KillPgEffect DEF TypeInv, LockInv, WorkerInv, ChildrenAccurate, Unreaped
  <2>19. ASSUME NEW s \in Spawns, NEW p \in Pids, Start(s, p) PROVE IInv'
    <3>1. /\ pc[s] = "start" /\ FreePid(p)
          /\ pc' = [pc EXCEPT ![s] = "put"]
          /\ wpid' = [wpid EXCEPT ![s] = p]
          /\ wstate' = [wstate EXCEPT ![s] = "running"]
          /\ UNCHANGED <<mu, children, hpc, hpid, missed>>
      BY <2>19 DEF Start, SpawnGoto, handlerVars
    <3>2. \A q \in Pids : children[q] # s
      BY <3>1 DEF TypeInv, LockInv, WorkerInv, ChildrenAccurate, Unreaped
    <3>3. children[p] = None
      BY <3>1 DEF FreePid, TypeInv, LockInv, WorkerInv, ChildrenAccurate, Unreaped
    <3>4. TypeInv' /\ LockInv'
      BY <3>1 DEF TypeInv, LockInv
    <3>5. WorkerInv'
      BY <3>1 DEF FreePid, TypeInv, LockInv, WorkerInv, Unreaped
    <3>6. ChildrenAccurate'
      BY <3>1, <3>2, <3>3 DEF TypeInv, LockInv, WorkerInv, ChildrenAccurate, Unreaped
    <3> QED
      BY <3>4, <3>5, <3>6
  <2>20. ASSUME NEW s \in Spawns, Put(s) PROVE IInv'
    BY <2>20 DEF Put, SpawnGoto, handlerVars, kernelVars,
                TypeInv, LockInv, WorkerInv, ChildrenAccurate, Unreaped
  <2>21. ASSUME NEW s \in Spawns, Wait4(s) PROVE IInv'
    BY <2>21 DEF Wait4, spawnVars,
                TypeInv, LockInv, WorkerInv, ChildrenAccurate, Unreaped
  <2>22. ASSUME Reap PROVE IInv'
    <3>1. CASE children[hpid] # None
      <4>1. /\ children' = [children EXCEPT ![hpid] = None] /\ KillPg(hpid)
            /\ hpc = "reap" /\ hpc' = "wait" /\ UNCHANGED <<pc, mu, hpid, wpid>>
        BY <2>22, <3>1 DEF Reap, spawnVars
      <4> QED
        BY <4>1, KillPgEffect DEF TypeInv, LockInv, WorkerInv, ChildrenAccurate, Unreaped
    <3>2. CASE children[hpid] = None
      <4>1. /\ hpc = "reap" /\ hpc' = "wait"
            /\ UNCHANGED <<pc, mu, children, hpid, wpid, wstate, missed>>
        BY <2>22, <3>2 DEF Reap, spawnVars, kernelVars
      <4> QED
        BY <4>1, <3>2 DEF TypeInv, LockInv, WorkerInv, ChildrenAccurate, Unreaped
    <3> QED
      BY <3>1, <3>2
  <2>23. ASSUME NEW s \in Spawns, ReturnEAGAIN(s) \/ Dequeue(s) PROVE IInv'
    <3>1. PICK l \in {"EAGAIN", "lock", "cancelled"} :
            /\ pc[s] \in {"refused", "acquired", "gaveUp"} /\ pc' = [pc EXCEPT ![s] = l]
            /\ UNCHANGED <<mu, children, handlerVars, kernelVars>>
      BY <2>23, Zenon DEF ReturnEAGAIN, Dequeue, SpawnGoto
    <3> QED
      BY <3>1 DEF handlerVars, kernelVars, TypeInv, LockInv, WorkerInv, ChildrenAccurate, Unreaped
  <2> QED
    BY <2>1, <2>2, <2>3, <2>4, <2>5, <2>6, <2>7, <2>8, <2>9, <2>10, <2>11,
       <2>12, <2>13, <2>14, <2>15, <2>16, <2>17, <2>18, <2>19, <2>20, <2>21, <2>22, <2>23
       DEF Next, sigchldHandler, Spawn
<1> QED
  BY <1>1, <1>2, PTL DEF Spec

\* The map of children belongs to the workers the kernel knows, although pids
\* are recycled: what the comment of wait calls a possible race is none.
THEOREM MapMatchesKernel == Spec => []ChildrenAccurate
  BY Invariance, PTL DEF IInv

\* killPg of the SIGCHLD handler hits no worker of the box, whoever has got
\* the freed pid.
THEOREM HandlerKillsNoWorker == Spec => HandlerSparesWorkers
<1> DEFINE A == hpc = "reap" /\ hpc' # "reap" =>
                  \A s \in Spawns : wstate[s] = "running" => wstate'[s] = "running"
<1>1. IInv /\ [Next]_vars => [A]_vars
  <2> SUFFICES ASSUME IInv, Next, hpc = "reap", hpc' # "reap" PROVE wstate' = wstate
    OBVIOUS
  <2>1. Reap
    BY DEF Next, sigchldHandler, Spawn, Enqueue, Refuse, ReturnEAGAIN, Accept,
           Acquire, Dequeue, Lock, StartFails, Put, ReturnProcess, Start, Cancel, Kill, WorkerExits,
           Notify, Receive, HandlerLock, WaitEmpty, HandlerExits, Wait4, Close, ForeignFork,
           ForeignExit, handlerVars
  <2>2. CASE children[hpid] # None
    BY <2>1, <2>2, KillPgEffect DEF Reap, IInv, WorkerInv, Unreaped
  <2>3. CASE children[hpid] = None
    BY <2>1, <2>3 DEF Reap, kernelVars
  <2> QED
    BY <2>2, <2>3
<1> QED
  BY <1>1, Invariance, PTL DEF Spec, HandlerSparesWorkers

-----------------------------------------------------------------------------
(* The queue and the semaphore.                                            *)

Labels == {"idle", "count", "refused", "acquire", "acquired", "gaveUp", "lock", "start", "put",
           "release", "EAGAIN", "cancelled", "error", "ok"}

Queued    == {"count", "refused", "acquire", "acquired", "gaveUp"}
PastCheck == {"acquire", "acquired", "gaveUp"}
Inside    == {"lock", "start", "put", "release"}
Admitted  == {"acquired"} \union Inside

GateInv ==
  /\ pc \in [Spawns -> Labels]
  /\ queue = Size(Spawns, pc, Queued)
  /\ Size(Spawns, pc, PastCheck) <= QueueMax
  /\ Size(Spawns, pc, Admitted) <= SmSize

\* The sets of calls that the gate counts have a size.
LEMMA Sizes ==
  ASSUME NEW f
  PROVE  /\ Size(Spawns, f, Queued) \in Nat /\ Size(Spawns, f, PastCheck) \in Nat
         /\ Size(Spawns, f, Admitted) \in Nat
         /\ Size(Spawns, f, PastCheck) <= Size(Spawns, f, Queued)
<1>1. PastCheck \subseteq Queued
  BY DEF PastCheck, Queued
<1> QED
  BY <1>1, ProcessBoxAssumption, SizeOrder

\* The counter is the size of the queue, and both sizes keep their bounds.
THEOREM GateInvariance == Spec => []GateInv
<1>1. Init => GateInv
  <2> SUFFICES ASSUME Init PROVE GateInv
    OBVIOUS
  <2>1. Size(Spawns, pc, Queued) = 0 /\ Size(Spawns, pc, PastCheck) = 0 /\ Size(Spawns, pc, Admitted) = 0
    BY SizeZero DEF Init, Queued, PastCheck, Admitted, Inside
  <2> QED
    BY <2>1, ProcessBoxAssumption DEF Init, GateInv, Labels
<1>2. GateInv /\ [Next]_vars => GateInv'
  <2> SUFFICES ASSUME GateInv, [Next]_vars PROVE GateInv'
    OBVIOUS
  <2> USE ProcessBoxAssumption DEF GateInv
  <2>1. ASSUME UNCHANGED <<pc, queue>> PROVE GateInv'
    BY <2>1
  <2> DEFINE Moved(s, l) ==
        /\ pc' \in [Spawns -> Labels]
        /\ Size(Spawns, pc', Queued) = Size(Spawns, pc, Queued) + In(l, Queued) - In(pc[s], Queued)
        /\ Size(Spawns, pc', PastCheck) = Size(Spawns, pc, PastCheck) + In(l, PastCheck) - In(pc[s], PastCheck)
        /\ Size(Spawns, pc', Admitted) = Size(Spawns, pc, Admitted) + In(l, Admitted) - In(pc[s], Admitted)
  <2>0. ASSUME NEW s \in Spawns, NEW l \in Labels, pc' = [pc EXCEPT ![s] = l] PROVE Moved(s, l)
    <3>1. pc' \in [Spawns -> Labels] /\ pc'[s] = l /\ \A t \in Spawns : t # s => pc'[t] = pc[t]
      BY <2>0
    <3>2. ASSUME NEW L PROVE Size(Spawns, pc', L) = Size(Spawns, pc, L) + In(l, L) - In(pc[s], L)
      BY <3>1, MoveSize, ProcessBoxAssumption
    <3> QED
      BY <3>1, <3>2
  <2>2. ASSUME NEW s \in Spawns, Enqueue(s) PROVE GateInv'
    <3>1. pc[s] = "idle" /\ pc' = [pc EXCEPT ![s] = "count"]
      BY <2>2 DEF Enqueue, SpawnGoto
    <3>2. Moved(s, "count")
      BY <2>0, <3>1, Zenon DEF Labels
    <3> QED
      BY <2>2, <3>1, <3>2, Sizes DEF Enqueue, In, Queued, PastCheck, Admitted, Inside
  <2>3. ASSUME NEW s \in Spawns, Refuse(s) PROVE GateInv'
    <3>1. pc[s] = "count" /\ pc' = [pc EXCEPT ![s] = "refused"]
      BY <2>3 DEF Refuse, SpawnGoto
    <3>2. Moved(s, "refused")
      BY <2>0, <3>1, Zenon DEF Labels
    <3> QED
      BY <2>3, <3>1, <3>2, Sizes DEF Refuse, In, Queued, PastCheck, Admitted, Inside
  <2>4. ASSUME NEW s \in Spawns, Accept(s) PROVE GateInv'
    <3>1. pc[s] = "count" /\ pc' = [pc EXCEPT ![s] = "acquire"]
      BY <2>4 DEF Accept, SpawnGoto
    <3>2. Moved(s, "acquire")
      BY <2>0, <3>1, Zenon DEF Labels
    <3> QED
      BY <2>4, <3>1, <3>2, Sizes DEF Accept, QueueFull, In, Queued, PastCheck, Admitted, Inside
  <2>5. ASSUME NEW s \in Spawns, Acquire(s) PROVE GateInv'
    <3>1. PICK l \in {"acquired", "gaveUp"} :
            pc[s] = "acquire" /\ pc' = [pc EXCEPT ![s] = l] /\ (l = "acquired" => SlotFree)
      BY <2>5, Zenon DEF Acquire, SpawnGoto
    <3>2. Moved(s, l)
      BY <2>0, <3>1, ZenonT(40) DEF Labels
    <3>3. Cardinality(Holders) = Size(Spawns, pc, Admitted)
      BY DEF Holders, Size, At, Admitted, Inside
    <3> QED
      BY <2>5, <3>1, <3>2, <3>3, Sizes DEF Acquire, SlotFree, In, Queued, PastCheck, Admitted, Inside
  <2>6. ASSUME NEW s \in Spawns, UNCHANGED queue,
               Lock(s) \/ StartFails(s) \/ Put(s) \/ ReturnProcess(s) \/ \E p \in Pids : Start(s, p)
        PROVE  GateInv'
    <3>1. PICK l \in {"start", "put", "release", "cancelled", "error", "ok"} :
            pc[s] \in Inside /\ pc' = [pc EXCEPT ![s] = l]
      BY <2>6 DEF Lock, StartFails, Put, ReturnProcess, Start, SpawnGoto, Inside
    <3>2. Moved(s, l)
      <4>1. l \in Labels
        BY DEF Labels
      <4> QED
        BY <2>0, <3>1, <4>1, Zenon
    <3> QED
      BY <2>6, <3>1, <3>2, Sizes DEF In, Queued, PastCheck, Admitted, Inside
  <2>7. ASSUME NEW s \in Spawns, ReturnEAGAIN(s) \/ Dequeue(s) PROVE GateInv'
    <3>1. PICK l \in {"EAGAIN", "lock", "cancelled"} :
            /\ pc[s] \in {"refused", "acquired", "gaveUp"} /\ (l = "lock" <=> pc[s] = "acquired")
            /\ pc' = [pc EXCEPT ![s] = l] /\ queue' = queue - 1
      BY <2>7 DEF ReturnEAGAIN, Dequeue, SpawnGoto
    <3>2. Moved(s, l)
      <4>1. l \in Labels
        BY DEF Labels
      <4> QED
        BY <2>0, <3>1, <4>1, Zenon
    <3> QED
      BY <3>1, <3>2, Sizes DEF In, Queued, PastCheck, Admitted, Inside
  <2>8. ASSUME NEW s \in Spawns, Spawn(s) PROVE GateInv'
    BY <2>2, <2>3, <2>4, <2>5, <2>6, <2>7, <2>8, Zenon
       DEF Spawn, Lock, StartFails, Put, ReturnProcess, Start
  <2>9. ASSUME NEW s \in Spawns, Cancel(s) \/ Kill(s) \/ WorkerExits(s) PROVE GateInv'
    BY <2>1, <2>9 DEF Cancel, Kill, WorkerExits, spawnVars
  <2>10. ASSUME sigchldHandler \/ Close PROVE GateInv'
    BY <2>1, <2>10 DEF sigchldHandler, Notify, Receive, HandlerLock, WaitEmpty, Reap,
                      HandlerExits, Wait4, Close, spawnVars
  <2>11. ASSUME NEW p \in Pids, ForeignFork(p) \/ ForeignExit(p) PROVE GateInv'
    BY <2>1, <2>11 DEF ForeignFork, ForeignExit, spawnVars
  <2>12. ASSUME UNCHANGED vars PROVE GateInv'
    BY <2>1, <2>12 DEF vars, spawnVars
  <2> QED
    BY <2>8, <2>9, <2>10, <2>11, <2>12 DEF Next
<1> QED
  BY <1>1, <1>2, PTL DEF Spec

\* spawningQueueSize counts the calls in the queue on every way out of Spawn,
\* and the queue and the semaphore keep their bounds, although a call counts
\* itself and looks at the counter in two steps.
THEOREM GateIsExact == Spec => []GateExact
<1>1. GateInv => GateExact
  <2>1. /\ Counted = At(Spawns, pc, Queued) /\ Holders = At(Spawns, pc, Admitted)
        /\ {s \in Spawns : pc[s] \in {"acquire", "acquired", "gaveUp"}} = At(Spawns, pc, PastCheck)
    BY DEF Counted, Holders, At, Queued, PastCheck, Admitted, Inside
  <2> QED
    BY <2>1 DEF GateInv, GateExact, Size
<1> QED
  BY <1>1, GateInvariance, PTL

\* The instance counts as the library does.
LEMMA SameCardinality == \A X : Gate!Cardinality(X) = Cardinality(X)
  BY DEF Gate!Cardinality, Cardinality, Gate!IsFiniteSet, IsFiniteSet

\* The labels of the gate.
LEMMA Labelled ==
  /\ GateLabel("idle") = "out" /\ GateLabel("count") = "asking" /\ GateLabel("acquire") = "waiting"
  /\ GateLabel("refused") = "leaving" /\ GateLabel("gaveUp") = "leaving" /\ GateLabel("acquired") = "entering"
  /\ \A l \in Inside : GateLabel(l) = "inside"
  /\ \A l \in {"EAGAIN", "cancelled", "error", "ok"} : GateLabel(l) = "gone"
  BY DEF GateLabel, Inside

\* The gate counts the Spawns the counter and the semaphore count.
LEMMA GateCounts ==
  ASSUME GateInv
  PROVE  /\ Gate!Standing = queue
         /\ Gate!Cardinality(Gate!At({"entering", "inside"})) = Cardinality(Holders)
  <1>1. \A s \in Spawns : GatePlace[s] \in {"asking", "waiting", "entering", "leaving"} <=> pc[s] \in Queued
    BY Labelled DEF GateInv, GatePlace, Labels, Queued, Inside
  <1>2. \A s \in Spawns : GatePlace[s] \in {"entering", "inside"} <=> pc[s] \in Admitted
    BY Labelled DEF GateInv, GatePlace, Labels, Admitted, Inside
  <1>3. /\ Gate!At({"asking", "waiting", "entering", "leaving"}) = At(Spawns, pc, Queued)
        /\ Gate!At({"entering", "inside"}) = At(Spawns, pc, Admitted)
    BY <1>1, <1>2, Zenon DEF Gate!At, At
  <1>4. Holders = At(Spawns, pc, Admitted)
    BY DEF Holders, At, Admitted, Inside
  <1> QED
    BY <1>3, <1>4, Sizes, SameCardinality DEF Gate!Standing, GateInv, Size

\* A Spawn that moves moves at the gate.
LEMMA GateGo ==
  ASSUME GateInv, NEW s \in Spawns, NEW l, pc' = [pc EXCEPT ![s] = l]
  PROVE  Gate!Go(s, GateLabel(pc[s]), GateLabel(l))
  BY Zenon DEF GateInv, Gate!Go, GatePlace

\* Every step of the box is a step of the gate or none.
LEMMA GateStep ==
  ASSUME GateInv, [Next]_vars
  PROVE  [Gate!Next]_(Gate!vars)
  <1>1. ASSUME UNCHANGED pc PROVE UNCHANGED Gate!vars
    BY <1>1 DEF Gate!vars, GatePlace
  <1>2. ASSUME NEW s \in Spawns, Enqueue(s) PROVE Gate!Ask(s)
    BY <1>2, GateGo, Labelled, Zenon DEF Enqueue, SpawnGoto, Gate!Ask
  <1>3. ASSUME NEW s \in Spawns, Refuse(s) PROVE Gate!Refuse(s)
    <2>1. Gate!Go(s, "asking", "leaving")
      BY <1>3, GateGo, Labelled, Zenon DEF Refuse, SpawnGoto
    <2> QED
      BY <1>3, <2>1, GateCounts DEF Refuse, QueueFull, Gate!Refuse
  <1>4. ASSUME NEW s \in Spawns, Accept(s) PROVE Gate!Admit(s)
    <2>1. Gate!Go(s, "asking", "waiting")
      BY <1>4, GateGo, Labelled, Zenon DEF Accept, SpawnGoto
    <2>2. queue \in Nat
      BY Sizes DEF GateInv
    <2> QED
      BY <1>4, <2>1, <2>2, GateCounts, ProcessBoxAssumption DEF Accept, QueueFull, Gate!Admit
  <1>5. ASSUME NEW s \in Spawns, Acquire(s) PROVE Gate!Enter(s) \/ Gate!GiveUp(s)
    <2>1. CASE SlotFree /\ SpawnGoto(s, "acquired")
      <3>0. pc[s] = "acquire" /\ pc' = [pc EXCEPT ![s] = "acquired"]
        BY <1>5, <2>1, Zenon DEF Acquire, SpawnGoto
      <3>1. Gate!Go(s, "waiting", "entering")
        BY <3>0, GateGo, Labelled, Zenon
      <3> QED
        BY <2>1, <3>1, GateCounts DEF SlotFree, Gate!Enter
    <2>2. CASE SpawnGoto(s, "gaveUp")
      <3>1. Gate!Go(s, "waiting", "leaving")
        BY <1>5, <2>2, GateGo, Labelled, Zenon DEF Acquire, SpawnGoto
      <3> QED
        BY <3>1 DEF Gate!GiveUp
    <2> QED
      BY <1>5, <2>1, <2>2 DEF Acquire
  <1>6. ASSUME NEW s \in Spawns, ReturnEAGAIN(s) \/ Dequeue(s) PROVE Gate!Pass(s) \/ Gate!Leave(s)
    <2>1. CASE pc[s] \in {"refused", "gaveUp"}
      <3>1. PICK l \in {"EAGAIN", "cancelled"} : SpawnGoto(s, l)
        BY <1>6, <2>1 DEF ReturnEAGAIN, Dequeue
      <3>2. Gate!Go(s, "leaving", "gone")
        BY <2>1, <3>1, GateGo, Labelled, Zenon DEF SpawnGoto
      <3> QED
        BY <3>2 DEF Gate!Leave
    <2>2. CASE pc[s] = "acquired"
      <3>1. SpawnGoto(s, "lock")
        BY <1>6, <2>2 DEF ReturnEAGAIN, Dequeue
      <3>2. Gate!Go(s, "entering", "inside")
        BY <2>2, <3>1, GateGo, Labelled, Zenon DEF SpawnGoto, Inside
      <3> QED
        BY <3>2 DEF Gate!Pass
    <2> QED
      BY <1>6, <2>1, <2>2 DEF ReturnEAGAIN, Dequeue
  <1>7. ASSUME NEW s \in Spawns, NEW l \in Inside, pc[s] \in Inside, SpawnGoto(s, l)
        PROVE  UNCHANGED Gate!vars
    <2>1. Gate!Go(s, "inside", "inside")
      BY <1>7, GateGo, Labelled, Zenon DEF SpawnGoto
    <2> QED
      BY <2>1, Zenon DEF Gate!Go, Gate!vars, GatePlace
  <1>8. ASSUME NEW s \in Spawns, NEW l \in {"cancelled", "error", "ok"}, pc[s] \in Inside, SpawnGoto(s, l)
        PROVE  Gate!Leave(s)
    <2>1. Gate!Go(s, "inside", "gone")
      BY <1>8, GateGo, Labelled, Zenon DEF SpawnGoto
    <2> QED
      BY <2>1 DEF Gate!Leave
  <1>9. ASSUME NEW s \in Spawns,
               Lock(s) \/ StartFails(s) \/ Put(s) \/ ReturnProcess(s) \/ \E p \in Pids : Start(s, p)
        PROVE  UNCHANGED Gate!vars \/ Gate!Leave(s)
    <2>1. /\ pc[s] \in Inside
          /\ \E l \in Inside \cup {"cancelled", "error", "ok"} : SpawnGoto(s, l)
      BY <1>9 DEF Lock, StartFails, Put, ReturnProcess, Start, Inside
    <2> QED
      BY <1>7, <1>8, <2>1
  <1>10. ASSUME \/ sigchldHandler \/ Close \/ UNCHANGED vars
                \/ \E s \in Spawns : Cancel(s) \/ Kill(s) \/ WorkerExits(s)
                \/ \E p \in Pids : ForeignFork(p) \/ ForeignExit(p)
         PROVE  UNCHANGED pc
    BY <1>10 DEF sigchldHandler, Notify, Receive, HandlerLock, WaitEmpty, Reap, HandlerExits, Wait4, Close,
                vars, spawnVars, Cancel, Kill, WorkerExits, ForeignFork, ForeignExit
  <1>11. ASSUME NEW s \in Spawns, Spawn(s) PROVE Gate!Next \/ UNCHANGED Gate!vars
    BY <1>2, <1>3, <1>4, <1>5, <1>6, <1>9, <1>11, Zenon DEF Spawn, Gate!Next
  <1> QED
    BY <1>1, <1>10, <1>11, Zenon DEF Next

\* The process box implements the gate, and loses no place: whatever calls fail
\* or are cancelled, EAGAIN is the answer only while more than QueueMax Spawns
\* are between Inc and Dec.
THEOREM ImplementsGate == Spec => RefinesGate
  <1>1. Init => Gate!Init
    BY Labelled DEF Init, Gate!Init, GatePlace
  <1>2. GateInv /\ [Next]_vars => [Gate!Next]_(Gate!vars)
    BY GateStep
  <1> QED
    BY <1>1, <1>2, GateInvariance, PTL DEF Spec, RefinesGate, Gate!Spec

\* The box stays well typed; in particular its counter never wraps below zero.
THEOREM TypeCorrect == Spec => []TypeOK
<1> DEFINE Rest == /\ ctxDone \in [Spawns -> BOOLEAN]
                   /\ sigchld \in BOOLEAN /\ closed \in BOOLEAN /\ foreign \subseteq Pids
<1>1. Init => Rest
  BY Zenon DEF Init
<1>2. Rest /\ [Next]_vars => Rest'
  <2> SUFFICES ASSUME Rest, [Next]_vars PROVE Rest'
    OBVIOUS
  <2>1. ctxDone' \in [Spawns -> BOOLEAN]
    <3>1. CASE \E s \in Spawns : Cancel(s)
      BY <3>1 DEF Cancel
    <3>2. CASE UNCHANGED ctxDone
      BY <3>2
    <3> QED
      BY <3>1, <3>2, Zenon
         DEF Next, vars, spawnVars, sigchldHandler, Spawn, Enqueue, Refuse, ReturnEAGAIN, Accept,
             Acquire, Dequeue, Lock, StartFails, Put, ReturnProcess, Start, Kill, WorkerExits,
             Notify, Receive, HandlerLock, WaitEmpty, HandlerExits, Wait4, Reap, Close,
           ForeignFork, ForeignExit
  <2>2. closed' \in BOOLEAN
    BY Zenon DEF Next, vars, handlerVars, sigchldHandler, Spawn, Enqueue, Refuse, ReturnEAGAIN, Accept,
           Acquire, Dequeue, Lock, StartFails, Put, ReturnProcess, Start, Cancel, Kill, WorkerExits,
           Notify, Receive, HandlerLock, WaitEmpty, HandlerExits, Wait4, Reap, Close,
           ForeignFork, ForeignExit
  <2>3. sigchld' \in BOOLEAN
    BY ZenonT(40) DEF Next, vars, handlerVars, sigchldHandler, Spawn, Enqueue, Refuse, ReturnEAGAIN, Accept,
           Acquire, Dequeue, Lock, StartFails, Put, ReturnProcess, Start, Cancel, Kill, WorkerExits,
           Dies, Signal, KillPg, Notify, Receive, HandlerLock, WaitEmpty, HandlerExits, Wait4, Reap, Close,
           ForeignFork, ForeignExit
  <2>4. foreign' \subseteq Pids
    BY Zenon DEF Next, vars, kernelVars, sigchldHandler, Spawn, Enqueue, Refuse, ReturnEAGAIN, Accept,
           Acquire, Dequeue, Lock, StartFails, Put, ReturnProcess, Start, Cancel, Kill, WorkerExits,
           Dies, KillPg, Notify, Receive, HandlerLock, WaitEmpty, HandlerExits, Wait4, Reap, Close,
           ForeignFork, ForeignExit
  <2> QED
    BY <2>1, <2>2, <2>3, <2>4
<1>3. IInv /\ GateInv /\ Rest => TypeOK
  <2>1. GateInv => queue \in Nat
    BY Sizes DEF GateInv
  <2> QED
    BY <2>1 DEF IInv, TypeInv, TypeOK
<1> HIDE DEF Rest
<1> QED
  BY <1>1, <1>2, <1>3, Invariance, GateInvariance, PTL DEF Spec

-----------------------------------------------------------------------------
(* No death goes unnoticed.                                                *)

\* While the box is open, a zombie whose signal was not dropped has a signal in
\* the channel, or the handler is about to ask the kernel for it: merging
\* signals in a channel of capacity one loses none.  This is what the liveness
\* property ZombiesReaped rests on.
ZombieSeen ==
  \A s \in Spawns :
    wstate[s] = "zombie" /\ ~missed[s] => closed \/ sigchld \/ hpc \in {"lock", "wait", "reap"}

SeenInv == ZombieSeen /\ (hpc = "exit" => closed)

\* The death of a worker.
LEMMA DeathSeen ==
  ASSUME TypeOK, SeenInv, NEW s \in Spawns, Dies(s), hpc' = hpc, closed' = closed
  PROVE  SeenInv'
  <1>1. wstate' = [wstate EXCEPT ![s] = "zombie"] /\ missed' = [missed EXCEPT ![s] = (hpc = "notify")]
    BY DEF Dies
  <1>2. sigchld => sigchld'
    BY Zenon DEF Dies, Signal
  <1>3. hpc # "notify" => sigchld'
    BY Zenon DEF Dies, Signal
  <1>4. ASSUME NEW t \in Spawns, t # s PROVE wstate'[t] = wstate[t] /\ missed'[t] = missed[t]
    BY <1>1, <1>4 DEF TypeOK
  <1>5. hpc = "notify" => missed'[s]
    BY <1>1, Zenon DEF TypeOK
  <1>6. ASSUME NEW t \in Spawns, wstate'[t] = "zombie", ~missed'[t]
        PROVE  closed' \/ sigchld' \/ hpc' \in {"lock", "wait", "reap"}
    <2>1. CASE t = s
      BY <1>3, <1>5, <1>6, <2>1
    <2>2. CASE t # s
      <3>1. wstate[t] = "zombie" /\ ~missed[t]
        BY <1>4, <1>6, <2>2
      <3>2. closed \/ sigchld \/ hpc \in {"lock", "wait", "reap"}
        BY <3>1 DEF SeenInv, ZombieSeen
      <3> QED
        BY <1>2, <3>2
    <2> QED
      BY <2>1, <2>2
  <1> QED
    BY <1>6 DEF SeenInv, ZombieSeen

\* A step that makes no zombie, takes no signal and leaves the handler alone.
LEMMA NothingDies ==
  ASSUME TypeOK, SeenInv, UNCHANGED missed, hpc' = hpc,
         \A s \in Spawns : wstate'[s] = "zombie" => wstate[s] = "zombie",
         sigchld => sigchld', closed => closed'
  PROVE  SeenInv'
  BY DEF SeenInv, ZombieSeen

\* The kill of a group.
LEMMA KillSeen ==
  ASSUME TypeOK, SeenInv, NEW p, KillPg(p), hpc' = hpc, closed' = closed
  PROVE  SeenInv'
  <1>1. CASE Running(p) = {}
    BY <1>1, NothingDies DEF KillPg
  <1>2. CASE \E t \in Running(p) : Dies(t)
    BY <1>2, DeathSeen DEF Running
  <1> QED
    BY <1>1, <1>2 DEF KillPg

\* While the box is open, no dead worker is forgotten by the SIGCHLD handler.
THEOREM NoLostSignal == Spec => []ZombieSeen
  <1>1. Init => SeenInv
    BY DEF Init, SeenInv, ZombieSeen
  <1>2. TypeOK /\ SeenInv /\ [Next]_vars => SeenInv'
    <2> SUFFICES ASSUME TypeOK, SeenInv, [Next]_vars PROVE SeenInv'
      OBVIOUS
    <2> USE DEF handlerVars, kernelVars
    <2>1. ASSUME NEW s \in Spawns, Spawn(s) PROVE SeenInv'
      <3>1. UNCHANGED <<missed, hpc, closed>>
        BY <2>1, Zenon DEF Spawn, Enqueue, Refuse, ReturnEAGAIN, Accept, Acquire, Dequeue, Lock,
                             StartFails, Put, ReturnProcess, Start
      <3>2. sigchld => sigchld'
        BY <2>1, Zenon DEF Spawn, Enqueue, Refuse, ReturnEAGAIN, Accept, Acquire, Dequeue, Lock,
                             StartFails, Signal, Put, ReturnProcess, Start
      <3>3. \A t \in Spawns : wstate'[t] = "zombie" => wstate[t] = "zombie"
        BY <2>1 DEF Spawn, Enqueue, Refuse, ReturnEAGAIN, Accept, Acquire, Dequeue, Lock,
                      StartFails, Put, ReturnProcess, Start, TypeOK
      <3> QED
        BY <3>1, <3>2, <3>3, NothingDies, Zenon
    <2>2. ASSUME NEW s \in Spawns, Cancel(s) PROVE SeenInv'
      BY <2>2, NothingDies DEF Cancel
    <2>3. ASSUME NEW s \in Spawns, Kill(s) PROVE SeenInv'
      BY <2>3, KillSeen DEF Kill
    <2>4. ASSUME NEW s \in Spawns, WorkerExits(s) PROVE SeenInv'
      BY <2>4, DeathSeen DEF WorkerExits
    <2>5. ASSUME NEW p \in Pids, ForeignFork(p) \/ ForeignExit(p) PROVE SeenInv'
      BY <2>5, NothingDies DEF ForeignFork, ForeignExit
    <2>6. ASSUME Close PROVE SeenInv'
      <3>1. closed'
        BY <2>6, Zenon DEF Close
      <3> QED
        BY <3>1 DEF SeenInv, ZombieSeen
    <2>7. ASSUME Notify PROVE SeenInv'
      BY <2>7 DEF Notify, SeenInv, ZombieSeen
    <2>8. ASSUME Receive \/ HandlerLock PROVE SeenInv'
      <3>1. hpc' \in {"lock", "wait"} 
        BY <2>8 DEF Receive, HandlerLock
      <3> QED
        BY <3>1 DEF SeenInv, ZombieSeen
    <2>9. ASSUME NEW s \in Spawns, Wait4(s) PROVE SeenInv'
      <3>1. hpc' = "reap"
        BY <2>9 DEF Wait4
      <3> QED
        BY <3>1 DEF SeenInv, ZombieSeen
    <2>10. ASSUME WaitEmpty PROVE SeenInv'
      BY <2>10 DEF WaitEmpty, SeenInv, ZombieSeen
    <2>11. ASSUME Reap PROVE SeenInv'
      <3>1. hpc' = "wait"
        BY <2>11 DEF Reap
      <3> QED
        BY <3>1 DEF SeenInv, ZombieSeen
    <2>12. ASSUME HandlerExits PROVE SeenInv'
      <3>1. closed'
        BY <2>12, Zenon DEF HandlerExits
      <3> QED
        BY <3>1 DEF SeenInv, ZombieSeen
    <2>13. ASSUME UNCHANGED vars PROVE SeenInv'
      BY <2>13 DEF vars, SeenInv, ZombieSeen
    <2> QED
      BY <2>1, <2>2, <2>3, <2>4, <2>5, <2>6, <2>7, <2>8, <2>9, <2>10, <2>11, <2>12, <2>13
         DEF Next, sigchldHandler
  <1>3. SeenInv => ZombieSeen
    BY DEF SeenInv
  <1> QED
    BY <1>1, <1>2, <1>3, TypeCorrect, PTL DEF Spec

-----------------------------------------------------------------------------
(* Nobody waits for nothing.                                               *)

SpawnUnderWay(s) == pc[s] \in Queued \union Admitted

\* The call is at a step it can take now: it waits neither for a slot nor for
\* the lock.
CanGoOn(s) ==
  \/ pc[s] \in {"count", "refused", "acquired", "gaveUp", "start", "put", "release"}
  \/ pc[s] = "lock" /\ mu = None
  \/ pc[s] = "acquire" /\ (SlotFree \/ ctxDone[s])

\* The calls of Spawn and the handler never all wait for each other: while a
\* Spawn is under way, some Spawn can go on or the handler is between Lock and
\* Unlock; and who waits for the lock waits for somebody who is not waiting.
\* This is what the liveness properties SpawnReturns and ZombiesReaped rest on.
NotAllWaiting ==
  /\ (\E s \in Spawns : SpawnUnderWay(s)) =>
       (\E s \in Spawns : CanGoOn(s)) \/ hpc \in {"wait", "reap"}
  /\ mu # None =>
       (\E s \in Spawns : mu = s /\ CanGoOn(s)) \/ (mu = Handler /\ hpc \in {"wait", "reap"})

\* Who holds the lock is between Lock and Unlock: no way out of Spawn or of
\* the handler keeps it.
HolderInv ==
  /\ mu \in Spawns => pc[mu] \in {"start", "put"}
  /\ mu = Handler => hpc \in {"wait", "reap"}

\* A step that leaves the lock and its holder alone.
LEMMA HolderFrame ==
  ASSUME TypeInv, HolderInv, mu' = mu, hpc' = hpc,
         \A t \in Spawns : pc[t] \in {"start", "put"} => pc'[t] \in {"start", "put"}
  PROVE  HolderInv'
  BY DEF HolderInv, TypeInv

\* The steps that take the lock are those that go on to where it is held, and
\* every step that leaves from there gives it back.
LEMMA HolderStep ==
  ASSUME IInv, HolderInv, [Next]_vars
  PROVE  HolderInv'
  <1> USE DEF spawnVars, handlerVars, kernelVars, SpawnGoto
  <1>t. TypeInv /\ LockInv
    BY DEF IInv
  <1>n. None \notin Spawns /\ None # Handler /\ Handler \notin Spawns
    BY ProcessBoxAssumption
  <1>1. ASSUME NEW s \in Spawns,
               \/ Enqueue(s) \/ Refuse(s) \/ ReturnEAGAIN(s) \/ Accept(s)
               \/ Acquire(s) \/ Dequeue(s) \/ ReturnProcess(s)
        PROVE  HolderInv'
    <2>1. mu' = mu /\ hpc' = hpc /\ pc[s] \notin {"start", "put"} /\ \E l : pc' = [pc EXCEPT ![s] = l]
      BY <1>1, Zenon DEF Enqueue, Refuse, ReturnEAGAIN, Accept, Acquire, Dequeue, ReturnProcess
    <2>2. \A t \in Spawns : pc[t] \in {"start", "put"} => pc'[t] \in {"start", "put"}
      BY <2>1, <1>t DEF TypeInv
    <2> QED
      BY <2>1, <2>2, <1>t, HolderFrame, Zenon
  <1>2. ASSUME NEW s \in Spawns, Lock(s) PROVE HolderInv'
    <2>1. hpc' = hpc /\ mu = None /\ pc[s] = "lock"
      BY <1>2 DEF Lock
    <2>2. CASE ctxDone[s]
      <3>1. mu' = mu
        BY <1>2, <2>2 DEF Lock
      <3> QED
        BY <2>1, <3>1, <1>n DEF HolderInv
    <2>3. CASE ~ctxDone[s]
      <3>1. mu' = s /\ pc' = [pc EXCEPT ![s] = "start"]
        BY <1>2, <2>3 DEF Lock
      <3> QED
        BY <3>1, <1>t, <1>n DEF HolderInv, TypeInv
    <2> QED
      BY <2>2, <2>3
  <1>3. ASSUME NEW s \in Spawns, NEW p \in Pids, Start(s, p) PROVE HolderInv'
    <2>1. mu' = mu /\ hpc' = hpc /\ pc' = [pc EXCEPT ![s] = "put"]
      BY <1>3 DEF Start
    <2>2. \A t \in Spawns : pc[t] \in {"start", "put"} => pc'[t] \in {"start", "put"}
      BY <2>1, <1>t DEF TypeInv
    <2> QED
      BY <2>1, <2>2, <1>t, HolderFrame
  <1>4. ASSUME NEW s \in Spawns, StartFails(s) \/ Put(s) PROVE HolderInv'
    BY <1>4, <1>n DEF StartFails, Put, HolderInv
  <1>5. ASSUME NEW s \in Spawns, Cancel(s) \/ Kill(s) \/ WorkerExits(s) PROVE HolderInv'
    <2>1. mu' = mu /\ hpc' = hpc /\ pc' = pc
      BY <1>5, Zenon DEF Cancel, Kill, WorkerExits
    <2> QED
      BY <2>1, <1>t, HolderFrame
  <1>6. ASSUME NEW p \in Pids, ForeignFork(p) \/ ForeignExit(p) PROVE HolderInv'
    <2>1. mu' = mu /\ hpc' = hpc /\ pc' = pc
      BY <1>6, Zenon DEF ForeignFork, ForeignExit
    <2> QED
      BY <2>1, <1>t, HolderFrame
  <1>7. ASSUME Close \/ UNCHANGED vars PROVE HolderInv'
    <2>1. mu' = mu /\ hpc' = hpc /\ pc' = pc
      BY <1>7, Zenon DEF Close, vars
    <2> QED
      BY <2>1, <1>t, HolderFrame
  <1>8. ASSUME Notify \/ Receive \/ HandlerExits PROVE HolderInv'
    <2>1. mu' = mu /\ pc' = pc /\ hpc \notin {"wait", "reap"}
      BY <1>8 DEF Notify, Receive, HandlerExits
    <2> QED
      BY <2>1 DEF HolderInv
  <1>9. ASSUME HandlerLock PROVE HolderInv'
    BY <1>9, <1>n DEF HandlerLock, HolderInv
  <1>10. ASSUME WaitEmpty PROVE HolderInv'
    BY <1>10, <1>n DEF WaitEmpty, HolderInv
  <1>11. ASSUME Reap \/ \E s \in Spawns : Wait4(s) PROVE HolderInv'
    <2>1. mu' = mu /\ pc' = pc /\ hpc' \in {"wait", "reap"}
      BY <1>11, Zenon DEF Reap, Wait4
    <2> QED
      BY <2>1 DEF HolderInv
  <1> QED
    BY <1>1, <1>2, <1>3, <1>4, <1>5, <1>6, <1>7, <1>8, <1>9, <1>10, <1>11 DEF Next, Spawn, sigchldHandler

\* Where every slot is taken, somebody has one.
LEMMA SlotHolder ==
  ASSUME GateInv, ~SlotFree
  PROVE  \E s \in Spawns : pc[s] \in Admitted
  <1>1. Holders = At(Spawns, pc, Admitted)
    BY DEF Holders, At, Admitted, Inside
  <1>2. ASSUME \A s \in Spawns : pc[s] \notin Admitted PROVE FALSE
    <2>1. Cardinality(Holders) = 0
      BY <1>1, <1>2, SizeZero DEF Size
    <2> QED
      BY <2>1, ProcessBoxAssumption DEF SlotFree
  <1> QED
    BY <1>2

\* Spawns and the handler never all wait for each other, with any number of
\* calls, any length of the queue and any size of the semaphore.
THEOREM NobodyStuck == Spec => []NotAllWaiting
  <1>1. Init => HolderInv
    BY ProcessBoxAssumption DEF Init, HolderInv
  <1>2. IInv /\ HolderInv /\ [Next]_vars => HolderInv'
    BY HolderStep
  <1>3. IInv /\ HolderInv /\ GateInv => NotAllWaiting
    <2> SUFFICES ASSUME IInv, HolderInv, GateInv PROVE NotAllWaiting
      OBVIOUS
    <2>t. mu \in Spawns \union {Handler, None} /\ pc \in [Spawns -> Labels]
      BY DEF IInv, TypeInv, GateInv
    <2>1. mu # None =>
            (\E s \in Spawns : mu = s /\ CanGoOn(s)) \/ (mu = Handler /\ hpc \in {"wait", "reap"})
      BY <2>t DEF HolderInv, CanGoOn
    <2>2. ASSUME NEW s \in Spawns, pc[s] \in Admitted
          PROVE  (\E t \in Spawns : CanGoOn(t)) \/ hpc \in {"wait", "reap"}
      BY <2>1, <2>2 DEF CanGoOn, Admitted, Inside
    <2>3. ASSUME NEW s \in Spawns, pc[s] \in Queued
          PROVE  (\E t \in Spawns : CanGoOn(t)) \/ hpc \in {"wait", "reap"}
      <3>1. CASE CanGoOn(s)
        BY <3>1
      <3>2. CASE ~CanGoOn(s)
        <4>1. ~SlotFree
          BY <2>3, <3>2 DEF CanGoOn, Queued
        <4> QED
          BY <4>1, <2>2, SlotHolder
      <3> QED
        BY <3>1, <3>2
    <2> QED
      BY <2>1, <2>2, <2>3 DEF NotAllWaiting, SpawnUnderWay
  <1> QED
    BY <1>1, <1>2, <1>3, Invariance, GateInvariance, PTL DEF Spec
=============================================================================
