----------------------------- MODULE ProcessBox -----------------------------
(***************************************************************************)
(* The process box: concurrent Spawn calls that go through the spawning    *)
(* queue and the semaphore, the map of children guarded by Box.mu, and     *)
(* the SIGCHLD handler that reaps the workers.  The kernel (fork, exit,    *)
(* SIGCHLD, Wait4, process ids that are recycled once they are reaped) is  *)
(* external and modelled by what the code relies on.                       *)
(***************************************************************************)
EXTENDS Naturals, FiniteSets

CONSTANTS Spawns,    \* the Spawn calls, each for one worker
          Pids,      \* the process ids of the machine
          QueueMax,  \* how many calls may wait to spawn (10 in the code)
          SmSize,    \* the size of the spawn semaphore (10 in the code)
          None

Handler == "handler"

ASSUME ProcessBoxAssumption ==
  /\ QueueMax \in Nat /\ SmSize \in Nat \ {0}
  /\ None \notin Spawns \union Pids \union {Handler} /\ Handler \notin Spawns
  /\ IsFiniteSet(Spawns)

VARIABLES
  pc,        \* Spawn call -> where it is
  ctxDone,   \* Spawn call -> its context is cancelled
  queue,     \* spawningQueueSize
  mu,        \* who holds Box.mu, or None
  children,  \* Box.children: pid -> the Spawn call whose worker it is, or None
  sigchld,   \* a signal is in the channel of sigchldHandler
  hpc,       \* where sigchldHandler is
  hpid,      \* the pid Wait4 returned to it
  closed,    \* Box.ctx is cancelled
  wpid,      \* Spawn call -> pid of its worker
  wstate,    \* Spawn call -> what the kernel knows of its worker
  missed,    \* Spawn call -> its worker died before signal.Notify
  foreign    \* pids in use by processes stout did not start

spawnVars  == <<pc, ctxDone, queue>>
handlerVars == <<sigchld, hpc, hpid, closed>>
kernelVars == <<wpid, wstate, missed, foreign>>
vars == <<spawnVars, mu, children, handlerVars, kernelVars>>

-----------------------------------------------------------------------------
(* The kernel                                                              *)

Unreaped(s) == wstate[s] \in {"running", "zombie"}
FreePid(p)  == p \notin foreign /\ \A s \in Spawns : wpid[s] = p => ~Unreaped(s)
Running(p)  == {s \in Spawns : wpid[s] = p /\ wstate[s] = "running"}

\* SIGCHLD: the runtime does a non-blocking send into a channel of capacity
\* one, so signals merge; before signal.Notify the signal is dropped.  A
\* signal the kernel or the runtime has not delivered yet counts as sent.
Signal == sigchld' = (sigchld \/ hpc # "notify")

\* A worker becomes a zombie.
Dies(s) ==
  /\ wstate' = [wstate EXCEPT ![s] = "zombie"]
  /\ missed' = [missed EXCEPT ![s] = hpc = "notify"]
  /\ Signal

WorkerExits(s) ==
  /\ wstate[s] = "running"
  /\ Dies(s)
  /\ UNCHANGED <<spawnVars, mu, children, hpc, hpid, closed, wpid, foreign>>

\* Other programs on the machine take and give back process ids.
ForeignFork(p) ==
  /\ FreePid(p)
  /\ foreign' = foreign \union {p}
  /\ UNCHANGED <<spawnVars, mu, children, handlerVars, wpid, wstate, missed>>

ForeignExit(p) ==
  /\ p \in foreign
  /\ foreign' = foreign \ {p}
  /\ UNCHANGED <<spawnVars, mu, children, handlerVars, wpid, wstate, missed>>

\* killPg(p): SIGKILL to the group p is today, whoever leads it.
KillPg(p) ==
  /\ foreign' = foreign \ {p}
  /\ IF Running(p) = {} THEN UNCHANGED <<wstate, missed, sigchld>>
     ELSE \E t \in Running(p) : Dies(t)

-----------------------------------------------------------------------------
(* Box.Spawn                                                               *)

SpawnGoto(s, l) == pc' = [pc EXCEPT ![s] = l]

\* Calls that have incremented spawningQueueSize and not decremented it yet.
Counted == {s \in Spawns : pc[s] \in {"count", "refused", "acquire", "acquired", "gaveUp"}}
Holders == {s \in Spawns : pc[s] \in {"acquired", "lock", "start", "put", "release"}}

Cancel(s) ==
  /\ ~ctxDone[s]
  /\ ctxDone' = [ctxDone EXCEPT ![s] = TRUE]
  /\ UNCHANGED <<pc, queue, mu, children, handlerVars, kernelVars>>

Enqueue(s) ==
  /\ pc[s] = "idle"
  /\ queue' = queue + 1
  /\ SpawnGoto(s, "count")
  /\ UNCHANGED <<ctxDone, mu, children, handlerVars, kernelVars>>

\* spawningQueueSize.Count() > 10
QueueFull == queue > QueueMax

\* The call has its answer and still counts: others are refused because of it.
Refuse(s) ==
  /\ pc[s] = "count" /\ QueueFull
  /\ SpawnGoto(s, "refused")
  /\ UNCHANGED <<queue, ctxDone, mu, children, handlerVars, kernelVars>>

\* Mutant: an EAGAIN leaves the counter incremented.
ReturnEAGAINCounted(s) ==
  /\ pc[s] = "refused"
  /\ SpawnGoto(s, "EAGAIN")
  /\ UNCHANGED <<queue, ctxDone, mu, children, handlerVars, kernelVars>>

\* Dec and the return of EAGAIN.
ReturnEAGAIN(s) ==
  /\ pc[s] = "refused"
  /\ queue' = queue - 1
  /\ SpawnGoto(s, "EAGAIN")
  /\ UNCHANGED <<ctxDone, mu, children, handlerVars, kernelVars>>

Accept(s) ==
  /\ pc[s] = "count" /\ ~QueueFull
  /\ SpawnGoto(s, "acquire")
  /\ UNCHANGED <<queue, ctxDone, mu, children, handlerVars, kernelVars>>

SlotFree == Cardinality(Holders) < SmSize

\* spawnSm.Acquire: a slot, or the end of the context.
Acquire(s) ==
  /\ pc[s] = "acquire"
  /\ \/ SlotFree /\ SpawnGoto(s, "acquired")
     \/ ctxDone[s] /\ SpawnGoto(s, "gaveUp")
  /\ UNCHANGED <<queue, ctxDone, mu, children, handlerVars, kernelVars>>

\* Dec in either case.
Dequeue(s) ==
  /\ \/ pc[s] = "acquired" /\ SpawnGoto(s, "lock")
     \/ pc[s] = "gaveUp" /\ SpawnGoto(s, "cancelled")
  /\ queue' = queue - 1
  /\ UNCHANGED <<ctxDone, mu, children, handlerVars, kernelVars>>

\* Mutant: a cancelled call returns without b.mu.Unlock().
LockLeaks(s) ==
  /\ pc[s] = "lock" /\ mu = None
  /\ mu' = s
  /\ SpawnGoto(s, IF ctxDone[s] THEN "cancelled" ELSE "start")
  /\ UNCHANGED <<ctxDone, queue, children, handlerVars, kernelVars>>

\* b.mu.Lock() and the check of the context; Release is deferred.
Lock(s) ==
  /\ pc[s] = "lock" /\ mu = None
  /\ IF ctxDone[s] THEN SpawnGoto(s, "cancelled") /\ UNCHANGED mu
                   ELSE SpawnGoto(s, "start") /\ mu' = s
  /\ UNCHANGED <<ctxDone, queue, children, handlerVars, kernelVars>>

\* Mutant: the lock is released before the child is put into the map.
StartUnlocked(s, p) ==
  /\ pc[s] = "start" /\ FreePid(p)
  /\ wpid' = [wpid EXCEPT ![s] = p]
  /\ wstate' = [wstate EXCEPT ![s] = "running"]
  /\ SpawnGoto(s, "put") /\ mu' = None
  /\ UNCHANGED <<ctxDone, queue, children, handlerVars, missed, foreign>>

\* newProcess: cmd.Start forks a worker with a free pid ...
Start(s, p) ==
  /\ pc[s] = "start" /\ FreePid(p)
  /\ wpid' = [wpid EXCEPT ![s] = p]
  /\ wstate' = [wstate EXCEPT ![s] = "running"]
  /\ SpawnGoto(s, "put")
  /\ UNCHANGED <<ctxDone, queue, mu, children, handlerVars, missed, foreign>>

\* ... or fails, maybe with SIGCHLD for a child exec.Cmd has waited for itself.
StartFails(s) ==
  /\ pc[s] = "start"
  /\ SpawnGoto(s, "error") /\ mu' = None
  /\ Signal \/ UNCHANGED sigchld
  /\ UNCHANGED <<ctxDone, queue, children, hpc, hpid, closed, kernelVars>>

\* children[pid] = ..., mu.Unlock()
Put(s) ==
  /\ pc[s] = "put"
  /\ children' = [children EXCEPT ![wpid[s]] = s]
  /\ SpawnGoto(s, "release") /\ mu' = None
  /\ UNCHANGED <<ctxDone, queue, handlerVars, kernelVars>>

\* NotifyAboutStart, the deferred Release, and the return of the process.
ReturnProcess(s) ==
  /\ pc[s] = "release"
  /\ SpawnGoto(s, "ok")
  /\ UNCHANGED <<ctxDone, queue, mu, children, handlerVars, kernelVars>>

\* process.Kill: killPg of the pid the worker was started with.
Kill(s) ==
  /\ pc[s] = "ok"
  /\ KillPg(wpid[s])
  /\ UNCHANGED <<spawnVars, mu, children, hpc, hpid, closed, wpid>>

-----------------------------------------------------------------------------
(* sigchldHandler and wait                                                 *)

Notify ==
  /\ hpc = "notify"
  /\ hpc' = "select"
  /\ UNCHANGED <<spawnVars, mu, children, sigchld, hpid, closed, kernelVars>>

Receive ==
  /\ hpc = "select" /\ sigchld
  /\ sigchld' = FALSE
  /\ hpc' = "lock"
  /\ UNCHANGED <<spawnVars, mu, children, hpid, closed, kernelVars>>

\* Mutant: wait is called without the lock.
HandlerLockSkipped ==
  /\ hpc = "lock"
  /\ hpc' = "wait"
  /\ UNCHANGED <<spawnVars, mu, children, sigchld, hpid, closed, kernelVars>>

HandlerLock ==
  /\ hpc = "lock" /\ mu = None
  /\ mu' = Handler
  /\ hpc' = "wait"
  /\ UNCHANGED <<spawnVars, children, sigchld, hpid, closed, kernelVars>>

\* Wait4(-1, WNOHANG) returns the pid of a zombie and frees it ...
Wait4(s) ==
  /\ hpc = "wait" /\ wstate[s] = "zombie"
  /\ wstate' = [wstate EXCEPT ![s] = "reaped"]
  /\ hpid' = wpid[s]
  /\ hpc' = "reap"
  /\ UNCHANGED <<spawnVars, mu, children, sigchld, closed, wpid, missed, foreign>>

\* ... or reports that there is none: 0 or ECHILD.
WaitEmpty ==
  /\ hpc = "wait" /\ \A s \in Spawns : wstate[s] # "zombie"
  /\ hpc' = "select" /\ mu' = None
  /\ UNCHANGED <<spawnVars, children, sigchld, hpid, closed, kernelVars>>

\* Mutant: one Wait4 for every signal.
ReapOnce ==
  /\ hpc = "reap"
  /\ children' = [children EXCEPT ![hpid] = None]
  /\ hpc' = "select" /\ mu' = None
  /\ UNCHANGED <<spawnVars, sigchld, hpid, closed, kernelVars>>

\* A pid of the map is deleted, its group killed, and Cmd.Wait called.
Reap ==
  /\ hpc = "reap"
  /\ IF children[hpid] # None
     THEN /\ children' = [children EXCEPT ![hpid] = None]
          /\ KillPg(hpid)
     ELSE UNCHANGED <<children, sigchld, kernelVars>>
  /\ hpc' = "wait"
  /\ UNCHANGED <<spawnVars, mu, hpid, closed, wpid>>

\* The ctx.Done() case, after Close has cancelled the context.
HandlerExits ==
  /\ hpc = "select" /\ closed
  /\ hpc' = "exit"
  /\ UNCHANGED <<spawnVars, mu, children, sigchld, hpid, closed, kernelVars>>

Close ==
  /\ ~closed
  /\ closed' = TRUE
  /\ UNCHANGED <<spawnVars, mu, children, sigchld, hpc, hpid, kernelVars>>

-----------------------------------------------------------------------------
Init ==
  /\ pc = [s \in Spawns |-> "idle"]
  /\ ctxDone = [s \in Spawns |-> FALSE]
  /\ queue = 0
  /\ mu = None
  /\ children = [p \in Pids |-> None]
  /\ sigchld = FALSE /\ hpc = "notify" /\ hpid = None /\ closed = FALSE
  /\ wpid = [s \in Spawns |-> None]
  /\ wstate = [s \in Spawns |-> "none"]
  /\ missed = [s \in Spawns |-> FALSE]
  /\ foreign = {}

Spawn(s) ==
  \/ Enqueue(s) \/ Refuse(s) \/ ReturnEAGAIN(s) \/ Accept(s) \/ Acquire(s) \/ Dequeue(s) \/ Lock(s)
  \/ StartFails(s) \/ Put(s) \/ ReturnProcess(s)
  \/ \E p \in Pids : Start(s, p)

sigchldHandler ==
  \/ Notify \/ Receive \/ HandlerLock \/ WaitEmpty \/ Reap \/ HandlerExits
  \/ \E s \in Spawns : Wait4(s)

Next ==
  \/ sigchldHandler \/ Close
  \/ \E s \in Spawns : Spawn(s) \/ Cancel(s) \/ Kill(s) \/ WorkerExits(s)
  \/ \E p \in Pids : ForeignFork(p) \/ ForeignExit(p)

\* Goroutines that can run do; who waits for the lock or for a slot gets it
\* in the end (sync.Mutex and channels queue their waiters).  Nothing obliges
\* a worker to exit or a client to kill it.
Fairness ==
  /\ WF_vars(sigchldHandler) /\ SF_vars(HandlerLock)
  /\ \A s \in Spawns : WF_vars(Spawn(s)) /\ SF_vars(Acquire(s)) /\ SF_vars(Lock(s))

Spec == Init /\ [][Next]_vars
FairSpec == Spec /\ Fairness

-----------------------------------------------------------------------------
\* The types; the counter of queued Spawns never falls below zero.
TypeOK ==
  /\ pc \in [Spawns -> {"idle", "count", "refused", "acquire", "acquired", "gaveUp", "lock",
                        "start", "put", "release", "EAGAIN", "cancelled", "error", "ok"}]
  /\ ctxDone \in [Spawns -> BOOLEAN]
  /\ queue \in Nat
  /\ mu \in Spawns \union {Handler, None}
  /\ children \in [Pids -> Spawns \union {None}]
  /\ sigchld \in BOOLEAN /\ closed \in BOOLEAN
  /\ hpc \in {"notify", "select", "lock", "wait", "reap", "exit"}
  /\ hpid \in Pids \union {None}
  /\ wpid \in [Spawns -> Pids \union {None}]
  /\ wstate \in [Spawns -> {"none", "running", "zombie", "reaped"}]
  /\ missed \in [Spawns -> BOOLEAN]
  /\ foreign \subseteq Pids

\* The counter of the spawning queue is the number of calls in the queue: no
\* path of Spawn forgets to decrement it, so a refused or cancelled spawn never
\* takes a place for good.  And however the calls interleave between Inc and
\* Count, no more than QueueMax of them get past the check before they leave the
\* queue, and no more than SmSize hold the semaphore.
GateExact ==
  /\ queue = Cardinality(Counted)
  /\ Cardinality({s \in Spawns : pc[s] \in {"acquire", "acquired", "gaveUp"}}) <= QueueMax
  /\ Cardinality(Holders) <= SmSize

\* Where with respect to the gate a Spawn is that is at l.
GateLabel(l) ==
  CASE l = "idle" -> "out"
    [] l = "count" -> "asking"
    [] l \in {"refused", "gaveUp"} -> "leaving"
    [] l = "acquire" -> "waiting"
    [] l = "acquired" -> "entering"
    [] l \in {"lock", "start", "put", "release"} -> "inside"
    [] OTHER -> "gone"

GatePlace == [s \in Spawns |-> GateLabel(pc[s])]

Gate == INSTANCE SpawnGate WITH place <- GatePlace, lost <- 0, crashes <- 0

\* The counter and the semaphore make the gate of SpawnGate, and lose no place:
\* EAGAIN is the answer only while more than QueueMax Spawns are counted, those
\* included that have their answer or their slot and have yet to call Dec.
RefinesGate == Gate!Spec

\* The map and the kernel agree although pids are recycled: an entry belongs
\* to the worker that has the pid now, or has just been reaped by the handler
\* that is about to delete it; and every worker that Wait4 has not returned
\* is in the map, unless its Spawn call is still holding the lock.  So wait()
\* closes the descriptors of the right worker, and of every worker.
ChildrenAccurate ==
  /\ \A p \in Pids : children[p] # None =>
       /\ wpid[children[p]] = p
       /\ Unreaped(children[p]) \/ (hpc = "reap" /\ hpid = p)
  /\ \A s \in Spawns :
       Unreaped(s) => children[wpid[s]] = s \/ (pc[s] = "put" /\ mu = s)

\* Every worker that dies after signal.Notify is reaped and leaves the map,
\* unless the box is closed.
ZombiesReaped ==
  \A s \in Spawns :
    wstate[s] = "zombie" /\ ~missed[s] ~> closed \/ (wstate[s] = "reaped" /\ \A p \in Pids : children[p] # s)

\* Every Spawn call that counted itself returns.
SpawnReturns ==
  \A s \in Spawns : pc[s] = "count" ~> pc[s] \in {"EAGAIN", "cancelled", "error", "ok"}

\* "Send SIGKILL to a process group associated with the child" is said of a
\* pid that Wait4 has freed and that anybody may have got since: it is never
\* a worker of the box, as long as the handler holds the lock from Wait4 to
\* killPg.
HandlerSparesWorkers ==
  [][hpc = "reap" /\ hpc' # "reap" =>
       \A s \in Spawns : wstate[s] = "running" => wstate'[s] = "running"]_vars
=============================================================================
