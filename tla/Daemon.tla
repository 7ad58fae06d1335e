-------------------------------- MODULE Daemon --------------------------------
(***************************************************************************)
(* The life of the daemon: main (cmd/stout/main.go), New, Serve,           *)
(* ServeOnListeners and Close (daemon/daemon.go), the constructors and the *)
(* Close of the three boxes, and the goroutines they start: the loops of a *)
(* box, an accept loop per endpoint and a handler per connection.          *)
(*                                                                         *)
(* A box is seen as its context and its loop (sigchldHandler, watchEvents  *)
(* or waitLoop); a handler as a connection that is read until the client   *)
(* is gone, which is what HandleConn does also when its context is done.   *)
(*                                                                         *)
(* Its specification is DaemonSpec, with DaemonInit and DaemonNext: the    *)
(* proofs are in one module with those of OutputCollector.                 *)
(***************************************************************************)
CONSTANTS
  Boxes,      \* the names in the isolate section of the configuration
  Endpoints,  \* the endpoints of the configuration
  Conns       \* bound: the connections clients make

Types == {"process", "docker", "porto", "unknown"}

VARIABLES
  mtn,        \* Config.Mtn.Enable
  type,       \* the configured type of a box
  main,       \* where main is; "panic": the program ended by a panic
  todo,       \* New: the boxes it has still to construct
  boxes,      \* Daemon.boxes
  toClose,    \* Daemon.Close: the boxes it has still to close
  db,         \* MtnState.Db: nil, open or closed
  boxCtx,     \* the context of a box
  loop,       \* the loop of a box
  listener,   \* the listener of an endpoint
  accept,     \* the accept loop of an endpoint
  serveCtx,   \* the context of ServeOnListeners
  conn        \* the connections

config == <<mtn, type>>
newVars == <<todo, boxes>>
boxVars == <<toClose, db, boxCtx, loop>>
netVars == <<listener, accept, serveCtx, conn>>
daemonVars == <<config, main, newVars, boxVars, netVars>>

Running == main \notin {"exit", "panic"}

(***************************************************************************)
(* The boxes.                                                              *)
(***************************************************************************)

\* Mutant: Close waits for the loop of a process box without cancelling it.
CloseBoxUncancelled(b) ==
  IF type[b] = "porto" /\ db = "nil"
  THEN main' = "panic" /\ UNCHANGED <<db, boxCtx>>
  ELSE UNCHANGED <<main, db, boxCtx>>

\* Box.Close of a Docker or a process box cancels its context; the Porto box
\* closes the database first, which is nil when the network is disabled.
CloseBox(b) ==
  IF type[b] = "porto" /\ db = "nil"
  THEN main' = "panic" /\ UNCHANGED <<db, boxCtx>>
  ELSE /\ boxCtx' = [boxCtx EXCEPT ![b] = "done"]
       /\ db' = IF type[b] = "porto" THEN "closed" ELSE db
       /\ UNCHANGED main

\* waitLoop begins with the collection, whatever its context.  An error of
\* UsedAllocations ends waitLoop for good; when portod is not reached the nil
\* connection is used all the same, and the program ends.
WaitLoopGc(b) ==
  /\ Running /\ loop[b] = "gc"
  /\ \/ loop' = [loop EXCEPT ![b] = "running"] /\ UNCHANGED main
     \/ mtn /\ loop' = [loop EXCEPT ![b] = "ended"] /\ UNCHANGED main
     \/ main' = "panic" /\ UNCHANGED loop
  /\ UNCHANGED <<config, newVars, toClose, db, boxCtx, netVars>>

\* waitLoop asks for the state of every worker's container, and takes any error
\* for one that portod reported: a broken connection ends the program.  There
\* are workers only once a client was there.
WaitLoopPanics(b) ==
  /\ Running /\ loop[b] = "running" /\ type[b] = "porto" /\ \E c \in Conns : conn[c] # "none"
  /\ main' = "panic"
  /\ UNCHANGED <<config, newVars, boxVars, netVars>>

\* A Spool or a Spawn of the Porto box asks for addresses; when the allocator is not
\* reached RequestAllocs reads the body of no answer, and the program ends.
RequestAllocsPanics(b) ==
  /\ Running /\ b \in boxes /\ type[b] = "porto" /\ mtn /\ \E c \in Conns : conn[c] # "none"
  /\ main' = "panic"
  /\ UNCHANGED <<config, newVars, boxVars, netVars>>

\* The loop of a box ends when it sees that the context is done.
LoopEnds(b) ==
  /\ Running /\ loop[b] = "running" /\ boxCtx[b] = "done"
  /\ loop' = [loop EXCEPT ![b] = "ended"]
  /\ UNCHANGED <<config, main, newVars, toClose, db, boxCtx, netVars>>

(***************************************************************************)
(* New.                                                                    *)
(***************************************************************************)

\* CfgInit and PoolInit.  An error of either is the end, and when the allocator
\* is not reached GetAllocations reads the body of no answer: the program panics.
CfgInit ==
  /\ main = "cfg"
  /\ \/ main' = "boxes" /\ db' = (IF mtn THEN "open" ELSE "nil")
     \/ mtn /\ main' \in {"exit", "panic"} /\ db' \in {"nil", "open"}
  /\ UNCHANGED <<config, newVars, toClose, boxCtx, loop, netVars>>

Duplicated(b) == \E d \in boxes : type[d] = type[b]

\* ConstructBox returns a box with its loop started.
ConstructBox(b) ==
  /\ main = "boxes" /\ b \in todo
  /\ ~Duplicated(b) /\ type[b] # "unknown"
  /\ todo' = todo \ {b} /\ boxes' = boxes \cup {b}
  /\ boxCtx' = [boxCtx EXCEPT ![b] = "live"] /\ loop' = [loop EXCEPT ![b] = IF type[b] = "porto" THEN "gc" ELSE "running"]
  /\ UNCHANGED <<config, main, toClose, db, netVars>>

\* Mutant: the boxes constructed before are left alone.
FailNewKeepsBoxes == main' = "exit" /\ UNCHANGED toClose

\* New calls Close, and returns the error.
FailNew == main' = "close" /\ toClose' = boxes

\* A second box of a type, or a type that is not registered.
Refused(b) ==
  /\ main = "boxes" /\ b \in todo
  /\ Duplicated(b) \/ type[b] = "unknown"
  /\ FailNew
  /\ todo' = todo \ {b}
  /\ UNCHANGED <<config, boxes, db, boxCtx, loop, netVars>>

\* The constructor fails before it starts a loop; that of the Porto box may
\* leave a context behind that nobody can cancel.
ConstructFails(b) ==
  /\ main = "boxes" /\ b \in todo /\ ~Duplicated(b)
  /\ \/ type[b] \in {"docker", "porto"} /\ UNCHANGED boxCtx
     \/ type[b] = "porto" /\ boxCtx' = [boxCtx EXCEPT ![b] = "live"]
  /\ FailNew
  /\ todo' = todo \ {b}
  /\ UNCHANGED <<config, boxes, db, loop, netVars>>

\* The Porto box cannot load its journal: NewBox closes the box it has begun,
\* and then New the others.
LoadJournalFails(b) ==
  /\ main = "boxes" /\ b \in todo /\ type[b] = "porto" /\ ~Duplicated(b)
  /\ todo' = todo \ {b}
  /\ IF db = "nil"
     THEN main' = "panic" /\ UNCHANGED <<toClose, boxCtx, db>>
     ELSE FailNew /\ boxCtx' = [boxCtx EXCEPT ![b] = "done"] /\ db' = "closed"
  /\ UNCHANGED <<config, boxes, loop, netVars>>

NewReturns ==
  /\ main = "boxes" /\ todo = {}
  /\ main' = "listen"
  /\ UNCHANGED <<config, newVars, boxVars, netVars>>

(***************************************************************************)
(* Serve.                                                                  *)
(***************************************************************************)

Listen(e) ==
  /\ main = "listen" /\ listener[e] = "none"
  /\ listener' = [listener EXCEPT ![e] = "open"]
  /\ UNCHANGED <<config, main, newVars, boxVars, accept, serveCtx, conn>>

closeListeners == listener' = [e \in Endpoints |-> IF listener[e] = "open" THEN "closed" ELSE listener[e]]

\* An endpoint cannot be listened to: Serve returns the error and main exits
\* at once, without the deferred Close.
ListenFails ==
  /\ main = "listen" /\ \E e \in Endpoints : listener[e] = "none"
  /\ closeListeners
  /\ main' = "exit"
  /\ UNCHANGED <<config, newVars, boxVars, accept, serveCtx, conn>>

\* ServeOnListeners starts an accept loop per listener.
ServeOnListeners ==
  /\ main = "listen" /\ \A e \in Endpoints : listener[e] = "open"
  /\ main' = "serve" /\ serveCtx' = "live"
  /\ accept' = [e \in Endpoints |-> "running"]
  /\ UNCHANGED <<config, newVars, boxVars, listener, conn>>

Accept(e, c) ==
  /\ Running /\ accept[e] = "running" /\ listener[e] = "open" /\ conn[c] = "none"
  /\ conn' = [conn EXCEPT ![c] = "handled"]
  /\ UNCHANGED <<config, main, newVars, boxVars, listener, accept, serveCtx>>

\* Any error of Accept ends the loop for good: a closed listener, and no file
\* descriptor left just as well.  The listener stays as it is.
AcceptFails(e) ==
  /\ Running /\ accept[e] = "running"
  /\ accept' = [accept EXCEPT ![e] = "ended"]
  /\ UNCHANGED <<config, main, newVars, boxVars, listener, serveCtx, conn>>

\* The client is gone; nothing else makes HandleConn return.
ConnEnds(c) ==
  /\ Running /\ conn[c] = "handled"
  /\ conn' = [conn EXCEPT ![c] = "closed"]
  /\ UNCHANGED <<config, main, newVars, boxVars, listener, accept, serveCtx>>

\* Mutant: the first accept loop that ends, ends the serving.
WaitAny == \E e \in Endpoints : accept[e] = "ended"

\* wg.Wait
Wait == \A e \in Endpoints : accept[e] = "ended"

\* Mutant: the context of the connections is not cancelled.
ServeReturnsUncancelled ==
  /\ main = "serve" /\ Wait
  /\ closeListeners
  /\ main' = "close" /\ toClose' = boxes
  /\ UNCHANGED <<config, newVars, db, boxCtx, loop, accept, conn, serveCtx>>

\* ServeOnListeners returns; its context is cancelled, the handlers are not
\* waited for.  main runs the deferred Close: the listeners, then the boxes.
ServeReturns ==
  /\ main = "serve" /\ Wait
  /\ serveCtx' = "done"
  /\ closeListeners
  /\ main' = "close" /\ toClose' = boxes
  /\ UNCHANGED <<config, newVars, db, boxCtx, loop, accept, conn>>

(***************************************************************************)
(* Close of the boxes, in the order of a map.                              *)
(***************************************************************************)

\* Mutant: Close of a process box does not wait for the handler.
AwaitNothing == TRUE

\* The one box of the type "process" waits for its loop.
AwaitLoop == \A b \in boxes : type[b] = "process" /\ b \notin toClose => loop[b] = "ended"

CloseNext(b) ==
  /\ main = "close" /\ b \in toClose /\ AwaitLoop
  /\ toClose' = toClose \ {b}
  /\ CloseBox(b)
  /\ UNCHANGED <<config, newVars, loop, netVars>>

\* main returns, or logger.Fatalf after a failed New: the program is over,
\* whatever its goroutines are doing.
Exit ==
  /\ main = "close" /\ toClose = {} /\ AwaitLoop
  /\ main' = "exit"
  /\ UNCHANGED <<config, newVars, boxVars, netVars>>

DaemonInit ==
  /\ mtn \in BOOLEAN /\ type \in [Boxes -> Types]
  /\ main = "cfg"
  /\ todo = Boxes /\ boxes = {} /\ toClose = {}
  /\ db = "nil" /\ boxCtx = [b \in Boxes |-> "none"] /\ loop = [b \in Boxes |-> "none"]
  /\ listener = [e \in Endpoints |-> "none"] /\ accept = [e \in Endpoints |-> "none"]
  /\ serveCtx = "none" /\ conn = [c \in Conns |-> "none"]

New ==
  \/ CfgInit \/ NewReturns
  \/ \E b \in Boxes : ConstructBox(b) \/ Refused(b) \/ ConstructFails(b) \/ LoadJournalFails(b)
Serve == ListenFails \/ ServeOnListeners \/ ServeReturns \/ \E e \in Endpoints : Listen(e)
Close == Exit \/ \E b \in Boxes : CloseNext(b)

DaemonNext ==
  \/ New \/ Serve \/ Close
  \/ \E b \in Boxes : WaitLoopGc(b) \/ WaitLoopPanics(b) \/ RequestAllocsPanics(b) \/ LoopEnds(b)
  \/ \E e \in Endpoints : AcceptFails(e) \/ \E c \in Conns : Accept(e, c)
  \/ \E c \in Conns : ConnEnds(c)

\* main and the loops go on while they can; nothing obliges a client to come
\* or to go, or Accept to fail on an open listener.
DaemonFairness ==
  /\ WF_daemonVars(New) /\ WF_daemonVars(Serve) /\ WF_daemonVars(Close)
  /\ \A b \in Boxes : WF_daemonVars(WaitLoopGc(b)) /\ WF_daemonVars(LoopEnds(b))

DaemonSpec == DaemonInit /\ [][DaemonNext]_daemonVars /\ DaemonFairness

(***************************************************************************)
(* Properties.                                                             *)
(***************************************************************************)

\* The types; there is one box of a type, and none of an unknown one.
DaemonTypeOK ==
  /\ mtn \in BOOLEAN /\ type \in [Boxes -> Types]
  /\ main \in {"cfg", "boxes", "listen", "serve", "close", "exit", "panic"}
  /\ todo \subseteq Boxes /\ boxes \subseteq Boxes \ todo /\ toClose \subseteq boxes
  /\ \A b \in boxes : type[b] # "unknown" /\ \A d \in boxes : type[b] = type[d] => b = d
  /\ db \in {"nil", "open", "closed"} /\ boxCtx \in [Boxes -> {"none", "live", "done"}]
  /\ loop \in [Boxes -> {"none", "gc", "running", "ended"}]
  /\ listener \in [Endpoints -> {"none", "open", "closed"}]
  /\ accept \in [Endpoints -> {"none", "running", "ended"}]
  /\ serveCtx \in {"none", "live", "done"} /\ conn \in [Conns -> {"none", "handled", "closed"}]

\* While a connection can come in, all that its requests use is there: every
\* box of the configuration with its loop, but for a waitLoop that failed to
\* read the pool, the database of the pool when the network is enabled, and a
\* context that nobody has cancelled.
ServingIsComplete ==
  (\E e \in Endpoints : accept[e] = "running") =>
    /\ serveCtx = "live" /\ (mtn => db = "open")
    /\ boxes = Boxes /\ \A b \in Boxes :
         boxCtx[b] = "live" /\ (loop[b] = "ended" => type[b] = "porto" /\ mtn)

\* No box is closed under a connection whose context is still live: the
\* handlers are not waited for, but each has been told to give its workers up.
HandlersGivenUpFirst ==
  (\E c \in Conns : conn[c] = "handled") /\ (\E b \in boxes : boxCtx[b] = "done") => serveCtx = "done"

\* A start that fails is undone.  A New that fails leaves nothing of the boxes
\* it has constructed: when main learns of the error, their contexts are done and
\* the loop of the process box, which takes the daemon's SIGCHLD, is over.  A
\* Serve that fails on one endpoint leaves no other one open.
FailedStartUndone ==
  main = "exit" =>
    /\ \A e \in Endpoints : listener[e] # "open"
    /\ boxes # Boxes =>
         \A b \in boxes : boxCtx[b] = "done" /\ (type[b] = "process" => loop[b] = "ended")

\* A daemon none of whose endpoints accepts any more comes to its end instead
\* of lingering: Serve returns and Close does not hang.
DeafDaemonEnds ==
  main = "serve" /\ (\A e \in Endpoints : accept[e] = "ended") ~> main \in {"exit", "panic"}

\* "Close releases all resources ..." (src/isolate/porto/box.go and
\* src/isolate/docker/box.go): a daemon that served and came to its end without
\* a panic has closed all its boxes.  The handler of the process box is over, and
\* the Porto box has closed the database of the pool, which it can do only when
\* the network is enabled: a Porto box without it never comes to an orderly end.
CloseComplete ==
  main = "exit" /\ serveCtx = "done" =>
    \A b \in boxes :
      /\ boxCtx[b] = "done"
      /\ type[b] = "process" => loop[b] = "ended"
      /\ type[b] = "porto" => mtn /\ db = "closed"
===============================================================================
