------------------------- MODULE ConnectionWorkers -------------------------
(***************************************************************************)
(* The goroutines of a connection implement the promise of Workers.  The   *)
(* worker of a channel is read off the process and the spawning goroutine; *)
(* a client has given a channel up once a kill request was handled, the    *)
(* channel was cancelled, or the connection is ending or gone; and the     *)
(* replies of a channel count from the moment it asked for a worker.       *)
(***************************************************************************)
EXTENDS Connection

Life(ch) ==
  IF proc[ch] # "none" THEN proc[ch]
  ELSE CASE spawner[ch] = "none" -> "none"
         [] spawner[ch] = "done" -> "never"
         [] OTHER                -> "spawning"

GivenUp(ch) == ctxDone \/ wire = "down" \/ cancelled[ch] \/ killer[ch] # "none"

Answer(ch) == IF spawner[ch] = "none" THEN <<>> ELSE replies[ch]

W == INSTANCE Workers WITH
       life    <- [ch \in Channels |-> Life(ch)],
       givenUp <- [ch \in Channels |-> GivenUp(ch)],
       answer  <- [ch \in Channels |-> Answer(ch)]

\* Every step of the reader, of the spawn goroutine and of asyncKill is a step
\* of Workers or changes nothing a client can tell: no worker is killed, and
\* no request is dropped in silence, unless the client gave it up; no worker
\* comes back; every reply to a spawn request is true, single and in order.
RefinesWorkers == W!Spec
=============================================================================
