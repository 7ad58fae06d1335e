----------------------------- MODULE Connection -----------------------------
(***************************************************************************)
(* One client connection of stout: the reader loop                         *)
(* ConnectionHandler.HandleConn, its table of sessions, the response       *)
(* stream of every channel, the three dispatchers (initial, spool          *)
(* cancelation, spawn) and the goroutines they start: one per spool        *)
(* request, one per spawn request, and asyncKill for a kill request.       *)
(*                                                                         *)
(* A message is what next() and Handle decode from the byte stream: a      *)
(* channel, a number and how the decoding of the arguments ended.  The     *)
(* client, and a stream that lost its framing, may produce any of them.    *)
(* Boxes and processes are seen through their interfaces: Spool, Spawn     *)
(* and Kill end in any way the interface permits.                          *)
(***************************************************************************)
EXTENDS Naturals, Sequences

CONSTANT MaxChannel      \* the highest channel number a client uses

ASSUME MaxChannelAssumption == MaxChannel \in Nat

Channels == 0..MaxChannel

\* Message numbers: initialdispatch.go, spooldispatch.go, spawndispatch.go.
spool       == 0
spawn       == 1
spoolCancel == 0
spawnKill   == 0
Numbers     == 0..2      \* 2 stands for every number no dispatcher knows

Dispatchers == {"none", "initial", "spool", "spawn"}
Answers     == {"SpoolOk", "SpoolError", "SpawnError", "KillOk", "KillError"}

VARIABLES
  rpc,            \* where the reader loop is
  rch,            \* the channel of the message it handles
  rnum,           \* the number of that message
  rdisp,          \* the dispatcher Get returned, or the one Handle returned
  session,        \* sessions.session: channel -> attached dispatcher
  highestChannel, \* ConnectionHandler.highestChannel
  ctxDone,        \* HandleConn's context has been cancelled
  wire,           \* "up" while writes to the connection succeed
  cancelled,      \* channel -> its spool or spawn context was cancelled
  spooler,        \* channel -> the goroutine of onSpool
  spawner,        \* channel -> the goroutine of onSpawn
  killer,         \* channel -> the asyncKill goroutine
  flagKilled,     \* channel -> the flag shared by spawner and killer
  proc,           \* channel -> the worker process
  kills,          \* channel -> how often Process.Kill was called
  replies,        \* channel -> the terminal replies written to the client
  late            \* channel -> something was written after a terminal reply

readerVars == <<rpc, rch, rnum, rdisp>>
connVars   == <<highestChannel, ctxDone, wire>>
procVars   == <<flagKilled, proc, kills>>
goVars     == <<cancelled, spooler, spawner, killer, procVars>>
streamVars == <<replies, late>>
vars       == <<readerVars, connVars, session, goVars, streamVars>>

-----------------------------------------------------------------------------
(* Sessions and response streams                                           *)

Attach(ch, d) == session' = [session EXCEPT ![ch] = d]

\* Mutant: the entry is not deleted.
DetachNothing(ch) == UNCHANGED session

Detach(ch) == session' = [session EXCEPT ![ch] = "none"]

\* responseStream.Error and responseStream.Close: under the stream's lock,
\* write the frame (it is lost when the connection is gone) and run onClose,
\* which detaches the channel.  close() leaves `closed` as it is.
Reply(ch, r) ==
  /\ IF wire = "up"
     THEN /\ replies' = [replies EXCEPT ![ch] = Append(@, r)]
          /\ late' = [late EXCEPT ![ch] = @ \/ replies[ch] # <<>>]
     ELSE UNCHANGED streamVars
  /\ Detach(ch)

\* responseStream.Write: the frame is lost when the connection is gone.
Write(ch) ==
  /\ late' = [late EXCEPT ![ch] = @ \/ (wire = "up" /\ replies[ch] # <<>>)]
  /\ UNCHANGED replies

\* Mutants: the context of a spawn is not derived from the connection's;
\* cancelSpawn cancels another context than the one given to Spawn.
SpawnCtxDoneAlone(ch)  == cancelled[ch]
SpawnCtxDoneParent(ch) == ctxDone

\* The context given to Box.Spool or Box.Spawn is done: cancelled by the
\* dispatcher of the channel, or by the return of HandleConn.
SpawnCtxDone(ch) == ctxDone \/ cancelled[ch]

-----------------------------------------------------------------------------
(* The reader loop                                                         *)

\* Only a channel above every channel seen so far opens a session.
Detached(ch) == ch <= highestChannel

\* next() returned a message and Get found no dispatcher for a channel that
\* was used before: the arguments are skipped.
SkipMessage(ch) ==
  /\ rpc = "next" /\ session[ch] = "none" /\ Detached(ch)
  /\ UNCHANGED vars

\* next() returned a message for a new channel: a response stream and an
\* initial dispatcher are created for it.
OpenChannel(ch, num) ==
  /\ rpc = "next" /\ session[ch] = "none" /\ ~Detached(ch)
  /\ highestChannel' = ch
  /\ rpc' = "handle" /\ rch' = ch /\ rnum' = num /\ rdisp' = "initial"
  /\ UNCHANGED <<ctxDone, wire, session, goVars, streamVars>>

\* next() returned a message for a channel with an attached dispatcher.
GetDispatcher(ch, num) ==
  /\ rpc = "next" /\ session[ch] # "none"
  /\ rpc' = "handle" /\ rch' = ch /\ rnum' = num /\ rdisp' = session[ch]
  /\ UNCHANGED <<connVars, session, goVars, streamVars>>

Handling(d) == rpc = "handle" /\ rdisp = d

\* The reader goes on at pc, with d the dispatcher that Handle returned; an
\* error and a nil dispatcher are both "none".
Goto(pc, d) == rpc' = pc /\ rdisp' = d /\ UNCHANGED <<rch, rnum>>

\* initialDispatch.Handle: the wrong number of arguments ends the connection.
HandleInvalidArgs ==
  /\ Handling("initial") /\ rnum \in {spool, spawn}
  /\ Goto("cancel", "none")
  /\ UNCHANGED <<connVars, session, goVars, streamVars>>

\* Any dispatcher: an unknown number, or arguments that do not decode.
HandleError ==
  /\ \/ Handling("initial")
     \/ Handling("spool") /\ rnum # spoolCancel
     \/ Handling("spawn") /\ rnum # spawnKill
  /\ Goto("finish", "none")
  /\ UNCHANGED <<connVars, session, goVars, streamVars>>

\* onSpool and onSpawn: a profile without a type, or of a type that has no
\* box, is answered at once.
HandleBadProfile ==
  /\ Handling("initial") /\ rnum \in {spool, spawn}
  /\ Reply(rch, IF rnum = spool THEN "SpoolError" ELSE "SpawnError")
  /\ Goto("finish", "none")
  /\ UNCHANGED <<connVars, goVars>>

onSpool ==
  /\ Handling("initial") /\ rnum = spool
  /\ spooler' = [spooler EXCEPT ![rch] = "spooling"]
  /\ Goto("finish", "spool")
  /\ UNCHANGED <<connVars, session, cancelled, spawner, killer, procVars, streamVars>>

onSpawn ==
  /\ Handling("initial") /\ rnum = spawn
  /\ spawner' = [spawner EXCEPT ![rch] = "spawning"]
  /\ Goto("finish", "spawn")
  /\ UNCHANGED <<connVars, session, cancelled, spooler, killer, procVars, streamVars>>

\* spoolCancelationDispatch.Handle: cancel the spool ...
HandleSpoolCancel ==
  /\ Handling("spool") /\ rnum = spoolCancel
  /\ cancelled' = [cancelled EXCEPT ![rch] = TRUE]
  /\ Goto("cancelReply", "none")
  /\ UNCHANGED <<connVars, session, spooler, spawner, killer, procVars, streamVars>>

\* ... and answer that it was cancelled.
SpoolCancelReply ==
  /\ rpc = "cancelReply"
  /\ Reply(rch, "SpoolOk")
  /\ Goto("finish", "none")
  /\ UNCHANGED <<connVars, goVars>>

\* spawnDispatch.Handle starts asyncKill in a goroutine.
HandleKill ==
  /\ Handling("spawn") /\ rnum = spawnKill
  /\ killer' = [killer EXCEPT ![rch] = "start"]
  /\ Goto("finish", "none")
  /\ UNCHANGED <<connVars, session, cancelled, spooler, spawner, procVars, streamVars>>

\* The end of an iteration: Detach after an error or a nil dispatcher, Attach
\* otherwise.
FinishMessage ==
  /\ rpc = "finish"
  /\ IF rdisp = "none" THEN Detach(rch) ELSE Attach(rch, rdisp)
  /\ Goto("next", "none")
  /\ UNCHANGED <<connVars, goVars, streamVars>>

\* next() failed: end of file, a broken connection, bytes that are no message.
NextFails ==
  /\ rpc = "next"
  /\ Goto("cancel", "none")
  /\ UNCHANGED <<connVars, session, goVars, streamVars>>

\* The deferred calls of HandleConn, last one first: cancel() ...
CancelConn ==
  /\ rpc = "cancel"
  /\ ctxDone' = TRUE
  /\ Goto("close", "none")
  /\ UNCHANGED <<highestChannel, wire, session, goVars, streamVars>>

\* ... then conn.Close().
CloseConn ==
  /\ rpc = "close"
  /\ wire' = "down"
  /\ Goto("closed", "none")
  /\ UNCHANGED <<highestChannel, ctxDone, session, goVars, streamVars>>

\* The peer goes away: from now on writes fail, and so will next().
PeerGone ==
  /\ wire = "up"
  /\ wire' = "down"
  /\ UNCHANGED <<readerVars, highestChannel, ctxDone, session, goVars, streamVars>>

-----------------------------------------------------------------------------
(* The goroutine of onSpool                                                *)

SpoolReturns(ch, r) ==
  /\ spooler[ch] = "spooling"
  /\ spooler' = [spooler EXCEPT ![ch] = "done"]
  /\ Reply(ch, r)
  /\ UNCHANGED <<readerVars, connVars, cancelled, spawner, killer, procVars>>

-----------------------------------------------------------------------------
(* The goroutine of onSpawn                                                *)

SpawnerGoto(ch, pc) == spawner' = [spawner EXCEPT ![ch] = pc]

\* Box.Spawn starts the process; its output may be written from now on.
SpawnStarts(ch) ==
  /\ spawner[ch] = "spawning" /\ proc[ch] = "none"
  /\ proc' = [proc EXCEPT ![ch] = "running"]
  /\ UNCHANGED <<readerVars, connVars, session, cancelled, spooler, spawner, killer, flagKilled, kills, streamVars>>

\* Box.Spawn returned the process: the goroutine blocks in its select.
SpawnReturns(ch) ==
  /\ spawner[ch] = "spawning" /\ proc[ch] = "running"
  /\ SpawnerGoto(ch, "offering")
  /\ UNCHANGED <<readerVars, connVars, session, cancelled, spooler, killer, procVars, streamVars>>

\* Box.Spawn returned ErrSpawningCancelled or context.Canceled: no reply.
SpawnCancelled(ch) ==
  /\ spawner[ch] = "spawning" /\ proc[ch] = "none" /\ SpawnCtxDone(ch)
  /\ SpawnerGoto(ch, "done")
  /\ UNCHANGED <<readerVars, connVars, session, cancelled, spooler, killer, procVars, streamVars>>

\* Mutant: every error of Box.Spawn is taken for a cancelled spawning.
SpawnFailsSilent(ch) ==
  /\ spawner[ch] = "spawning" /\ proc[ch] = "none"
  /\ SpawnerGoto(ch, "done")
  /\ UNCHANGED <<readerVars, connVars, session, cancelled, spooler, killer, procVars, streamVars>>

\* Box.Spawn returned any other error, EAGAIN included.
SpawnFails(ch) ==
  /\ spawner[ch] = "spawning" /\ proc[ch] = "none"
  /\ SpawnerGoto(ch, "done")
  /\ Reply(ch, "SpawnError")
  /\ UNCHANGED <<readerVars, connVars, cancelled, spooler, killer, procVars>>

\* Mutant: the result of CompareAndSwap is negated.
AfterSwapNegated(ch) == IF flagKilled[ch] THEN "kill" ELSE "done"

\* CompareAndSwap(flagKilled, 0, 1): who sets the flag goes on to kill.
AfterSwap(ch) == IF flagKilled[ch] THEN "done" ELSE "kill"
SetKilled(ch) == flagKilled' = [flagKilled EXCEPT ![ch] = TRUE]

\* The ctx.Done() case of the select: the goroutine kills the process itself.
SpawnerTakesKill(ch) ==
  /\ spawner[ch] = "offering" /\ SpawnCtxDone(ch)
  /\ SpawnerGoto(ch, AfterSwap(ch)) /\ SetKilled(ch)
  /\ UNCHANGED <<readerVars, connVars, session, cancelled, spooler, killer, proc, kills, streamVars>>

\* Process.Kill, called by whoever set the flag; p is how it ended.
Kill(ch, p) ==
  /\ kills' = [kills EXCEPT ![ch] = @ + 1]
  /\ proc' = [proc EXCEPT ![ch] = p]

SpawnerKills(ch, p) ==
  /\ spawner[ch] = "kill"
  /\ Kill(ch, p) /\ SpawnerGoto(ch, "reply")
  /\ UNCHANGED <<readerVars, connVars, session, cancelled, spooler, killer, flagKilled, streamVars>>

\* Mutants: no look at the error of Kill; no answer.
KillReplyOk(ch)     == Reply(ch, "KillOk")
KillReplySilent(ch) == UNCHANGED <<session, streamVars>>

KillReply(ch) == Reply(ch, IF proc[ch] = "killed" THEN "KillOk" ELSE "KillError")

SpawnerReplies(ch) ==
  /\ spawner[ch] = "reply"
  /\ KillReply(ch) /\ SpawnerGoto(ch, "done")
  /\ UNCHANGED <<readerVars, connVars, cancelled, spooler, killer, procVars>>

-----------------------------------------------------------------------------
(* asyncKill                                                               *)

KillerGoto(ch, pc) == killer' = [killer EXCEPT ![ch] = pc]

\* Mutant: the process is shared instead of handed over, without the flag.
KillerShares(ch) ==
  /\ killer[ch] = "start" /\ spawner[ch] = "offering"
  /\ KillerGoto(ch, "kill")
  /\ UNCHANGED <<readerVars, connVars, session, cancelled, spooler, spawner, procVars, streamVars>>

\* The first case of the select receives the process from the spawner, which
\* then returns and closes the channel; CompareAndSwap decides who kills.
KillerReceives(ch) ==
  /\ killer[ch] = "start" /\ spawner[ch] = "offering"
  /\ SpawnerGoto(ch, "done")
  /\ KillerGoto(ch, AfterSwap(ch)) /\ SetKilled(ch)
  /\ UNCHANGED <<readerVars, connVars, session, cancelled, spooler, proc, kills, streamVars>>

\* The channel is closed, or the context is done: nothing to do.
KillerExits(ch) ==
  /\ killer[ch] = "start" /\ (spawner[ch] = "done" \/ ctxDone)
  /\ KillerGoto(ch, "done")
  /\ UNCHANGED <<readerVars, connVars, session, cancelled, spooler, spawner, procVars, streamVars>>

\* The default case: no process yet, so its spawning is cancelled.
KillerCancels(ch) ==
  /\ killer[ch] = "start" /\ spawner[ch] \notin {"offering", "done"} /\ ~ctxDone
  /\ cancelled' = [cancelled EXCEPT ![ch] = TRUE]
  /\ KillerGoto(ch, "done")
  /\ UNCHANGED <<readerVars, connVars, session, spooler, spawner, procVars, streamVars>>

KillerKills(ch, p) ==
  /\ killer[ch] = "kill"
  /\ Kill(ch, p) /\ KillerGoto(ch, "reply")
  /\ UNCHANGED <<readerVars, connVars, session, cancelled, spooler, spawner, flagKilled, streamVars>>

KillerReplies(ch) ==
  /\ killer[ch] = "reply"
  /\ KillReply(ch) /\ KillerGoto(ch, "done")
  /\ UNCHANGED <<readerVars, connVars, cancelled, spooler, spawner, procVars>>

\* OutputCollector.Write on behalf of a process that was started; what it
\* printed may still be in the pipe after it was killed.
Output(ch) ==
  /\ proc[ch] # "none"
  /\ Write(ch)
  /\ UNCHANGED <<readerVars, connVars, session, goVars>>

-----------------------------------------------------------------------------
Init ==
  /\ rpc = "next" /\ rch = 0 /\ rnum = 0 /\ rdisp = "none"
  /\ session = [ch \in Channels |-> "none"]
  /\ highestChannel = 0
  /\ ctxDone = FALSE
  /\ wire = "up"
  /\ cancelled  = [ch \in Channels |-> FALSE]
  /\ spooler    = [ch \in Channels |-> "none"]
  /\ spawner    = [ch \in Channels |-> "none"]
  /\ killer     = [ch \in Channels |-> "none"]
  /\ flagKilled = [ch \in Channels |-> FALSE]
  /\ proc       = [ch \in Channels |-> "none"]
  /\ kills      = [ch \in Channels |-> 0]
  /\ replies    = [ch \in Channels |-> <<>>]
  /\ late       = [ch \in Channels |-> FALSE]

Read(ch) == SkipMessage(ch) \/ \E num \in Numbers : OpenChannel(ch, num) \/ GetDispatcher(ch, num)

Handle ==
  \/ HandleInvalidArgs \/ HandleError \/ HandleBadProfile
  \/ onSpool \/ onSpawn \/ HandleSpoolCancel \/ SpoolCancelReply \/ HandleKill

Return == CancelConn \/ CloseConn

Spooler(ch) == \E r \in {"SpoolOk", "SpoolError"} : SpoolReturns(ch, r)

Spawner(ch) ==
  \/ SpawnStarts(ch) \/ SpawnReturns(ch) \/ SpawnCancelled(ch) \/ SpawnFails(ch)
  \/ SpawnerTakesKill(ch) \/ SpawnerReplies(ch)
  \/ \E p \in {"killed", "unkilled"} : SpawnerKills(ch, p)

AsyncKill(ch) ==
  \/ KillerReceives(ch) \/ KillerExits(ch) \/ KillerCancels(ch) \/ KillerReplies(ch)
  \/ \E p \in {"killed", "unkilled"} : KillerKills(ch, p)

Next ==
  \/ Handle \/ FinishMessage \/ NextFails \/ Return \/ PeerGone
  \/ \E ch \in Channels :
       Read(ch) \/ Spooler(ch) \/ Spawner(ch) \/ AsyncKill(ch) \/ Output(ch)

\* The Go scheduler runs every goroutine that can run; Spool, Spawn and Kill
\* return; a read from a connection that is gone fails.  Nothing obliges the
\* client to send, or the connection to break.
Fairness ==
  /\ WF_vars(Handle) /\ WF_vars(FinishMessage) /\ WF_vars(Return)
  /\ WF_vars(wire = "down" /\ NextFails)
  /\ \A ch \in Channels :
       WF_vars(Spooler(ch)) /\ WF_vars(Spawner(ch)) /\ WF_vars(AsyncKill(ch))

Spec     == Init /\ [][Next]_vars
FairSpec == Spec /\ Fairness

-----------------------------------------------------------------------------
(* Properties                                                              *)

\* The types; the replies of a channel are those the dispatchers number
\* (replySpoolOk, replySpawnError, replyKillOk and so on), none else.
TypeOK ==
  /\ rpc \in {"next", "handle", "cancelReply", "finish", "cancel", "close", "closed"}
  /\ rch \in Channels /\ rnum \in Numbers /\ rdisp \in Dispatchers
  /\ session \in [Channels -> {"none", "spool", "spawn"}]
  /\ highestChannel \in Channels
  /\ ctxDone \in BOOLEAN
  /\ wire \in {"up", "down"}
  /\ cancelled \in [Channels -> BOOLEAN]
  /\ spooler \in [Channels -> {"none", "spooling", "done"}]
  /\ spawner \in [Channels -> {"none", "spawning", "offering", "kill", "reply", "done"}]
  /\ killer \in [Channels -> {"none", "start", "kill", "reply", "done"}]
  /\ flagKilled \in [Channels -> BOOLEAN]
  /\ proc \in [Channels -> {"none", "running", "killed", "unkilled"}]
  /\ kills \in [Channels -> Nat]
  /\ replies \in [Channels -> Seq(Answers)]
  /\ late \in [Channels -> BOOLEAN]

\* A worker that was started and not yet killed is always in the hands of one
\* goroutine that will kill it: the spawner until it returns, asyncKill once
\* it has received the process ("SpawnDispatch is responsible for killing pr
\* now").  Nobody else is left to do it.
NoOrphan ==
  \A ch \in Channels :
    proc[ch] = "running" =>
      \/ spawner[ch] \in {"spawning", "offering", "kill"} /\ killer[ch] \notin {"kill", "reply"}
      \/ spawner[ch] = "done" /\ killer[ch] = "kill"

\* Process.Kill is called at most once for a worker, however a kill request, a
\* cancelled spawn and the end of the connection interleave.
KilledOnce == \A ch \in Channels : kills[ch] <= 1

\* A channel that asked for a worker gets at most one terminal reply, and the
\* reply tells the truth: KillOk only for a worker that was killed, KillError
\* only after a failed Kill, SpawnError only when there never was a worker.
SpawnAnsweredOnce ==
  \A ch \in Channels :
    spawner[ch] # "none" /\ replies[ch] # <<>> =>
      \/ replies[ch] = <<"KillOk">> /\ proc[ch] = "killed"
      \/ replies[ch] = <<"KillError">> /\ proc[ch] = "unkilled"
      \/ replies[ch] = <<"SpawnError">> /\ proc[ch] = "none"

\* responseStream never sets `closed`, so frames can follow a terminal reply,
\* but only two kinds do: what a killed worker had left in its pipe, and the
\* second answer to a spool that was cancelled, from the dispatcher and from
\* the goroutine of onSpool.
LateExplained ==
  \A ch \in Channels :
    late[ch] =>
      \/ proc[ch] \in {"killed", "unkilled"} /\ Len(replies[ch]) = 1
      \/ spooler[ch] = "done" /\ cancelled[ch] /\ Len(replies[ch]) = 2

\* A channel is used for one request.  A new initial dispatcher is only created
\* for a channel that never had a stream, a goroutine or a worker, so that the
\* OnClose of an old stream never detaches the session of a newer request; and
\* asyncKill is started at most once for a channel, although a channel that was
\* detached by its stream may be attached again by the reader.
ChannelUsedOnce ==
  /\ rpc = "handle" /\ rdisp = "initial" =>
       /\ session[rch] = "none"
       /\ spooler[rch] = "none" /\ spawner[rch] = "none" /\ killer[rch] = "none"
       /\ proc[rch] = "none" /\ replies[rch] = <<>>
  /\ rpc = "handle" /\ rdisp = "spawn" => killer[rch] = "none"

\* When the connection ends, every worker started for it is killed (or its
\* Kill has failed) and no spawning goroutine stays behind.
ConnectionEndKillsWorkers ==
  \A ch \in Channels :
    ctxDone ~> proc[ch] # "running" /\ spawner[ch] \in {"none", "done"}

\* A kill request ends the worker whether it arrives before, during or after
\* the spawning: afterwards there is no running worker and no spawner.
KillRequestEndsWorker ==
  \A ch \in Channels :
    killer[ch] = "start" ~> proc[ch] # "running" /\ spawner[ch] = "done"

\* A kill request for a worker that has been spawned, and every spool request a
\* box was found for, is answered by whichever goroutine is responsible for it,
\* unless the connection is gone.
RequestsAnswered ==
  \A ch \in Channels :
    /\ killer[ch] = "start" /\ spawner[ch] = "offering" ~> replies[ch] # <<>> \/ wire = "down"
    /\ spooler[ch] = "spooling" ~> replies[ch] # <<>> \/ wire = "down"
=============================================================================
