-------------------------- MODULE ConnectionProofs --------------------------
(***************************************************************************)
(* Safety of a connection for any number of channels.  The properties      *)
(* speak about one channel at a time, but none of them is inductive: that  *)
(* a worker is killed once rests on what the spawner and asyncKill may do  *)
(* at the same time (Stage), that rests on asyncKill being started once    *)
(* (SessionInv, ReaderInv), and that rests on a channel never being opened *)
(* twice (Fresh).  That no kill request and no answer is lost (CareInv)    *)
(* rests on the same.  ConnectionClientProofs builds on this module.       *)
(***************************************************************************)
EXTENDS Connection, TLAPS

\* A channel no message was handled for.
Fresh(ch) ==
  /\ session[ch] = "none" /\ spooler[ch] = "none" /\ spawner[ch] = "none"
  /\ killer[ch] = "none" /\ proc[ch] = "none" /\ replies[ch] = <<>>
  /\ ~flagKilled[ch] /\ kills[ch] = 0

\* What a spawn channel may have been answered.
Answered(ch) ==
  \/ replies[ch] = <<>>
  \/ replies[ch] = <<"KillOk">> /\ proc[ch] = "killed"
  \/ replies[ch] = <<"KillError">> /\ proc[ch] = "unkilled"
  \/ replies[ch] = <<"SpawnError">> /\ proc[ch] = "none"

Untouched(ch) == kills[ch] = 0 /\ replies[ch] = <<>>

\* How far the killing of a worker can be, for every stage of its spawner.
Stage(ch) ==
  /\ spawner[ch] # "done" => killer[ch] \in {"none", "start", "done"}
  /\ spawner[ch] = "none" =>
       killer[ch] = "none" /\ proc[ch] = "none" /\ ~flagKilled[ch] /\ kills[ch] = 0
  /\ spawner[ch] = "spawning" =>
       proc[ch] \in {"none", "running"} /\ ~flagKilled[ch] /\ Untouched(ch)
  /\ spawner[ch] = "offering" =>
       proc[ch] = "running" /\ ~flagKilled[ch] /\ Untouched(ch)
  /\ spawner[ch] = "kill" => proc[ch] = "running" /\ Untouched(ch)
  /\ spawner[ch] = "reply" =>
       proc[ch] \in {"killed", "unkilled"} /\ kills[ch] = 1 /\ replies[ch] = <<>>
  /\ spawner[ch] = "done" =>
       /\ killer[ch] = "kill" => proc[ch] = "running" /\ Untouched(ch)
       /\ killer[ch] = "reply" =>
            proc[ch] \in {"killed", "unkilled"} /\ kills[ch] = 1 /\ replies[ch] = <<>>
       /\ killer[ch] \in {"none", "start", "done"} =>
            proc[ch] # "running" /\ kills[ch] <= 1 /\ Answered(ch)

SessionInv(ch) ==
  /\ ch > highestChannel => Fresh(ch)
  /\ spawner[ch] # "none" => spooler[ch] = "none"
  /\ session[ch] = "spawn" => spawner[ch] # "none"
  /\ session[ch] = "spool" => spooler[ch] # "none"
  /\ session[ch] = "spawn" /\ killer[ch] # "none" =>
       rpc = "finish" /\ rch = ch /\ rdisp = "none"

ReaderInv ==
  /\ rch <= highestChannel
  /\ rpc = "handle" => rdisp # "none"
  /\ rpc = "finish" => rdisp # "initial"
  /\ rpc = "handle" /\ rdisp = "initial" => Fresh(rch)
  /\ rpc \in {"handle", "finish"} /\ rdisp = "spawn" =>
       spawner[rch] # "none" /\ killer[rch] = "none"
  /\ rpc \in {"handle", "finish"} /\ rdisp = "spool" => spooler[rch] # "none"
  /\ rpc = "cancelReply" => spooler[rch] # "none"

IInv ==
  /\ TypeOK
  /\ ReaderInv
  /\ \A ch \in Channels : SessionInv(ch) /\ Stage(ch)

\* What a reply does: it detaches its channel, touches no other channel, and
\* is the first entry of an empty stream unless the connection has lost it.
Replied(c, r) ==
  /\ session' = [session EXCEPT ![c] = "none"]
  /\ replies' \in [Channels -> Seq(Answers)]
  /\ late' \in [Channels -> BOOLEAN]
  /\ \A ch \in Channels : ch # c => replies'[ch] = replies[ch]
  /\ replies[c] = <<>> => replies'[c] \in {<<>>, <<r>>}

\* responseStream.Error and responseStream.Close have that effect.
LEMMA ReplyEffect ==
  ASSUME NEW c \in Channels, NEW r \in Answers, TypeOK, Reply(c, r)
  PROVE  Replied(c, r)
  <1> USE DEF TypeOK, Reply, Replied, Detach, streamVars
  <1>1. session' = [session EXCEPT ![c] = "none"]
    OBVIOUS
  <1>2. CASE wire = "up"
    <2>1. replies[c] \in Seq(Answers) /\ Append(replies[c], r) \in Seq(Answers)
      OBVIOUS
    <2>2. replies' = [replies EXCEPT ![c] = Append(replies[c], r)]
      BY <1>2
    <2>3. late' \in [Channels -> BOOLEAN]
      BY <1>2, Zenon
    <2>4. replies[c] = <<>> => Append(replies[c], r) = <<r>>
      OBVIOUS
    <2> QED
      BY <1>1, <2>1, <2>2, <2>3, <2>4
  <1>3. CASE wire # "up"
    BY <1>1, <1>3
  <1> QED
    BY <1>2, <1>3

\* The stage of a channel depends on its own entries only.
LEMMA StageFrame ==
  ASSUME NEW ch \in Channels, Stage(ch),
         spawner'[ch] = spawner[ch], killer'[ch] = killer[ch], proc'[ch] = proc[ch],
         flagKilled'[ch] = flagKilled[ch], kills'[ch] = kills[ch], replies'[ch] = replies[ch]
  PROVE  Stage(ch)'
  BY DEF Stage, Answered, Untouched

\* Every step keeps the invariant: one case per action of the reader, the
\* spool goroutine, the spawn goroutine and asyncKill.
LEMMA NextStep == IInv /\ [Next]_vars => IInv'
  <1>o. 1 <= 1
    OBVIOUS
  <1> SUFFICES ASSUME TypeOK, ReaderInv, \A ch \in Channels : SessionInv(ch) /\ Stage(ch),
                      [Next]_vars
               PROVE  IInv'
    BY DEF IInv
  <1> USE DEF readerVars, connVars, procVars, goVars, streamVars
  <1>n. Channels \subseteq Nat
    BY MaxChannelAssumption DEF Channels
  <1>1. ASSUME HandleInvalidArgs PROVE IInv'
    <2>1. TypeOK'
      BY <1>1 DEF HandleInvalidArgs, Handling, Goto, TypeOK, Dispatchers, Numbers
    <2>2. ReaderInv'
      BY <1>n, <1>1 DEF HandleInvalidArgs, Handling, Goto, ReaderInv, SessionInv, Fresh, TypeOK, Stage, Dispatchers
    <2>3. ASSUME NEW ch \in Channels PROVE SessionInv(ch)'
      BY <1>n, <1>1 DEF HandleInvalidArgs, Handling, Goto, ReaderInv, SessionInv, Fresh, TypeOK
    <2>4. ASSUME NEW ch \in Channels PROVE Stage(ch)'
      BY <1>1, StageFrame DEF HandleInvalidArgs, Handling, Goto
    <2> QED
      BY <2>1, <2>2, <2>3, <2>4 DEF IInv
  <1>2. ASSUME HandleError PROVE IInv'
    <2>1. TypeOK'
      BY <1>2 DEF HandleError, Handling, Goto, TypeOK, Dispatchers, Numbers
    <2>2. ReaderInv'
      BY <1>n, <1>2 DEF HandleError, Handling, Goto, ReaderInv, SessionInv, Fresh, TypeOK, Stage, Dispatchers
    <2>3. ASSUME NEW ch \in Channels PROVE SessionInv(ch)'
      BY <1>n, <1>2 DEF HandleError, Handling, Goto, ReaderInv, SessionInv, Fresh, TypeOK
    <2>4. ASSUME NEW ch \in Channels PROVE Stage(ch)'
      BY <1>2, StageFrame DEF HandleError, Handling, Goto
    <2> QED
      BY <2>1, <2>2, <2>3, <2>4 DEF IInv
  <1>3. ASSUME HandleBadProfile PROVE IInv'
    <2>0. Replied(rch, IF rnum = spool THEN "SpoolError" ELSE "SpawnError")
      BY <1>3, ReplyEffect, Zenon DEF HandleBadProfile, Handling, Goto, TypeOK, Answers, Numbers, spool, spawn
    <2>1. TypeOK'
      BY <1>3, <2>0 DEF HandleBadProfile, Handling, Goto, Replied, TypeOK, Dispatchers, Numbers
    <2>2. ReaderInv'
      BY <1>n, <1>3, <2>0 DEF HandleBadProfile, Handling, Goto, Replied, ReaderInv, SessionInv, Fresh, TypeOK, Stage, Dispatchers
    <2>3. ASSUME NEW ch \in Channels PROVE SessionInv(ch)'
      BY <1>n, <1>3, <2>0 DEF HandleBadProfile, Handling, Goto, Replied, ReaderInv, SessionInv, Fresh, TypeOK
    <2>4. ASSUME NEW ch \in Channels PROVE Stage(ch)'
      <3>1. CASE ch # rch
        BY <3>1, <1>3, <2>0, StageFrame DEF HandleBadProfile, Handling, Goto, Replied, TypeOK
      <3>2. CASE ch = rch
        BY <3>2, <1>3, <2>0 DEF HandleBadProfile, Handling, Goto, Replied, ReaderInv, SessionInv, Fresh, Stage, Untouched, Answered, TypeOK
      <3> QED
        BY <3>1, <3>2
    <2> QED
      BY <2>1, <2>2, <2>3, <2>4 DEF IInv
  <1>4. ASSUME onSpool PROVE IInv'
    <2>1. TypeOK'
      BY <1>4 DEF onSpool, Handling, Goto, TypeOK, Dispatchers, Numbers
    <2>2. ReaderInv'
      BY <1>n, <1>4 DEF onSpool, Handling, Goto, ReaderInv, SessionInv, Fresh, TypeOK, Stage, Dispatchers
    <2>3. ASSUME NEW ch \in Channels PROVE SessionInv(ch)'
      BY <1>n, <1>4 DEF onSpool, Handling, Goto, ReaderInv, SessionInv, Fresh, TypeOK
    <2>4. ASSUME NEW ch \in Channels PROVE Stage(ch)'
      BY <1>4, StageFrame DEF onSpool, Handling, Goto
    <2> QED
      BY <2>1, <2>2, <2>3, <2>4 DEF IInv
  <1>5. ASSUME onSpawn PROVE IInv'
    <2>1. TypeOK'
      BY <1>5 DEF onSpawn, Handling, Goto, TypeOK, Dispatchers, Numbers
    <2>2. ReaderInv'
      BY <1>n, <1>5 DEF onSpawn, Handling, Goto, ReaderInv, SessionInv, Fresh, TypeOK, Stage, Dispatchers
    <2>3. ASSUME NEW ch \in Channels PROVE SessionInv(ch)'
      BY <1>n, <1>5 DEF onSpawn, Handling, Goto, ReaderInv, SessionInv, Fresh, TypeOK
    <2>4. ASSUME NEW ch \in Channels PROVE Stage(ch)'
      <3>1. CASE ch # rch
        BY <3>1, <1>5, StageFrame DEF onSpawn, Handling, Goto, TypeOK
      <3>2. CASE ch = rch
        BY <3>2, <1>5 DEF onSpawn, Handling, Goto, ReaderInv, SessionInv, Fresh, Stage, Untouched, Answered, TypeOK
      <3> QED
        BY <3>1, <3>2
    <2> QED
      BY <2>1, <2>2, <2>3, <2>4 DEF IInv
  <1>6. ASSUME HandleSpoolCancel PROVE IInv'
    <2>1. TypeOK'
      BY <1>6 DEF HandleSpoolCancel, Handling, Goto, TypeOK, Dispatchers, Numbers
    <2>2. ReaderInv'
      BY <1>n, <1>6 DEF HandleSpoolCancel, Handling, Goto, ReaderInv, SessionInv, Fresh, TypeOK, Stage, Dispatchers
    <2>3. ASSUME NEW ch \in Channels PROVE SessionInv(ch)'
      BY <1>n, <1>6 DEF HandleSpoolCancel, Handling, Goto, ReaderInv, SessionInv, Fresh, TypeOK
    <2>4. ASSUME NEW ch \in Channels PROVE Stage(ch)'
      BY <1>6, StageFrame DEF HandleSpoolCancel, Handling, Goto
    <2> QED
      BY <2>1, <2>2, <2>3, <2>4 DEF IInv
  <1>7. ASSUME SpoolCancelReply PROVE IInv'
    <2>0. Replied(rch, "SpoolOk")
      BY <1>7, ReplyEffect, Zenon DEF SpoolCancelReply, Goto, TypeOK, Answers, Numbers, spool, spawn
    <2>1. TypeOK'
      BY <1>7, <2>0 DEF SpoolCancelReply, Goto, Replied, TypeOK, Dispatchers, Numbers
    <2>2. ReaderInv'
      BY <1>n, <1>7, <2>0 DEF SpoolCancelReply, Goto, Replied, ReaderInv, SessionInv, Fresh, TypeOK, Stage, Dispatchers
    <2>3. ASSUME NEW ch \in Channels PROVE SessionInv(ch)'
      BY <1>n, <1>7, <2>0 DEF SpoolCancelReply, Goto, Replied, ReaderInv, SessionInv, Fresh, TypeOK
    <2>4. ASSUME NEW ch \in Channels PROVE Stage(ch)'
      <3>1. CASE ch # rch
        BY <3>1, <1>7, <2>0, StageFrame DEF SpoolCancelReply, Goto, Replied, TypeOK
      <3>2. CASE ch = rch
        BY <3>2, <1>7, <2>0 DEF SpoolCancelReply, Goto, Replied, ReaderInv, SessionInv, Fresh, Stage, Untouched, Answered, TypeOK
      <3> QED
        BY <3>1, <3>2
    <2> QED
      BY <2>1, <2>2, <2>3, <2>4 DEF IInv
  <1>8. ASSUME HandleKill PROVE IInv'
    <2>1. TypeOK'
      BY <1>8 DEF HandleKill, Handling, Goto, TypeOK, Dispatchers, Numbers
    <2>2. ReaderInv'
      BY <1>n, <1>8 DEF HandleKill, Handling, Goto, ReaderInv, SessionInv, Fresh, TypeOK, Stage, Dispatchers
    <2>3. ASSUME NEW ch \in Channels PROVE SessionInv(ch)'
      BY <1>n, <1>8 DEF HandleKill, Handling, Goto, ReaderInv, SessionInv, Fresh, TypeOK
    <2>4. ASSUME NEW ch \in Channels PROVE Stage(ch)'
      <3>1. CASE ch # rch
        BY <3>1, <1>8, StageFrame DEF HandleKill, Handling, Goto, TypeOK
      <3>2. CASE ch = rch
        BY <3>2, <1>8 DEF HandleKill, Handling, Goto, ReaderInv, SessionInv, Fresh, Stage, Untouched, Answered, TypeOK
      <3> QED
        BY <3>1, <3>2
    <2> QED
      BY <2>1, <2>2, <2>3, <2>4 DEF IInv
  <1>9. ASSUME FinishMessage PROVE IInv'
    <2>1. TypeOK'
      <3>1. rdisp \in {"none", "spool", "spawn"}
        BY <1>9 DEF FinishMessage, ReaderInv, TypeOK, Dispatchers
      <3>2. session' \in [Channels -> {"none", "spool", "spawn"}]
        BY <3>1, <1>9, Zenon DEF FinishMessage, Attach, Detach, TypeOK
      <3> QED
        BY <3>2, <1>9 DEF FinishMessage, Goto, TypeOK, Dispatchers
    <2>2. ReaderInv'
      BY <1>n, <1>9 DEF FinishMessage, Goto, Attach, Detach, ReaderInv, SessionInv, Fresh, TypeOK, Stage, Dispatchers
    <2>3. ASSUME NEW ch \in Channels PROVE SessionInv(ch)'
      BY <1>n, <1>9 DEF FinishMessage, Goto, Attach, Detach, ReaderInv, SessionInv, Fresh, TypeOK
    <2>4. ASSUME NEW ch \in Channels PROVE Stage(ch)'
      BY <1>9, StageFrame DEF FinishMessage, Goto, Attach, Detach
    <2> QED
      BY <2>1, <2>2, <2>3, <2>4 DEF IInv
  <1>10. ASSUME NextFails PROVE IInv'
    <2>1. TypeOK'
      BY <1>10 DEF NextFails, Goto, TypeOK, Dispatchers, Numbers
    <2>2. ReaderInv'
      BY <1>n, <1>10 DEF NextFails, Goto, ReaderInv, SessionInv, Fresh, TypeOK, Stage, Dispatchers
    <2>3. ASSUME NEW ch \in Channels PROVE SessionInv(ch)'
      BY <1>n, <1>10 DEF NextFails, Goto, ReaderInv, SessionInv, Fresh, TypeOK
    <2>4. ASSUME NEW ch \in Channels PROVE Stage(ch)'
      BY <1>10, StageFrame DEF NextFails, Goto
    <2> QED
      BY <2>1, <2>2, <2>3, <2>4 DEF IInv
  <1>11. ASSUME CancelConn PROVE IInv'
    <2>1. TypeOK'
      BY <1>11 DEF CancelConn, Goto, TypeOK, Dispatchers, Numbers
    <2>2. ReaderInv'
      BY <1>n, <1>11 DEF CancelConn, Goto, ReaderInv, SessionInv, Fresh, TypeOK, Stage, Dispatchers
    <2>3. ASSUME NEW ch \in Channels PROVE SessionInv(ch)'
      BY <1>n, <1>11 DEF CancelConn, Goto, ReaderInv, SessionInv, Fresh, TypeOK
    <2>4. ASSUME NEW ch \in Channels PROVE Stage(ch)'
      BY <1>11, StageFrame DEF CancelConn, Goto
    <2> QED
      BY <2>1, <2>2, <2>3, <2>4 DEF IInv
  <1>12. ASSUME CloseConn PROVE IInv'
    <2>1. TypeOK'
      BY <1>12 DEF CloseConn, Goto, TypeOK, Dispatchers, Numbers
    <2>2. ReaderInv'
      BY <1>n, <1>12 DEF CloseConn, Goto, ReaderInv, SessionInv, Fresh, TypeOK, Stage, Dispatchers
    <2>3. ASSUME NEW ch \in Channels PROVE SessionInv(ch)'
      BY <1>n, <1>12 DEF CloseConn, Goto, ReaderInv, SessionInv, Fresh, TypeOK
    <2>4. ASSUME NEW ch \in Channels PROVE Stage(ch)'
      BY <1>12, StageFrame DEF CloseConn, Goto
    <2> QED
      BY <2>1, <2>2, <2>3, <2>4 DEF IInv
  <1>13. ASSUME PeerGone PROVE IInv'
    <2>1. TypeOK'
      BY <1>13 DEF PeerGone, TypeOK, Dispatchers, Numbers
    <2>2. ReaderInv'
      BY <1>n, <1>13 DEF PeerGone, ReaderInv, SessionInv, Fresh, TypeOK, Stage, Dispatchers
    <2>3. ASSUME NEW ch \in Channels PROVE SessionInv(ch)'
      BY <1>n, <1>13 DEF PeerGone, ReaderInv, SessionInv, Fresh, TypeOK
    <2>4. ASSUME NEW ch \in Channels PROVE Stage(ch)'
      BY <1>13, StageFrame DEF PeerGone
    <2> QED
      BY <2>1, <2>2, <2>3, <2>4 DEF IInv
  <1>14. ASSUME NEW c \in Channels, NEW num \in Numbers, OpenChannel(c, num) PROVE IInv'
    <2>1. TypeOK'
      BY <1>14 DEF OpenChannel, Detached, TypeOK, Dispatchers, Numbers
    <2>2. ReaderInv'
      BY <1>n, <1>14 DEF OpenChannel, Detached, ReaderInv, SessionInv, Fresh, TypeOK, Stage, Dispatchers
    <2>3. ASSUME NEW ch \in Channels PROVE SessionInv(ch)'
      BY <1>n, <1>14 DEF OpenChannel, Detached, ReaderInv, SessionInv, Fresh, TypeOK
    <2>4. ASSUME NEW ch \in Channels PROVE Stage(ch)'
      BY <1>14, StageFrame DEF OpenChannel, Detached
    <2> QED
      BY <2>1, <2>2, <2>3, <2>4 DEF IInv
  <1>15. ASSUME NEW c \in Channels, NEW num \in Numbers, GetDispatcher(c, num) PROVE IInv'
    <2>1. TypeOK'
      BY <1>15 DEF GetDispatcher, TypeOK, Dispatchers, Numbers
    <2>2. ReaderInv'
      BY <1>n, <1>15 DEF GetDispatcher, ReaderInv, SessionInv, Fresh, TypeOK, Stage, Dispatchers
    <2>3. ASSUME NEW ch \in Channels PROVE SessionInv(ch)'
      BY <1>n, <1>15 DEF GetDispatcher, ReaderInv, SessionInv, Fresh, TypeOK
    <2>4. ASSUME NEW ch \in Channels PROVE Stage(ch)'
      BY <1>15, StageFrame DEF GetDispatcher
    <2> QED
      BY <2>1, <2>2, <2>3, <2>4 DEF IInv
  <1>16. ASSUME NEW c \in Channels, NEW r \in {"SpoolOk", "SpoolError"}, SpoolReturns(c, r) PROVE IInv'
    <2>0. Replied(c, r)
      BY <1>16, ReplyEffect, Zenon DEF SpoolReturns, TypeOK, Answers, Numbers, spool, spawn
    <2>1. TypeOK'
      BY <1>16, <2>0 DEF SpoolReturns, Replied, TypeOK, Dispatchers, Numbers
    <2>2. ReaderInv'
      BY <1>n, <1>16, <2>0 DEF SpoolReturns, Replied, ReaderInv, SessionInv, Fresh, TypeOK, Stage, Dispatchers
    <2>3. ASSUME NEW ch \in Channels PROVE SessionInv(ch)'
      BY <1>n, <1>16, <2>0, SMTT(30), ZenonT(40) DEF SpoolReturns, Replied, ReaderInv, SessionInv, Fresh, TypeOK
    <2>4. ASSUME NEW ch \in Channels PROVE Stage(ch)'
      <3>1. CASE ch # c
        BY <3>1, <1>16, <2>0, StageFrame DEF SpoolReturns, Replied, TypeOK
      <3>2. CASE ch = c
        BY <3>2, <1>16, <2>0 DEF SpoolReturns, Replied, ReaderInv, SessionInv, Fresh, Stage, Untouched, Answered, TypeOK
      <3> QED
        BY <3>1, <3>2
    <2> QED
      BY <2>1, <2>2, <2>3, <2>4 DEF IInv
  <1>17. ASSUME NEW c \in Channels, SpawnStarts(c) PROVE IInv'
    <2>1. TypeOK'
      BY <1>17 DEF SpawnStarts, TypeOK, Dispatchers, Numbers
    <2>2. ReaderInv'
      BY <1>n, <1>17 DEF SpawnStarts, ReaderInv, SessionInv, Fresh, TypeOK, Stage, Dispatchers
    <2>3. ASSUME NEW ch \in Channels PROVE SessionInv(ch)'
      BY <1>n, <1>17 DEF SpawnStarts, ReaderInv, SessionInv, Fresh, TypeOK
    <2>4. ASSUME NEW ch \in Channels PROVE Stage(ch)'
      <3>1. CASE ch # c
        BY <3>1, <1>17, StageFrame DEF SpawnStarts, TypeOK
      <3>2. CASE ch = c
        BY <3>2, <1>17 DEF SpawnStarts, ReaderInv, SessionInv, Fresh, Stage, Untouched, Answered, TypeOK
      <3> QED
        BY <3>1, <3>2
    <2> QED
      BY <2>1, <2>2, <2>3, <2>4 DEF IInv
  <1>18. ASSUME NEW c \in Channels, SpawnReturns(c) PROVE IInv'
    <2>1. TypeOK'
      BY <1>18 DEF SpawnReturns, SpawnerGoto, TypeOK, Dispatchers, Numbers
    <2>2. ReaderInv'
      BY <1>n, <1>18 DEF SpawnReturns, SpawnerGoto, ReaderInv, SessionInv, Fresh, TypeOK, Stage, Dispatchers
    <2>3. ASSUME NEW ch \in Channels PROVE SessionInv(ch)'
      BY <1>n, <1>18 DEF SpawnReturns, SpawnerGoto, ReaderInv, SessionInv, Fresh, TypeOK
    <2>4. ASSUME NEW ch \in Channels PROVE Stage(ch)'
      <3>1. CASE ch # c
        BY <3>1, <1>18, StageFrame DEF SpawnReturns, SpawnerGoto, TypeOK
      <3>2. CASE ch = c
        BY <3>2, <1>18 DEF SpawnReturns, SpawnerGoto, ReaderInv, SessionInv, Fresh, Stage, Untouched, Answered, TypeOK
      <3> QED
        BY <3>1, <3>2
    <2> QED
      BY <2>1, <2>2, <2>3, <2>4 DEF IInv
  <1>19. ASSUME NEW c \in Channels, SpawnCancelled(c) PROVE IInv'
    <2>1. TypeOK'
      BY <1>19 DEF SpawnCancelled, SpawnerGoto, TypeOK, Dispatchers, Numbers
    <2>2. ReaderInv'
      BY <1>n, <1>19 DEF SpawnCancelled, SpawnerGoto, ReaderInv, SessionInv, Fresh, TypeOK, Stage, Dispatchers
    <2>3. ASSUME NEW ch \in Channels PROVE SessionInv(ch)'
      BY <1>n, <1>19 DEF SpawnCancelled, SpawnerGoto, ReaderInv, SessionInv, Fresh, TypeOK
    <2>4. ASSUME NEW ch \in Channels PROVE Stage(ch)'
      <3>1. CASE ch # c
        BY <3>1, <1>19, StageFrame DEF SpawnCancelled, SpawnerGoto, TypeOK
      <3>2. CASE ch = c
        BY <3>2, <1>19 DEF SpawnCancelled, SpawnerGoto, ReaderInv, SessionInv, Fresh, Stage, Untouched, Answered, TypeOK
      <3> QED
        BY <3>1, <3>2
    <2> QED
      BY <2>1, <2>2, <2>3, <2>4 DEF IInv
  <1>20. ASSUME NEW c \in Channels, SpawnFails(c) PROVE IInv'
    <2>0. Replied(c, "SpawnError")
      BY <1>20, ReplyEffect, Zenon DEF SpawnFails, SpawnerGoto, TypeOK, Answers, Numbers, spool, spawn
    <2>1. TypeOK'
      BY <1>20, <2>0 DEF SpawnFails, SpawnerGoto, Replied, TypeOK, Dispatchers, Numbers
    <2>2. ReaderInv'
      BY <1>n, <1>20, <2>0 DEF SpawnFails, SpawnerGoto, Replied, ReaderInv, SessionInv, Fresh, TypeOK, Stage, Dispatchers
    <2>3. ASSUME NEW ch \in Channels PROVE SessionInv(ch)'
      BY <1>n, <1>20, <2>0, SMTT(30), ZenonT(40) DEF SpawnFails, SpawnerGoto, Replied, ReaderInv, SessionInv, Fresh, TypeOK
    <2>4. ASSUME NEW ch \in Channels PROVE Stage(ch)'
      <3>1. CASE ch # c
        BY <3>1, <1>20, <2>0, StageFrame DEF SpawnFails, SpawnerGoto, Replied, TypeOK
      <3>2. CASE ch = c
        BY <3>2, <1>20, <2>0 DEF SpawnFails, SpawnerGoto, Replied, ReaderInv, SessionInv, Fresh, Stage, Untouched, Answered, TypeOK
      <3> QED
        BY <3>1, <3>2
    <2> QED
      BY <2>1, <2>2, <2>3, <2>4 DEF IInv
  <1>21. ASSUME NEW c \in Channels, SpawnerTakesKill(c) PROVE IInv'
    <2>1. TypeOK'
      BY <1>21 DEF SpawnerTakesKill, SpawnerGoto, AfterSwap, SetKilled, TypeOK, Dispatchers, Numbers
    <2>2. ReaderInv'
      BY <1>n, <1>21 DEF SpawnerTakesKill, SpawnerGoto, AfterSwap, SetKilled, ReaderInv, SessionInv, Fresh, TypeOK, Stage, Dispatchers
    <2>3. ASSUME NEW ch \in Channels PROVE SessionInv(ch)'
      BY <1>n, <1>21, SMTT(30), ZenonT(40) DEF SpawnerTakesKill, SpawnerGoto, AfterSwap, SetKilled, ReaderInv, SessionInv, Fresh, TypeOK
    <2>4. ASSUME NEW ch \in Channels PROVE Stage(ch)'
      <3>1. CASE ch # c
        BY <3>1, <1>21, StageFrame, Zenon DEF SpawnerTakesKill, SpawnerGoto, AfterSwap, SetKilled, TypeOK
      <3>2. CASE ch = c
        BY <3>2, <1>21 DEF SpawnerTakesKill, SpawnerGoto, AfterSwap, SetKilled, ReaderInv, SessionInv, Fresh, Stage, Untouched, Answered, TypeOK
      <3> QED
        BY <3>1, <3>2
    <2> QED
      BY <2>1, <2>2, <2>3, <2>4 DEF IInv
  <1>22. ASSUME NEW c \in Channels, NEW p \in {"killed", "unkilled"}, SpawnerKills(c, p) PROVE IInv'
    <2>1. TypeOK'
      BY <1>22 DEF SpawnerKills, SpawnerGoto, Kill, TypeOK, Dispatchers, Numbers
    <2>2. ReaderInv'
      BY <1>n, <1>22 DEF SpawnerKills, SpawnerGoto, Kill, ReaderInv, SessionInv, Fresh, TypeOK, Stage, Dispatchers
    <2>3. ASSUME NEW ch \in Channels PROVE SessionInv(ch)'
      BY <1>n, <1>22, SMTT(30), ZenonT(40) DEF SpawnerKills, SpawnerGoto, Kill, ReaderInv, SessionInv, Fresh, TypeOK
    <2>4. ASSUME NEW ch \in Channels PROVE Stage(ch)'
      <3>1. CASE ch # c
        BY <3>1, <1>22, StageFrame DEF SpawnerKills, SpawnerGoto, Kill, TypeOK
      <3>2. CASE ch = c
        BY <3>2, <1>22 DEF SpawnerKills, SpawnerGoto, Kill, ReaderInv, SessionInv, Fresh, Stage, Untouched, Answered, TypeOK
      <3> QED
        BY <3>1, <3>2
    <2> QED
      BY <2>1, <2>2, <2>3, <2>4 DEF IInv
  <1>23. ASSUME NEW c \in Channels, SpawnerReplies(c) PROVE IInv'
    <2>0. Replied(c, IF proc[c] = "killed" THEN "KillOk" ELSE "KillError")
      BY <1>23, ReplyEffect, Zenon DEF SpawnerReplies, SpawnerGoto, KillReply, TypeOK, Answers, Numbers, spool, spawn
    <2>1. TypeOK'
      BY <1>23, <2>0 DEF SpawnerReplies, SpawnerGoto, KillReply, Replied, TypeOK, Dispatchers, Numbers
    <2>2. ReaderInv'
      BY <1>n, <1>23, <2>0 DEF SpawnerReplies, SpawnerGoto, KillReply, Replied, ReaderInv, SessionInv, Fresh, TypeOK, Stage, Dispatchers
    <2>3. ASSUME NEW ch \in Channels PROVE SessionInv(ch)'
      BY <1>n, <1>23, <2>0, SMTT(30) DEF SpawnerReplies, SpawnerGoto, KillReply, Replied, ReaderInv, SessionInv, Fresh, TypeOK
    <2>4. ASSUME NEW ch \in Channels PROVE Stage(ch)'
      <3>1. CASE ch # c
        BY <3>1, <1>23, <2>0, StageFrame DEF SpawnerReplies, SpawnerGoto, KillReply, Replied, TypeOK
      <3>2. CASE ch = c
        <4>1. replies[c] = <<>> /\ proc[c] \in {"killed", "unkilled"} /\ kills[c] = 1 /\ proc' = proc /\ kills' = kills
          BY <1>23, Zenon DEF SpawnerReplies, Stage
        <4>2. Answered(c)'
          BY <4>1, <2>0, Zenon DEF Replied, Answered
        <4>3. spawner'[c] = "done" /\ killer'[c] \in {"none", "start", "done"}
          BY <1>23, Zenon DEF SpawnerReplies, SpawnerGoto, Stage, TypeOK
        <4>4. kills'[c] <= 1 /\ proc'[c] # "running"
          BY <4>1, <1>o, Zenon
        <4> QED
          BY <3>2, <4>2, <4>3, <4>4, Zenon DEF Stage
      <3> QED
        BY <3>1, <3>2
    <2> QED
      BY <2>1, <2>2, <2>3, <2>4 DEF IInv
  <1>24. ASSUME NEW c \in Channels, KillerReceives(c) PROVE IInv'
    <2>1. TypeOK'
      BY <1>24 DEF KillerReceives, SpawnerGoto, KillerGoto, AfterSwap, SetKilled, TypeOK, Dispatchers, Numbers
    <2>2. ReaderInv'
      BY <1>n, <1>24 DEF KillerReceives, SpawnerGoto, KillerGoto, AfterSwap, SetKilled, ReaderInv, SessionInv, Fresh, TypeOK, Stage, Dispatchers
    <2>3. ASSUME NEW ch \in Channels PROVE SessionInv(ch)'
      BY <1>n, <1>24 DEF KillerReceives, SpawnerGoto, KillerGoto, AfterSwap, SetKilled, ReaderInv, SessionInv, Fresh, TypeOK
    <2>4. ASSUME NEW ch \in Channels PROVE Stage(ch)'
      <3>1. CASE ch # c
        BY <3>1, <1>24, StageFrame, Zenon DEF KillerReceives, SpawnerGoto, KillerGoto, AfterSwap, SetKilled, TypeOK
      <3>2. CASE ch = c
        BY <3>2, <1>24 DEF KillerReceives, SpawnerGoto, KillerGoto, AfterSwap, SetKilled, ReaderInv, SessionInv, Fresh, Stage, Untouched, Answered, TypeOK
      <3> QED
        BY <3>1, <3>2
    <2> QED
      BY <2>1, <2>2, <2>3, <2>4 DEF IInv
  <1>25. ASSUME NEW c \in Channels, KillerExits(c) PROVE IInv'
    <2>1. TypeOK'
      BY <1>25 DEF KillerExits, KillerGoto, TypeOK, Dispatchers, Numbers
    <2>2. ReaderInv'
      BY <1>n, <1>25 DEF KillerExits, KillerGoto, ReaderInv, SessionInv, Fresh, TypeOK, Stage, Dispatchers
    <2>3. ASSUME NEW ch \in Channels PROVE SessionInv(ch)'
      BY <1>n, <1>25, Zenon DEF KillerExits, KillerGoto, ReaderInv, SessionInv, Fresh, TypeOK
    <2>4. ASSUME NEW ch \in Channels PROVE Stage(ch)'
      <3>1. CASE ch # c
        BY <3>1, <1>25, StageFrame DEF KillerExits, KillerGoto, TypeOK
      <3>2. CASE ch = c
        BY <3>2, <1>25 DEF KillerExits, KillerGoto, ReaderInv, SessionInv, Fresh, Stage, Untouched, Answered, TypeOK
      <3> QED
        BY <3>1, <3>2
    <2> QED
      BY <2>1, <2>2, <2>3, <2>4 DEF IInv
  <1>26. ASSUME NEW c \in Channels, KillerCancels(c) PROVE IInv'
    <2>1. TypeOK'
      BY <1>26 DEF KillerCancels, KillerGoto, TypeOK, Dispatchers, Numbers
    <2>2. ReaderInv'
      BY <1>n, <1>26 DEF KillerCancels, KillerGoto, ReaderInv, SessionInv, Fresh, TypeOK, Stage, Dispatchers
    <2>3. ASSUME NEW ch \in Channels PROVE SessionInv(ch)'
      BY <1>n, <1>26, SMTT(30), ZenonT(40) DEF KillerCancels, KillerGoto, ReaderInv, SessionInv, Fresh, TypeOK
    <2>4. ASSUME NEW ch \in Channels PROVE Stage(ch)'
      <3>1. CASE ch # c
        BY <3>1, <1>26, StageFrame DEF KillerCancels, KillerGoto, TypeOK
      <3>2. CASE ch = c
        BY <3>2, <1>26 DEF KillerCancels, KillerGoto, ReaderInv, SessionInv, Fresh, Stage, Untouched, Answered, TypeOK
      <3> QED
        BY <3>1, <3>2
    <2> QED
      BY <2>1, <2>2, <2>3, <2>4 DEF IInv
  <1>27. ASSUME NEW c \in Channels, NEW p \in {"killed", "unkilled"}, KillerKills(c, p) PROVE IInv'
    <2>1. TypeOK'
      BY <1>27 DEF KillerKills, KillerGoto, Kill, TypeOK, Dispatchers, Numbers
    <2>2. ReaderInv'
      BY <1>n, <1>27 DEF KillerKills, KillerGoto, Kill, ReaderInv, SessionInv, Fresh, TypeOK, Stage, Dispatchers
    <2>3. ASSUME NEW ch \in Channels PROVE SessionInv(ch)'
      BY <1>n, <1>27, SMTT(30) DEF KillerKills, KillerGoto, Kill, ReaderInv, SessionInv, Fresh, TypeOK
    <2>4. ASSUME NEW ch \in Channels PROVE Stage(ch)'
      <3>1. CASE ch # c
        BY <3>1, <1>27, StageFrame DEF KillerKills, KillerGoto, Kill, TypeOK
      <3>2. CASE ch = c
        BY <3>2, <1>27 DEF KillerKills, KillerGoto, Kill, ReaderInv, SessionInv, Fresh, Stage, Untouched, Answered, TypeOK
      <3> QED
        BY <3>1, <3>2
    <2> QED
      BY <2>1, <2>2, <2>3, <2>4 DEF IInv
  <1>28. ASSUME NEW c \in Channels, KillerReplies(c) PROVE IInv'
    <2>0. Replied(c, IF proc[c] = "killed" THEN "KillOk" ELSE "KillError")
      BY <1>28, ReplyEffect, Zenon DEF KillerReplies, KillerGoto, KillReply, TypeOK, Answers, Numbers, spool, spawn
    <2>1. TypeOK'
      BY <1>28, <2>0 DEF KillerReplies, KillerGoto, KillReply, Replied, TypeOK, Dispatchers, Numbers
    <2>2. ReaderInv'
      BY <1>n, <1>28, <2>0 DEF KillerReplies, KillerGoto, KillReply, Replied, ReaderInv, SessionInv, Fresh, TypeOK, Stage, Dispatchers
    <2>3. ASSUME NEW ch \in Channels PROVE SessionInv(ch)'
      BY <1>n, <1>28, <2>0, SMTT(30), ZenonT(40) DEF KillerReplies, KillerGoto, KillReply, Replied, ReaderInv, SessionInv, Fresh, TypeOK
    <2>4. ASSUME NEW ch \in Channels PROVE Stage(ch)'
      <3>1. CASE ch # c
        BY <3>1, <1>28, <2>0, StageFrame DEF KillerReplies, KillerGoto, KillReply, Replied, TypeOK
      <3>2. CASE ch = c
        <4>1. replies[c] = <<>> /\ proc[c] \in {"killed", "unkilled"} /\ kills[c] = 1 /\ proc' = proc /\ kills' = kills
          BY <1>28, Zenon DEF KillerReplies, Stage
        <4>2. Answered(c)'
          BY <4>1, <2>0 DEF Replied, Answered
        <4>3. spawner'[c] = "done" /\ killer'[c] \in {"none", "start", "done"}
          BY <1>28, Zenon DEF KillerReplies, KillerGoto, Stage, TypeOK
        <4>4. kills'[c] <= 1 /\ proc'[c] # "running"
          BY <4>1, <1>o, Zenon
        <4> QED
          BY <3>2, <4>2, <4>3, <4>4, Zenon DEF Stage
      <3> QED
        BY <3>1, <3>2
    <2> QED
      BY <2>1, <2>2, <2>3, <2>4 DEF IInv
  <1>29. ASSUME NEW c \in Channels, Output(c) PROVE IInv'
    <2>1. TypeOK'
      BY <1>29 DEF Output, Write, TypeOK, Dispatchers, Numbers
    <2>2. ReaderInv'
      BY <1>n, <1>29 DEF Output, Write, ReaderInv, SessionInv, Fresh, TypeOK, Stage, Dispatchers
    <2>3. ASSUME NEW ch \in Channels PROVE SessionInv(ch)'
      BY <1>n, <1>29 DEF Output, Write, ReaderInv, SessionInv, Fresh, TypeOK
    <2>4. ASSUME NEW ch \in Channels PROVE Stage(ch)'
      BY <1>29, StageFrame, Zenon DEF Output, Write
    <2> QED
      BY <2>1, <2>2, <2>3, <2>4 DEF IInv
  <1>30. ASSUME UNCHANGED vars PROVE IInv'
    <2>1. TypeOK' /\ ReaderInv'
      BY <1>30 DEF vars, TypeOK, ReaderInv, Fresh
    <2>2. ASSUME NEW ch \in Channels PROVE SessionInv(ch)' /\ Stage(ch)'
      BY <1>30, StageFrame, Zenon DEF vars, SessionInv, Fresh
    <2> QED
      BY <2>1, <2>2 DEF IInv
  <1> QED
    BY <1>1, <1>2, <1>3, <1>4, <1>5, <1>6, <1>7, <1>8, <1>9, <1>10, <1>11, <1>12, <1>13, <1>14, <1>15, <1>16, <1>17, <1>18, <1>19, <1>20, <1>21, <1>22, <1>23, <1>24, <1>25, <1>26, <1>27, <1>28, <1>29, <1>30
    DEF Next, Handle, Return, Read, Spooler, Spawner, AsyncKill, SkipMessage

\* The invariant holds before the first message.
LEMMA InitIInv == Init => IInv
  <1> SUFFICES ASSUME Init PROVE IInv
    OBVIOUS
  <1>1. 0 \in Channels /\ Channels \subseteq Nat
    BY MaxChannelAssumption DEF Channels
  <1>2. TypeOK
    BY <1>1 DEF Init, TypeOK, Numbers, Dispatchers
  <1>3. ReaderInv /\ \A ch \in Channels : SessionInv(ch) /\ Stage(ch)
    BY <1>1 DEF Init, ReaderInv, SessionInv, Fresh, Stage
  <1> QED
    BY <1>2, <1>3 DEF IInv

\* The inductive invariant holds in every reachable state.
THEOREM Invariance == Spec => []IInv
  BY InitIInv, NextStep, PTL DEF Spec

\* The state of a connection stays well typed: HandleConn, its dispatchers and
\* their goroutines only ever store what the code declares.
THEOREM TypeCorrect == Spec => []TypeOK
  BY Invariance, PTL DEF IInv

\* For any number of channels: a worker that is started and not yet killed is
\* in the hands of exactly one goroutine that will kill it.
THEOREM NoOrphanWorker == Spec => []NoOrphan
  <1>1. IInv => NoOrphan
    BY Zenon DEF IInv, TypeOK, Stage, NoOrphan
  <1> QED
    BY <1>1, Invariance, PTL

\* For any number of channels: Process.Kill is called at most once for a
\* worker.
THEOREM WorkerKilledOnce == Spec => []KilledOnce
  <1>1. ASSUME IInv, NEW ch \in Channels PROVE kills[ch] <= 1
    <2>1. kills[ch] \in {0, 1} \/ kills[ch] <= 1
      BY <1>1 DEF IInv, TypeOK, Stage, Untouched
    <2> QED
      BY <2>1, <1>1 DEF IInv, TypeOK
  <1>2. IInv => KilledOnce
    BY <1>1 DEF KilledOnce
  <1> QED
    BY <1>2, Invariance, PTL

\* For any number of channels: a spawn request gets at most one terminal
\* reply, and the reply is true.
THEOREM SpawnAnswer == Spec => []SpawnAnsweredOnce
  <1>1. IInv => SpawnAnsweredOnce
    BY Zenon DEF IInv, TypeOK, Stage, Untouched, Answered, SpawnAnsweredOnce
  <1> QED
    BY <1>1, Invariance, PTL

\* For any number of channels: no channel is opened twice, and asyncKill is
\* started at most once for a channel.
THEOREM ChannelUse == Spec => []ChannelUsedOnce
  <1>1. IInv => ChannelUsedOnce
    BY Zenon DEF IInv, ReaderInv, Fresh, ChannelUsedOnce
  <1> QED
    BY <1>1, Invariance, PTL

-----------------------------------------------------------------------------
(* What is owed to a client is in somebody's hands.                        *)

\* A kill request is not lost between the channel and the context: once
\* asyncKill is over, a spawner that is not has been told to stop.  This is
\* what the liveness property KillRequestEndsWorker rests on.
KillHeard ==
  \A ch \in Channels :
    killer[ch] = "done" /\ spawner[ch] # "done" => SpawnCtxDone(ch)

\* The goroutines of a channel do not all return with its request unanswered:
\* when the one of onSpool is over, or that of onSpawn with no asyncKill left to
\* answer for it, there is an answer, unless the spawn was cancelled before there
\* was a worker.  This is what the liveness property RequestsAnswered rests on.
Settled(ch) ==
  /\ spooler[ch] = "done" => replies[ch] # <<>>
  /\ spawner[ch] = "done" /\ killer[ch] \notin {"kill", "reply"} =>
       replies[ch] # <<>> \/ (proc[ch] = "none" /\ SpawnCtxDone(ch))

NothingUnanswered == wire = "up" => \A ch \in Channels : Settled(ch)

CareInv(ch) ==
  /\ killer[ch] = "done" /\ spawner[ch] # "done" => SpawnCtxDone(ch)
  /\ wire = "up" => Settled(ch)

\* A reply keeps what was answered, and is an answer while the connection is up.
LEMMA ReplyAnswers ==
  ASSUME NEW c \in Channels, NEW r \in Answers, TypeOK, Reply(c, r)
  PROVE  /\ \A ch \in Channels : replies[ch] # <<>> => replies'[ch] # <<>>
         /\ wire = "up" => replies'[c] # <<>>
  <1>1. CASE wire = "up"
    <2>1. replies' = [replies EXCEPT ![c] = Append(replies[c], r)]
      BY <1>1 DEF Reply
    <2>2. replies[c] \in Seq(Answers)
      BY DEF TypeOK
    <2>3. Append(replies[c], r) # <<>>
      BY <2>2
    <2> QED
      BY <2>1, <2>3 DEF TypeOK
  <1>2. CASE wire # "up"
    BY <1>2 DEF Reply, streamVars
  <1> QED
    BY <1>1, <1>2

\* A channel whose goroutines stay where they are: its context may be
\* cancelled, its stream may grow, and the connection may break.
LEMMA CareFrame ==
  ASSUME NEW ch \in Channels, CareInv(ch),
         spooler'[ch] = spooler[ch], spawner'[ch] = spawner[ch], killer'[ch] = killer[ch],
         proc'[ch] = proc[ch] \/ spawner[ch] # "done",
         replies[ch] # <<>> => replies'[ch] # <<>>,
         SpawnCtxDone(ch) => SpawnCtxDone(ch)', wire' = "up" => wire = "up"
  PROVE  CareInv(ch)'
  BY DEF CareInv, Settled

\* No goroutine returns before its request is answered or in other hands.
LEMMA CareStep ==
  ASSUME IInv, [Next]_vars, NEW ch \in Channels, CareInv(ch)
  PROVE  CareInv(ch)'
  <1> USE DEF readerVars, connVars, procVars, goVars, streamVars, SpawnerGoto, KillerGoto
  <1>t. TypeOK /\ ReaderInv /\ SessionInv(ch) /\ Stage(ch)
    BY DEF IInv
  <1>1. ASSUME \/ HandleInvalidArgs \/ HandleError \/ FinishMessage \/ NextFails \/ UNCHANGED vars
               \/ \E c \in Channels :
                    \/ SkipMessage(c) \/ Output(c)
                    \/ \E num \in Numbers : OpenChannel(c, num) \/ GetDispatcher(c, num)
        PROVE  CareInv(ch)'
    <2>1. UNCHANGED <<spooler, spawner, killer, proc, replies, ctxDone, cancelled, wire>>
      BY <1>1, Zenon DEF HandleInvalidArgs, HandleError, FinishMessage, NextFails, vars, SkipMessage,
                         Output, Write, OpenChannel, GetDispatcher
    <2> QED
      BY <2>1, CareFrame DEF SpawnCtxDone
  <1>2. ASSUME CancelConn \/ CloseConn \/ PeerGone PROVE CareInv(ch)'
    <2>1. UNCHANGED <<spooler, spawner, killer, proc, replies, cancelled>>
      BY <1>2, Zenon DEF CancelConn, CloseConn, PeerGone
    <2>2. ctxDone => ctxDone'
      BY <1>2, Zenon DEF CancelConn, CloseConn, PeerGone
    <2>3. wire' = "up" => wire = "up"
      BY <1>2 DEF CancelConn, CloseConn, PeerGone
    <2> QED
      BY <2>1, <2>2, <2>3, CareFrame DEF SpawnCtxDone
  <1>3. ASSUME HandleSpoolCancel PROVE CareInv(ch)'
    <2>1. UNCHANGED <<spooler, spawner, killer, proc, replies, ctxDone, wire>>
      BY <1>3, Zenon DEF HandleSpoolCancel
    <2>2. cancelled[ch] => cancelled'[ch]
      BY <1>3, <1>t, Zenon DEF HandleSpoolCancel, TypeOK
    <2> QED
      BY <2>1, <2>2, CareFrame DEF SpawnCtxDone
  <1>4. ASSUME HandleBadProfile \/ SpoolCancelReply PROVE CareInv(ch)'
    <2>1. UNCHANGED <<spooler, spawner, killer, proc, ctxDone, cancelled, wire>>
      BY <1>4, Zenon DEF HandleBadProfile, SpoolCancelReply
    <2>2. PICK r \in Answers : Reply(rch, r)
      BY <1>4 DEF HandleBadProfile, SpoolCancelReply, Answers
    <2>3. replies[ch] # <<>> => replies'[ch] # <<>>
      BY <2>2, <1>t, ReplyAnswers, Zenon DEF TypeOK
    <2> QED
      BY <2>1, <2>3, CareFrame DEF SpawnCtxDone
  <1>5. ASSUME onSpool \/ onSpawn \/ HandleKill PROVE CareInv(ch)'
    <2>1. UNCHANGED <<proc, replies, ctxDone, cancelled, wire>>
      BY <1>5, Zenon DEF onSpool, onSpawn, HandleKill
    <2>2. CASE ch # rch
      <3>1. spooler'[ch] = spooler[ch] /\ spawner'[ch] = spawner[ch] /\ killer'[ch] = killer[ch]
        BY <1>5, <2>2, <1>t DEF onSpool, onSpawn, HandleKill, TypeOK
      <3> QED
        BY <2>1, <3>1, CareFrame DEF SpawnCtxDone
    <2>3. CASE ch = rch
      <3>1. CASE onSpool
        BY <3>1, <2>1, <2>3, <1>t DEF onSpool, TypeOK, Handling, ReaderInv, Fresh, CareInv, Settled
      <3>2. CASE onSpawn
        BY <3>2, <2>1, <2>3, <1>t DEF onSpawn, TypeOK, Handling, ReaderInv, Fresh, CareInv, Settled
      <3>3. CASE HandleKill
        <4>1. killer[ch] = "none" /\ killer'[ch] = "start" /\ spooler' = spooler /\ spawner' = spawner
          BY <3>3, <2>3, <1>t DEF HandleKill, TypeOK, Handling, ReaderInv
        <4> QED
          BY <2>1, <4>1, Zenon DEF CareInv, Settled, SpawnCtxDone
      <3> QED
        BY <1>5, <3>1, <3>2, <3>3
    <2> QED
      BY <2>2, <2>3
  <1>6. ASSUME NEW c \in Channels, NEW r \in {"SpoolOk", "SpoolError"}, SpoolReturns(c, r) PROVE CareInv(ch)'
    <2>1. UNCHANGED <<spawner, killer, proc, ctxDone, cancelled, wire>>
      BY <1>6, Zenon DEF SpoolReturns
    <2>2. /\ replies[ch] # <<>> => replies'[ch] # <<>>
          /\ ch = c /\ wire = "up" => replies'[ch] # <<>>
      BY <1>6, <1>t, ReplyAnswers DEF SpoolReturns, Answers
    <2>3. ch # c => spooler'[ch] = spooler[ch]
      BY <1>6, <1>t DEF SpoolReturns, TypeOK
    <2> QED
      BY <2>1, <2>2, <2>3 DEF CareInv, Settled, SpawnCtxDone
  <1>7. ASSUME NEW c \in Channels, SpawnStarts(c) \/ SpawnReturns(c) \/ SpawnCancelled(c) PROVE CareInv(ch)'
    <2>1. UNCHANGED <<spooler, killer, replies, ctxDone, cancelled, wire>>
      BY <1>7, Zenon DEF SpawnStarts, SpawnReturns, SpawnCancelled
    <2>2. ch # c => spawner'[ch] = spawner[ch] /\ proc'[ch] = proc[ch]
      BY <1>7, <1>t DEF SpawnStarts, SpawnReturns, SpawnCancelled, TypeOK
    <2>3. spawner[c] = "spawning" /\ (spawner'[c] = "done" => proc'[c] = "none" /\ SpawnCtxDone(c))
      BY <1>7, <1>t DEF SpawnStarts, SpawnReturns, SpawnCancelled, TypeOK
    <2> QED
      BY <2>1, <2>2, <2>3 DEF CareInv, Settled, SpawnCtxDone
  <1>8. ASSUME NEW c \in Channels, SpawnFails(c) \/ SpawnerReplies(c) PROVE CareInv(ch)'
    <2>1. UNCHANGED <<spooler, killer, proc, ctxDone, cancelled, wire>> /\ spawner' = [spawner EXCEPT ![c] = "done"]
      BY <1>8, Zenon DEF SpawnFails, SpawnerReplies
    <2>2. PICK r \in Answers : Reply(c, r)
      BY <1>8 DEF SpawnFails, SpawnerReplies, KillReply, Answers
    <2>3. /\ replies[ch] # <<>> => replies'[ch] # <<>>
          /\ ch = c /\ wire = "up" => replies'[ch] # <<>>
      BY <2>2, <1>t, ReplyAnswers, Zenon
    <2> QED
      BY <2>1, <2>3, <1>t DEF CareInv, Settled, SpawnCtxDone, TypeOK
  <1>9. ASSUME NEW c \in Channels,
               SpawnerTakesKill(c) \/ \E p \in {"killed", "unkilled"} : SpawnerKills(c, p)
        PROVE  CareInv(ch)'
    <2>1. UNCHANGED <<spooler, killer, replies, ctxDone, cancelled, wire>>
      BY <1>9, Zenon DEF SpawnerTakesKill, SpawnerKills
    <2>2. ch # c => spawner'[ch] = spawner[ch] /\ proc'[ch] = proc[ch]
      BY <1>9, <1>t DEF SpawnerTakesKill, SpawnerKills, Kill, TypeOK
    <2>3. ch = c => spawner[ch] # "done" /\ spawner'[ch] # "done"
      BY <1>9, <1>t DEF SpawnerTakesKill, SpawnerKills, AfterSwap, Stage, TypeOK
    <2> QED
      BY <2>1, <2>2, <2>3 DEF CareInv, Settled, SpawnCtxDone
  <1>10. ASSUME NEW c \in Channels, KillerReceives(c) PROVE CareInv(ch)'
    <2>1. UNCHANGED <<spooler, proc, replies, ctxDone, cancelled, wire>>
      BY <1>10, Zenon DEF KillerReceives
    <2>2. ch # c => spawner'[ch] = spawner[ch] /\ killer'[ch] = killer[ch]
      BY <1>10, <1>t DEF KillerReceives, TypeOK
    <2>3. ch = c => spawner'[ch] = "done" /\ killer'[ch] = "kill"
      BY <1>10, <1>t DEF KillerReceives, AfterSwap, Stage, TypeOK
    <2> QED
      BY <2>1, <2>2, <2>3, Zenon DEF CareInv, Settled, SpawnCtxDone
  <1>11. ASSUME NEW c \in Channels, KillerExits(c) PROVE CareInv(ch)'
    <2>1. UNCHANGED <<spooler, spawner, proc, replies, ctxDone, cancelled, wire>>
      BY <1>11, Zenon DEF KillerExits
    <2>2. ch # c => killer'[ch] = killer[ch]
      BY <1>11, <1>t DEF KillerExits, TypeOK
    <2>3. killer[c] = "start" /\ (spawner[c] = "done" \/ ctxDone)
      BY <1>11, Zenon DEF KillerExits
    <2> QED
      BY <2>1, <2>2, <2>3 DEF CareInv, Settled, SpawnCtxDone
  <1>12. ASSUME NEW c \in Channels, KillerCancels(c) PROVE CareInv(ch)'
    <2>1. UNCHANGED <<spooler, spawner, proc, replies, ctxDone, wire>> /\ spawner[c] # "done"
      BY <1>12 DEF KillerCancels
    <2>2. ch # c => killer'[ch] = killer[ch] /\ cancelled'[ch] = cancelled[ch]
      BY <1>12, <1>t, Zenon DEF KillerCancels, TypeOK
    <2>3. cancelled'[c]
      BY <1>12, <1>t, Zenon DEF KillerCancels, TypeOK
    <2> QED
      BY <2>1, <2>2, <2>3 DEF CareInv, Settled, SpawnCtxDone
  <1>13. ASSUME NEW c \in Channels, NEW p \in {"killed", "unkilled"}, KillerKills(c, p) PROVE CareInv(ch)'
    <2>1. UNCHANGED <<spooler, spawner, replies, ctxDone, cancelled, wire>>
      BY <1>13, Zenon DEF KillerKills
    <2>2. ch # c => killer'[ch] = killer[ch] /\ proc'[ch] = proc[ch]
      BY <1>13, <1>t DEF KillerKills, Kill, TypeOK
    <2>3. killer'[c] = "reply"
      BY <1>13, <1>t DEF KillerKills, TypeOK
    <2> QED
      BY <2>1, <2>2, <2>3 DEF CareInv, Settled, SpawnCtxDone
  <1>14. ASSUME NEW c \in Channels, KillerReplies(c) PROVE CareInv(ch)'
    <2>1. UNCHANGED <<spooler, spawner, proc, ctxDone, cancelled, wire>> /\ killer[c] = "reply"
      BY <1>14, Zenon DEF KillerReplies
    <2>2. PICK r \in Answers : Reply(c, r)
      BY <1>14 DEF KillerReplies, KillReply, Answers
    <2>3. /\ replies[ch] # <<>> => replies'[ch] # <<>>
          /\ ch = c /\ wire = "up" => replies'[ch] # <<>>
      BY <2>2, <1>t, ReplyAnswers
    <2>4. ch # c => killer'[ch] = killer[ch]
      BY <1>14, <1>t DEF KillerReplies, TypeOK
    <2>5. ch = c => spawner[ch] = "done"
      BY <2>1, <1>t DEF Stage
    <2> QED
      BY <2>1, <2>3, <2>4, <2>5 DEF CareInv, Settled, SpawnCtxDone
  <1> QED
    BY <1>1, <1>2, <1>3, <1>4, <1>5, <1>6, <1>7, <1>8, <1>9, <1>10, <1>11, <1>12, <1>13, <1>14, Zenon
    DEF Next, Handle, Return, Read, Spooler, Spawner, AsyncKill

\* The care of every channel is an invariant of the connection.
THEOREM CareInvariance == Spec => [](\A ch \in Channels : CareInv(ch))
  <1>1. Init => \A ch \in Channels : CareInv(ch)
    BY DEF Init, CareInv, Settled
  <1>2. IInv /\ (\A ch \in Channels : CareInv(ch)) /\ [Next]_vars => (\A ch \in Channels : CareInv(ch))'
    BY CareStep
  <1> QED
    BY <1>1, <1>2, Invariance, PTL DEF Spec

\* For any number of channels: a kill request that asyncKill is done with has
\* reached the spawner, by the channel of the process or by the context.
THEOREM KillRequestHeard == Spec => []KillHeard
  <1>1. (\A ch \in Channels : CareInv(ch)) => KillHeard
    BY DEF CareInv, KillHeard
  <1> QED
    BY <1>1, CareInvariance, PTL

\* For any number of channels: no spool or spawn request is dropped by all the
\* goroutines that could answer it.
THEOREM RequestsSettled == Spec => []NothingUnanswered
  <1>1. (\A ch \in Channels : CareInv(ch)) => NothingUnanswered
    BY DEF CareInv, NothingUnanswered
  <1> QED
    BY <1>1, CareInvariance, PTL
=============================================================================
