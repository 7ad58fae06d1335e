----------------------- MODULE ConnectionClientProofs -----------------------
(***************************************************************************)
(* What the client of a connection can see, for any number of channels:    *)
(* which frames can follow a terminal reply, that the connection           *)
(* implements Workers, and what a client may conclude from that.  All rest *)
(* on the invariant of ConnectionProofs.                                   *)
(***************************************************************************)
EXTENDS ConnectionProofs, ConnectionWorkers

(* Frames after a terminal reply                                         *)

\* A spool is cancelled at most once: a cancelled channel is attached only
\* until the reply to the cancel request has detached it, and the reader holds
\* no spool dispatcher of a cancelled channel.
CancelInv(ch) ==
  /\ spawner[ch] = "none" /\ spooler[ch] = "none" => ~cancelled[ch]
  /\ session[ch] = "spool" => ~cancelled[ch] \/ (rpc = "cancelReply" /\ rch = ch)
  /\ rch = ch /\ rpc \in {"handle", "finish"} /\ rdisp = "spool" => ~cancelled[ch]
  /\ rch = ch /\ rpc = "cancelReply" => cancelled[ch]

\* What may follow a terminal reply: on a spawn channel only what a killed
\* worker left behind; on a spool channel the reply of the goroutine and the
\* reply to the cancel request, one of each.
LateInv(ch) ==
  /\ spawner[ch] = "none" /\ spooler[ch] = "none" => ~late[ch]
  /\ spawner[ch] # "none" /\ late[ch] => replies[ch] # <<>> /\ proc[ch] \in {"killed", "unkilled"}
  /\ spooler[ch] = "spooling" =>
       ~late[ch] /\ (replies[ch] # <<>> => cancelled[ch] /\ Len(replies[ch]) = 1)
  /\ spooler[ch] = "done" =>
       IF late[ch] THEN cancelled[ch] /\ Len(replies[ch]) = 2 ELSE Len(replies[ch]) <= 1
  /\ rch = ch /\ rpc = "cancelReply" =>
       ~late[ch] /\ (spooler[ch] = "spooling" => replies[ch] = <<>>)

LateIInv == IInv /\ \A ch \in Channels : CancelInv(ch) /\ LateInv(ch)

\* What a reply does to the history of its stream: it is lost with the
\* connection, or it is one more entry, late if it is not the first.
LEMMA ReplyHistory ==
  ASSUME NEW c \in Channels, NEW r \in Answers, TypeOK, Reply(c, r)
  PROVE  /\ session' = [session EXCEPT ![c] = "none"]
         /\ \A ch \in Channels : ch # c => replies'[ch] = replies[ch] /\ late'[ch] = late[ch]
         /\ \/ replies'[c] = replies[c] /\ late'[c] = late[c]
            \/ /\ Len(replies'[c]) = Len(replies[c]) + 1
               /\ late'[c] = (late[c] \/ replies[c] # <<>>)
  <1> USE DEF TypeOK, Reply, Detach, streamVars
  <1>1. CASE wire = "up"
    <2>1. replies' = [replies EXCEPT ![c] = Append(replies[c], r)]
      BY <1>1
    <2>2. late' = [late EXCEPT ![c] = late[c] \/ replies[c] # <<>>]
      BY <1>1, Zenon
    <2>3. late'[c] = (late[c] \/ replies[c] # <<>>)
      BY <2>2, Zenon
    <2>4. \A ch \in Channels : ch # c => late'[ch] = late[ch]
      BY <2>2, Zenon
    <2>5. Len(replies'[c]) = Len(replies[c]) + 1
      BY <2>1
    <2> QED
      BY <2>1, <2>3, <2>4, <2>5
  <1>2. CASE wire # "up"
    BY <1>2
  <1> QED
    BY <1>1, <1>2

\* A stream with at most one reply is empty or has exactly one.
LEMMA AtMostOne ==
  ASSUME NEW s \in Seq(Answers)
  PROVE  Len(s) <= 1 <=> Len(s) = 0 \/ Len(s) = 1
  <1> DEFINE n == Len(s)
  <1>1. n \in Nat
    OBVIOUS
  <1> HIDE DEF n
  <1>2. n <= 1 <=> n = 0 \/ n = 1
    BY <1>1
  <1> QED
    BY <1>2 DEF n

\* A channel whose entries and whose dispatcher a step leaves alone keeps what
\* was said of it, unless the reader turns to it.
LEMMA LateFrame ==
  ASSUME NEW ch \in Channels, CancelInv(ch), LateInv(ch),
         spawner'[ch] = spawner[ch], spooler'[ch] = spooler[ch], proc'[ch] = proc[ch],
         cancelled'[ch] = cancelled[ch], late'[ch] = late[ch], replies'[ch] = replies[ch],
         session'[ch] \in {session[ch], "none"},
         \/ <<rpc, rch, rdisp>>' = <<rpc, rch, rdisp>>
         \/ /\ rch # ch \/ rpc # "cancelReply"
            /\ rch' # ch \/ rpc' \notin {"handle", "finish", "cancelReply"}
         \/ /\ rpc # "cancelReply" \/ session'[ch] = "none"
            /\ rpc' \notin {"handle", "finish", "cancelReply"} \/ (rpc' = "finish" /\ rdisp' # "spool")
  PROVE  CancelInv(ch)' /\ LateInv(ch)'
  BY Zenon DEF CancelInv, LateInv

\* Every step keeps it: the only frames after a terminal reply are those two.
LEMMA LateStep == LateIInv /\ [Next]_vars => LateIInv'
  <1> SUFFICES ASSUME IInv, \A ch \in Channels : CancelInv(ch) /\ LateInv(ch), [Next]_vars,
                      NEW ch \in Channels
               PROVE  CancelInv(ch)' /\ LateInv(ch)'
    BY NextStep DEF LateIInv
  <1> USE DEF readerVars, connVars, procVars, goVars, streamVars
  <1>t. TypeOK /\ ReaderInv /\ SessionInv(ch) /\ Stage(ch) /\ CancelInv(ch) /\ LateInv(ch)
    BY DEF IInv
  <1>s. replies[ch] \in Seq(Answers) /\ replies'[ch] \in Seq(Answers)
    BY NextStep DEF IInv, TypeOK
  <1>l. replies[ch] = <<>> <=> Len(replies[ch]) = 0
    BY <1>s
  <1>1. ASSUME HandleInvalidArgs PROVE CancelInv(ch)' /\ LateInv(ch)'
    BY <1>1, <1>t, LateFrame, Zenon DEF HandleInvalidArgs, Handling, Goto, TypeOK, ReaderInv
  <1>2. ASSUME HandleError PROVE CancelInv(ch)' /\ LateInv(ch)'
    BY <1>2, <1>t, LateFrame, Zenon DEF HandleError, Handling, Goto, TypeOK, ReaderInv
  <1>3. ASSUME HandleBadProfile PROVE CancelInv(ch)' /\ LateInv(ch)'
    <2>1. rch \in Channels /\ Reply(rch, IF rnum = spool THEN "SpoolError" ELSE "SpawnError") /\ (IF rnum = spool THEN "SpoolError" ELSE "SpawnError") \in Answers
      BY <1>3, <1>t DEF HandleBadProfile, Handling, Goto, TypeOK, Answers
    <2>2. /\ session' = [session EXCEPT ![rch] = "none"]
          /\ \A x \in Channels : x # rch => replies'[x] = replies[x] /\ late'[x] = late[x]
          /\ \/ replies'[rch] = replies[rch] /\ late'[rch] = late[rch]
             \/ /\ Len(replies'[rch]) = Len(replies[rch]) + 1
                /\ late'[rch] = (late[rch] \/ replies[rch] # <<>>)
      BY <2>1, <1>t, ReplyHistory
    <2>3. CASE ch # rch
      <3>1. /\ spawner' = spawner /\ spooler' = spooler /\ proc' = proc /\ cancelled' = cancelled
            /\ rch' = rch
        BY <1>3 DEF HandleBadProfile, Handling, Goto
      <3>2. session'[ch] = session[ch] /\ replies'[ch] = replies[ch] /\ late'[ch] = late[ch]
        BY <2>3, <2>2, <1>t, Zenon DEF TypeOK
      <3> QED
        BY <2>3, <3>1, <3>2, <1>t, LateFrame, Zenon
    <2>4. CASE ch = rch
      BY <2>4, <2>2, <1>3, <1>t, Zenon DEF HandleBadProfile, Handling, Goto, CancelInv, LateInv, TypeOK, ReaderInv, SessionInv, Fresh, Stage, Untouched, Answered
    <2> QED
      BY <2>3, <2>4
  <1>4. ASSUME onSpool PROVE CancelInv(ch)' /\ LateInv(ch)'
    <2>1. CASE ch # rch
      BY <2>1, <1>4, <1>t, LateFrame, Zenon DEF onSpool, Handling, Goto, TypeOK
    <2>2. CASE ch = rch
      BY <2>2, <1>4, <1>t DEF onSpool, Handling, Goto, CancelInv, LateInv, TypeOK, ReaderInv, SessionInv, Fresh, Stage, Untouched, Answered
    <2> QED
      BY <2>1, <2>2
  <1>5. ASSUME onSpawn PROVE CancelInv(ch)' /\ LateInv(ch)'
    <2>1. CASE ch # rch
      BY <2>1, <1>5, <1>t, LateFrame, Zenon DEF onSpawn, Handling, Goto, TypeOK
    <2>2. CASE ch = rch
      BY <2>2, <1>5, <1>t, Zenon DEF onSpawn, Handling, Goto, CancelInv, LateInv, TypeOK, ReaderInv, SessionInv, Fresh, Stage, Untouched, Answered
    <2> QED
      BY <2>1, <2>2
  <1>6. ASSUME HandleSpoolCancel PROVE CancelInv(ch)' /\ LateInv(ch)'
    <2>1. CASE ch # rch
      BY <2>1, <1>6, <1>t, LateFrame, Zenon DEF HandleSpoolCancel, Handling, Goto, TypeOK
    <2>2. CASE ch = rch
      BY <2>2, <1>6, <1>t, Zenon DEF HandleSpoolCancel, Handling, Goto, CancelInv, LateInv, TypeOK, ReaderInv, SessionInv, Fresh, Stage, Untouched, Answered
    <2> QED
      BY <2>1, <2>2
  <1>7. ASSUME SpoolCancelReply PROVE CancelInv(ch)' /\ LateInv(ch)'
    <2>1. rch \in Channels /\ Reply(rch, "SpoolOk") /\ ("SpoolOk") \in Answers
      BY <1>7, <1>t DEF SpoolCancelReply, Goto, TypeOK, Answers
    <2>2. /\ session' = [session EXCEPT ![rch] = "none"]
          /\ \A x \in Channels : x # rch => replies'[x] = replies[x] /\ late'[x] = late[x]
          /\ \/ replies'[rch] = replies[rch] /\ late'[rch] = late[rch]
             \/ /\ Len(replies'[rch]) = Len(replies[rch]) + 1
                /\ late'[rch] = (late[rch] \/ replies[rch] # <<>>)
      BY <2>1, <1>t, ReplyHistory
    <2>3. CASE ch # rch
      <3>1. /\ spawner' = spawner /\ spooler' = spooler /\ proc' = proc /\ cancelled' = cancelled
            /\ rch' = rch
        BY <1>7 DEF SpoolCancelReply, Goto
      <3>2. session'[ch] = session[ch] /\ replies'[ch] = replies[ch] /\ late'[ch] = late[ch]
        BY <2>3, <2>2, <1>t, Zenon DEF TypeOK
      <3> QED
        BY <2>3, <3>1, <3>2, <1>t, LateFrame, Zenon
    <2>4. CASE ch = rch
      <3>1. /\ spawner[ch] = "none" /\ spooler[ch] \in {"spooling", "done"} /\ cancelled[ch]
            /\ spawner' = spawner /\ spooler' = spooler /\ cancelled' = cancelled
            /\ session'[ch] = "none" /\ rpc' = "finish" /\ rdisp' = "none"
        BY <2>4, <2>2, <1>7, <1>t, Zenon DEF SpoolCancelReply, Goto, CancelInv, TypeOK, ReaderInv, SessionInv
      <3>2. ~late[ch] /\ Len(replies[ch]) <= 1 /\ (spooler[ch] = "spooling" => Len(replies[ch]) = 0)
        <4>1. rch = ch /\ rpc = "cancelReply"
          BY <2>4, <1>7 DEF SpoolCancelReply
        <4>2. ~late[ch] /\ (spooler[ch] = "spooling" => replies[ch] = <<>>)
          BY <4>1, Zenon DEF LateInv
        <4>3. spooler[ch] = "done" => Len(replies[ch]) <= 1
          BY <4>2, Zenon DEF LateInv
        <4>4. replies[ch] = <<>> => Len(replies[ch]) = 0
          OBVIOUS
        <4> QED
          BY <4>2, <4>3, <4>4, <3>1
      <3>3. CancelInv(ch)'
        BY <3>1 DEF CancelInv
      <3>4. CASE replies'[ch] = replies[ch] /\ late'[ch] = late[ch]
        BY <3>1, <3>2, <3>4, <3>3, <1>s, <1>l, Zenon DEF LateInv
      <3>5. CASE Len(replies'[ch]) = Len(replies[ch]) + 1 /\ late'[ch] = (late[ch] \/ replies[ch] # <<>>)
        <4>1. late'[ch] <=> Len(replies[ch]) # 0
          BY <3>2, <3>5, <1>s, <1>l, Zenon
        <4>2. CASE Len(replies[ch]) = 0
          <5>1. ~late'[ch] /\ Len(replies'[ch]) = 1 /\ replies'[ch] # <<>>
            BY <4>1, <4>2, <3>5
          <5> QED
            BY <5>1, <3>1, <3>3, <1>s DEF LateInv
        <4>3. CASE Len(replies[ch]) = 1
          <5>1. late'[ch] /\ Len(replies'[ch]) = 2 /\ spooler'[ch] = "done"
            BY <4>1, <4>3, <3>5, <3>1, <3>2
          <5> QED
            BY <5>1, <3>1, <3>3, <1>s DEF LateInv
        <4>4. Len(replies[ch]) = 0 \/ Len(replies[ch]) = 1
          BY <3>2, <1>s, AtMostOne
        <4> QED
          BY <4>2, <4>3, <4>4
      <3> QED
        BY <2>2, <2>4, <3>4, <3>5, Zenon
    <2> QED
      BY <2>3, <2>4
  <1>8. ASSUME HandleKill PROVE CancelInv(ch)' /\ LateInv(ch)'
    BY <1>8, <1>t, LateFrame, Zenon DEF HandleKill, Handling, Goto, TypeOK, ReaderInv
  <1>9. ASSUME FinishMessage PROVE CancelInv(ch)' /\ LateInv(ch)'
    <2>1. CASE ch # rch
      BY <2>1, <1>9, <1>t, LateFrame, Zenon DEF FinishMessage, Goto, Attach, Detach, TypeOK
    <2>2. CASE ch = rch
      BY <2>2, <1>9, <1>t, Zenon DEF FinishMessage, Goto, Attach, Detach, CancelInv, LateInv, TypeOK, ReaderInv, SessionInv, Fresh, Stage, Untouched, Answered
    <2> QED
      BY <2>1, <2>2
  <1>10. ASSUME NextFails PROVE CancelInv(ch)' /\ LateInv(ch)'
    BY <1>10, <1>t, LateFrame, Zenon DEF NextFails, Goto, TypeOK, ReaderInv
  <1>11. ASSUME CancelConn PROVE CancelInv(ch)' /\ LateInv(ch)'
    BY <1>11, <1>t, LateFrame, Zenon DEF CancelConn, Goto, TypeOK, ReaderInv
  <1>12. ASSUME CloseConn PROVE CancelInv(ch)' /\ LateInv(ch)'
    BY <1>12, <1>t, LateFrame, Zenon DEF CloseConn, Goto, TypeOK, ReaderInv
  <1>13. ASSUME PeerGone PROVE CancelInv(ch)' /\ LateInv(ch)'
    BY <1>13, <1>t, LateFrame, Zenon DEF PeerGone, TypeOK, ReaderInv
  <1>14. ASSUME NEW c \in Channels, NEW num \in Numbers, OpenChannel(c, num) PROVE CancelInv(ch)' /\ LateInv(ch)'
    <2>1. CASE ch # c
      BY <2>1, <1>14, <1>t, LateFrame, Zenon DEF OpenChannel, Detached, TypeOK
    <2>2. CASE ch = c
      BY <2>2, <1>14, <1>t, Zenon DEF OpenChannel, Detached, CancelInv, LateInv, TypeOK, ReaderInv, SessionInv, Fresh, Stage, Untouched, Answered
    <2> QED
      BY <2>1, <2>2
  <1>15. ASSUME NEW c \in Channels, NEW num \in Numbers, GetDispatcher(c, num) PROVE CancelInv(ch)' /\ LateInv(ch)'
    <2>1. CASE ch # c
      BY <2>1, <1>15, <1>t, LateFrame, Zenon DEF GetDispatcher, TypeOK
    <2>2. CASE ch = c
      BY <2>2, <1>15, <1>t, Zenon DEF GetDispatcher, CancelInv, LateInv, TypeOK, ReaderInv, SessionInv, Fresh, Stage, Untouched, Answered
    <2> QED
      BY <2>1, <2>2
  <1>16. ASSUME NEW c \in Channels, NEW r \in {"SpoolOk", "SpoolError"}, SpoolReturns(c, r) PROVE CancelInv(ch)' /\ LateInv(ch)'
    <2>1. c \in Channels /\ Reply(c, r) /\ (r) \in Answers
      BY <1>16, <1>t DEF SpoolReturns, TypeOK, Answers
    <2>2. /\ session' = [session EXCEPT ![c] = "none"]
          /\ \A x \in Channels : x # c => replies'[x] = replies[x] /\ late'[x] = late[x]
          /\ \/ replies'[c] = replies[c] /\ late'[c] = late[c]
             \/ /\ Len(replies'[c]) = Len(replies[c]) + 1
                /\ late'[c] = (late[c] \/ replies[c] # <<>>)
      BY <2>1, <1>t, ReplyHistory, Zenon
    <2>3. CASE ch # c
      BY <2>3, <2>2, <1>16, <1>t, LateFrame, Zenon DEF SpoolReturns, TypeOK
    <2>4. CASE ch = c
      <3>1. /\ spawner[ch] = "none" /\ spooler[ch] = "spooling" /\ spooler'[ch] = "done"
            /\ spawner' = spawner /\ cancelled' = cancelled /\ session'[ch] = "none"
            /\ rpc' = rpc /\ rch' = rch /\ rdisp' = rdisp
        BY <2>4, <2>2, <1>16, <1>t, Zenon DEF SpoolReturns, TypeOK, SessionInv
      <3>2. ~late[ch] /\ (rch = ch /\ rpc = "cancelReply" => Len(replies[ch]) = 0)
        BY <3>1, <1>t, <1>s, <1>l, Zenon DEF LateInv
      <3>6. Len(replies[ch]) = 0 \/ Len(replies[ch]) = 1
        BY <3>1, <1>t, <1>s, <1>l, Zenon DEF LateInv
      <3>7. Len(replies[ch]) = 1 => cancelled[ch]
        <4>1. replies[ch] # <<>> => cancelled[ch]
          BY <3>1, Zenon DEF LateInv
        <4>2. Len(replies[ch]) = 1 => replies[ch] # <<>>
          BY <1>l
        <4> QED
          BY <4>1, <4>2
      <3>3. CancelInv(ch)'
        BY <3>1, <1>t, Zenon DEF CancelInv
      <3>4. CASE replies'[ch] = replies[ch] /\ late'[ch] = late[ch]
        <4>1. ~late'[ch]
          BY <3>2, <3>4
        <4>2. Len(replies[ch]) <= 1
          BY <3>6, <1>s, AtMostOne
        <4> QED
          BY <3>1, <3>3, <3>4, <4>1, <4>2, Zenon DEF LateInv
      <3>5. CASE Len(replies'[ch]) = Len(replies[ch]) + 1 /\ late'[ch] = (late[ch] \/ replies[ch] # <<>>)
        <4>1. late'[ch] <=> Len(replies[ch]) # 0
          BY <3>2, <3>5, <1>s, <1>l, Zenon
        <4>2. CASE Len(replies[ch]) = 0
          <5>1. ~late'[ch] /\ Len(replies'[ch]) = 1
            BY <4>1, <4>2, <3>5
          <5>2. Len(replies'[ch]) <= 1 /\ ~(rch' = ch /\ rpc' = "cancelReply" /\ spooler'[ch] = "spooling")
            BY <5>1, <3>1
          <5> QED
            BY <5>1, <5>2, <3>1, <3>3, Zenon DEF LateInv
        <4>3. CASE Len(replies[ch]) = 1
          <5>1. late'[ch] /\ Len(replies'[ch]) = 2 /\ cancelled'[ch] /\ ~(rch' = ch /\ rpc' = "cancelReply")
            BY <4>1, <4>3, <3>5, <3>7, <3>1, <3>2
          <5> QED
            BY <5>1, <3>1, <3>3, <1>s DEF LateInv
        <4> QED
          BY <3>3, <3>6, <4>2, <4>3
      <3> QED
        BY <2>2, <2>4, <3>4, <3>5, Zenon
    <2> QED
      BY <2>3, <2>4
  <1>17. ASSUME NEW c \in Channels, SpawnStarts(c) PROVE CancelInv(ch)' /\ LateInv(ch)'
    <2>1. CASE ch # c
      BY <2>1, <1>17, <1>t, LateFrame, Zenon DEF SpawnStarts, TypeOK
    <2>2. CASE ch = c
      BY <2>2, <1>17, <1>t, Zenon DEF SpawnStarts, CancelInv, LateInv, TypeOK, ReaderInv, SessionInv, Fresh, Stage, Untouched, Answered
    <2> QED
      BY <2>1, <2>2
  <1>18. ASSUME NEW c \in Channels, SpawnReturns(c) PROVE CancelInv(ch)' /\ LateInv(ch)'
    <2>1. CASE ch # c
      BY <2>1, <1>18, <1>t, LateFrame, Zenon DEF SpawnReturns, SpawnerGoto, TypeOK
    <2>2. CASE ch = c
      BY <2>2, <1>18, <1>t, Zenon DEF SpawnReturns, SpawnerGoto, CancelInv, LateInv, TypeOK, ReaderInv, SessionInv, Fresh, Stage, Untouched, Answered
    <2> QED
      BY <2>1, <2>2
  <1>19. ASSUME NEW c \in Channels, SpawnCancelled(c) PROVE CancelInv(ch)' /\ LateInv(ch)'
    <2>1. CASE ch # c
      BY <2>1, <1>19, <1>t, LateFrame, Zenon DEF SpawnCancelled, SpawnerGoto, TypeOK
    <2>2. CASE ch = c
      BY <2>2, <1>19, <1>t, Zenon DEF SpawnCancelled, SpawnerGoto, CancelInv, LateInv, TypeOK, ReaderInv, SessionInv, Fresh, Stage, Untouched, Answered
    <2> QED
      BY <2>1, <2>2
  <1>20. ASSUME NEW c \in Channels, SpawnFails(c) PROVE CancelInv(ch)' /\ LateInv(ch)'
    <2>1. c \in Channels /\ Reply(c, "SpawnError") /\ ("SpawnError") \in Answers
      BY <1>20, <1>t DEF SpawnFails, SpawnerGoto, TypeOK, Answers
    <2>2. /\ session' = [session EXCEPT ![c] = "none"]
          /\ \A x \in Channels : x # c => replies'[x] = replies[x] /\ late'[x] = late[x]
          /\ \/ replies'[c] = replies[c] /\ late'[c] = late[c]
             \/ /\ Len(replies'[c]) = Len(replies[c]) + 1
                /\ late'[c] = (late[c] \/ replies[c] # <<>>)
      BY <2>1, <1>t, ReplyHistory
    <2>3. CASE ch # c
      BY <2>3, <2>2, <1>20, <1>t, LateFrame, Zenon DEF SpawnFails, SpawnerGoto, TypeOK
    <2>4. CASE ch = c
      BY <2>4, <2>2, <1>20, <1>t, Zenon DEF SpawnFails, SpawnerGoto, CancelInv, LateInv, TypeOK, ReaderInv, SessionInv, Fresh, Stage, Untouched, Answered
    <2> QED
      BY <2>3, <2>4
  <1>21. ASSUME NEW c \in Channels, SpawnerTakesKill(c) PROVE CancelInv(ch)' /\ LateInv(ch)'
    <2>1. CASE ch # c
      BY <2>1, <1>21, <1>t, LateFrame, Zenon DEF SpawnerTakesKill, SpawnerGoto, SetKilled, AfterSwap, TypeOK
    <2>2. CASE ch = c
      BY <2>2, <1>21, <1>t, Zenon DEF SpawnerTakesKill, SpawnerGoto, SetKilled, AfterSwap, CancelInv, LateInv, TypeOK, ReaderInv, SessionInv, Fresh, Stage, Untouched, Answered
    <2> QED
      BY <2>1, <2>2
  <1>22. ASSUME NEW c \in Channels, NEW p \in {"killed", "unkilled"}, SpawnerKills(c, p) PROVE CancelInv(ch)' /\ LateInv(ch)'
    <2>1. CASE ch # c
      BY <2>1, <1>22, <1>t, LateFrame, Zenon DEF SpawnerKills, SpawnerGoto, Kill, TypeOK
    <2>2. CASE ch = c
      BY <2>2, <1>22, <1>t, Zenon DEF SpawnerKills, SpawnerGoto, Kill, CancelInv, LateInv, TypeOK, ReaderInv, SessionInv, Fresh, Stage, Untouched, Answered
    <2> QED
      BY <2>1, <2>2
  <1>23. ASSUME NEW c \in Channels, SpawnerReplies(c) PROVE CancelInv(ch)' /\ LateInv(ch)'
    <2>1. c \in Channels /\ Reply(c, IF proc[c] = "killed" THEN "KillOk" ELSE "KillError") /\ (IF proc[c] = "killed" THEN "KillOk" ELSE "KillError") \in Answers
      BY <1>23, <1>t, Zenon DEF SpawnerReplies, SpawnerGoto, KillReply, TypeOK, Answers
    <2>2. /\ session' = [session EXCEPT ![c] = "none"]
          /\ \A x \in Channels : x # c => replies'[x] = replies[x] /\ late'[x] = late[x]
          /\ \/ replies'[c] = replies[c] /\ late'[c] = late[c]
             \/ /\ Len(replies'[c]) = Len(replies[c]) + 1
                /\ late'[c] = (late[c] \/ replies[c] # <<>>)
      BY <2>1, <1>t, ReplyHistory
    <2>3. CASE ch # c
      BY <2>3, <2>2, <1>23, <1>t, LateFrame, Zenon DEF SpawnerReplies, SpawnerGoto, KillReply, TypeOK
    <2>4. CASE ch = c
      BY <2>4, <2>2, <1>23, <1>t, Zenon DEF SpawnerReplies, SpawnerGoto, KillReply, CancelInv, LateInv, TypeOK, ReaderInv, SessionInv, Fresh, Stage, Untouched, Answered
    <2> QED
      BY <2>3, <2>4
  <1>24. ASSUME NEW c \in Channels, KillerReceives(c) PROVE CancelInv(ch)' /\ LateInv(ch)'
    <2>1. CASE ch # c
      BY <2>1, <1>24, <1>t, LateFrame, Zenon DEF KillerReceives, SpawnerGoto, KillerGoto, SetKilled, AfterSwap, TypeOK
    <2>2. CASE ch = c
      BY <2>2, <1>24, <1>t, Zenon DEF KillerReceives, SpawnerGoto, KillerGoto, SetKilled, AfterSwap, CancelInv, LateInv, TypeOK, ReaderInv, SessionInv, Fresh, Stage, Untouched, Answered
    <2> QED
      BY <2>1, <2>2
  <1>25. ASSUME NEW c \in Channels, KillerExits(c) PROVE CancelInv(ch)' /\ LateInv(ch)'
    BY <1>25, <1>t, LateFrame, Zenon DEF KillerExits, KillerGoto, TypeOK, ReaderInv
  <1>26. ASSUME NEW c \in Channels, KillerCancels(c) PROVE CancelInv(ch)' /\ LateInv(ch)'
    <2>1. CASE ch # c
      BY <2>1, <1>26, <1>t, LateFrame, Zenon DEF KillerCancels, KillerGoto, TypeOK
    <2>2. CASE ch = c
      BY <2>2, <1>26, <1>t, Zenon DEF KillerCancels, KillerGoto, CancelInv, LateInv, TypeOK, ReaderInv, SessionInv, Fresh, Stage, Untouched, Answered
    <2> QED
      BY <2>1, <2>2
  <1>27. ASSUME NEW c \in Channels, NEW p \in {"killed", "unkilled"}, KillerKills(c, p) PROVE CancelInv(ch)' /\ LateInv(ch)'
    <2>1. CASE ch # c
      BY <2>1, <1>27, <1>t, LateFrame, Zenon DEF KillerKills, KillerGoto, Kill, TypeOK
    <2>2. CASE ch = c
      BY <2>2, <1>27, <1>t, Zenon DEF KillerKills, KillerGoto, Kill, CancelInv, LateInv, TypeOK, ReaderInv, SessionInv, Fresh, Stage, Untouched, Answered
    <2> QED
      BY <2>1, <2>2
  <1>28. ASSUME NEW c \in Channels, KillerReplies(c) PROVE CancelInv(ch)' /\ LateInv(ch)'
    <2>1. c \in Channels /\ Reply(c, IF proc[c] = "killed" THEN "KillOk" ELSE "KillError") /\ (IF proc[c] = "killed" THEN "KillOk" ELSE "KillError") \in Answers
      BY <1>28, <1>t DEF KillerReplies, KillerGoto, KillReply, TypeOK, Answers
    <2>2. /\ session' = [session EXCEPT ![c] = "none"]
          /\ \A x \in Channels : x # c => replies'[x] = replies[x] /\ late'[x] = late[x]
          /\ \/ replies'[c] = replies[c] /\ late'[c] = late[c]
             \/ /\ Len(replies'[c]) = Len(replies[c]) + 1
                /\ late'[c] = (late[c] \/ replies[c] # <<>>)
      BY <2>1, <1>t, ReplyHistory
    <2>3. CASE ch # c
      BY <2>3, <2>2, <1>28, <1>t, LateFrame, Zenon DEF KillerReplies, KillerGoto, KillReply, TypeOK
    <2>4. CASE ch = c
      BY <2>4, <2>2, <1>28, <1>t, Zenon DEF KillerReplies, KillerGoto, KillReply, CancelInv, LateInv, TypeOK, ReaderInv, SessionInv, Fresh, Stage, Untouched, Answered
    <2> QED
      BY <2>3, <2>4
  <1>29. ASSUME NEW c \in Channels, Output(c) PROVE CancelInv(ch)' /\ LateInv(ch)'
    <2>1. CASE ch # c
      BY <2>1, <1>29, <1>t, LateFrame, Zenon DEF Output, Write, TypeOK
    <2>2. CASE ch = c
      BY <2>2, <1>29, <1>t, Zenon DEF Output, Write, CancelInv, LateInv, TypeOK, ReaderInv, SessionInv, Fresh, Stage, Untouched, Answered
    <2> QED
      BY <2>1, <2>2
  <1>30. ASSUME UNCHANGED vars PROVE CancelInv(ch)' /\ LateInv(ch)'
    BY <1>30, <1>t, LateFrame, Zenon DEF vars
  <1> QED
    BY <1>1, <1>2, <1>3, <1>4, <1>5, <1>6, <1>7, <1>8, <1>9, <1>10, <1>11, <1>12, <1>13, <1>14, <1>15, <1>16, <1>17, <1>18, <1>19, <1>20, <1>21, <1>22, <1>23, <1>24, <1>25, <1>26, <1>27, <1>28, <1>29, <1>30
    DEF Next, Handle, Return, Read, Spooler, Spawner, AsyncKill, SkipMessage

\* For any number of channels: a frame that follows a terminal reply is output
\* of a killed worker, or the second of the two answers to a cancelled spool.
THEOREM LateFrames == Spec => []LateExplained
  <1>1. Init => LateIInv
    <2>1. Init => IInv
      BY InitIInv
    <2>2. ASSUME Init PROVE \A ch \in Channels : CancelInv(ch) /\ LateInv(ch)
      BY <2>2 DEF Init, CancelInv, LateInv
    <2> QED
      BY <2>1, <2>2 DEF LateIInv
  <1>2. LateIInv => LateExplained
    <2> SUFFICES ASSUME LateIInv, NEW ch \in Channels, late[ch]
                 PROVE  \/ proc[ch] \in {"killed", "unkilled"} /\ Len(replies[ch]) = 1
                        \/ spooler[ch] = "done" /\ cancelled[ch] /\ Len(replies[ch]) = 2
      BY DEF LateExplained
    <2>1. TypeOK /\ Stage(ch) /\ SessionInv(ch) /\ LateInv(ch)
      BY DEF LateIInv, IInv
    <2> QED
      <3>1. spawner[ch] # "none" \/ spooler[ch] = "done"
        BY <2>1 DEF LateInv, TypeOK
      <3>2. CASE spawner[ch] # "none"
        <4>1. replies[ch] # <<>> /\ proc[ch] \in {"killed", "unkilled"}
          BY <3>2, <2>1 DEF LateInv
        <4>2. replies[ch] \in {<<"KillOk">>, <<"KillError">>, <<"SpawnError">>}
          BY <3>2, <4>1, <2>1, Zenon DEF TypeOK, Stage, Untouched, Answered
        <4> QED
          BY <4>1, <4>2, SMTT(30)
      <3>3. CASE spooler[ch] = "done"
        BY <3>3, <2>1, Zenon DEF LateInv
      <3> QED
        BY <3>1, <3>2, <3>3
  <1> QED
    BY <1>1, <1>2, LateStep, PTL DEF Spec

-----------------------------------------------------------------------------
(***************************************************************************)
(* A connection implements Workers.  The mapping reads the spawner, the    *)
(* process and the replies of a channel, so a step that leaves them alone  *)
(* is a step that gives channels up; the others change one channel, and    *)
(* the inductive invariant says how far that channel is.                   *)
(***************************************************************************)

\* A step that a client cannot tell, or that gives channels up.
LEMMA QuietStep ==
  ASSUME \A ch \in Channels :
           /\ Life(ch)' = Life(ch) /\ Answer(ch)' = Answer(ch)
           /\ GivenUp(ch) => GivenUp(ch)'
  PROVE  [W!Next]_(W!vars)
  <1>1. [ch \in Channels |-> Life(ch)]' = [ch \in Channels |-> Life(ch)]
    OBVIOUS
  <1>2. [ch \in Channels |-> Answer(ch)]' = [ch \in Channels |-> Answer(ch)]
    OBVIOUS
  <1>3. [ch \in Channels |-> GivenUp(ch)]' \in [Channels -> BOOLEAN]
    BY DEF GivenUp
  <1>4. W!GiveUp
    BY <1>1, <1>2, <1>3 DEF W!GiveUp
  <1> QED
    BY <1>4, Zenon DEF W!Next

\* A step that changes what became of the worker of one channel.
LEMMA LifeStep ==
  ASSUME NEW c \in Channels,
         \A ch \in Channels : GivenUp(ch)' = GivenUp(ch) /\ Answer(ch)' = Answer(ch),
         \A ch \in Channels : ch # c => Life(ch)' = Life(ch),
         \/ Life(c) = "none" /\ Life(c)' = "spawning"
         \/ Life(c) = "spawning" /\ Life(c)' = "running"
         \/ Life(c) = "spawning" /\ Life(c)' = "never" /\ GivenUp(c)
         \/ Life(c) = "running" /\ Life(c)' \in {"killed", "unkilled"} /\ GivenUp(c)
  PROVE  W!Next
  <1> DEFINE L == [ch \in Channels |-> Life(ch)]
  <1>1. L' = [L EXCEPT ![c] = Life(c)'] /\ L[c] = Life(c)
    BY Zenon
  <1>2. [ch \in Channels |-> GivenUp(ch)]' = [ch \in Channels |-> GivenUp(ch)]
    OBVIOUS
  <1>3. [ch \in Channels |-> Answer(ch)]' = [ch \in Channels |-> Answer(ch)]
    OBVIOUS
  <1>4. W!Request(c) \/ W!Start(c) \/ W!Refuse(c) \/ W!Kill(c)
    BY <1>1, <1>2, <1>3, Zenon DEF W!Request, W!Start, W!Refuse, W!Kill, W!Become
  <1> QED
    BY <1>4, Zenon DEF W!Next

\* A step that answers a spawn request: a refusal, or the outcome of a kill.
LEMMA AnswerStep ==
  ASSUME NEW c \in Channels, NEW r, Answer(c) = <<>>, Answer(c)' = <<r>>,
         \A ch \in Channels : GivenUp(ch)' = GivenUp(ch),
         \A ch \in Channels : ch # c => Life(ch)' = Life(ch) /\ Answer(ch)' = Answer(ch),
         \/ r = "SpawnError" /\ Life(c) = "spawning" /\ Life(c)' = "never"
         \/ r = "KillOk" /\ Life(c) = "killed" /\ Life(c)' = Life(c)
         \/ r = "KillError" /\ Life(c) = "unkilled" /\ Life(c)' = Life(c)
  PROVE  W!Next
  <1> DEFINE L == [ch \in Channels |-> Life(ch)]
             A == [ch \in Channels |-> Answer(ch)]
  <1>1. L' = [L EXCEPT ![c] = Life(c)'] /\ L[c] = Life(c)
    BY Zenon
  <1>2. A' = [A EXCEPT ![c] = <<r>>] /\ A[c] = <<>>
    BY Zenon
  <1>3. [ch \in Channels |-> GivenUp(ch)]' = [ch \in Channels |-> GivenUp(ch)]
    OBVIOUS
  <1>4. Life(c)' = Life(c) => L' = L
    OBVIOUS
  <1>5. W!Refuse(c) \/ W!Confirm(c)
    BY <1>1, <1>2, <1>3, <1>4, Zenon DEF W!Refuse, W!Confirm, W!Become, W!Tell
  <1> QED
    BY <1>5 DEF W!Next

\* A step that leaves the spawner, the process and the replies of every spawn
\* channel alone, and undoes nothing by which a client gave a channel up.
LEMMA FrameStep ==
  ASSUME spawner' = spawner, proc' = proc,
         \A ch \in Channels : spawner[ch] # "none" => replies'[ch] = replies[ch],
         ctxDone => ctxDone', wire = "down" => wire' = "down",
         \A ch \in Channels : cancelled[ch] => cancelled'[ch],
         \A ch \in Channels : killer[ch] # "none" => killer'[ch] # "none"
  PROVE  [W!Next]_(W!vars)
  <1>1. ASSUME NEW ch \in Channels
        PROVE  /\ Life(ch)' = Life(ch) /\ Answer(ch)' = Answer(ch)
               /\ GivenUp(ch) => GivenUp(ch)'
    BY DEF Life, Answer, GivenUp
  <1> QED
    BY <1>1, QuietStep

\* A reply to a channel that did not ask for a worker.
LEMMA OtherReply ==
  ASSUME NEW c \in Channels, NEW r \in Answers, TypeOK, Reply(c, r), spawner[c] = "none",
         UNCHANGED <<spawner, proc, ctxDone, wire, cancelled, killer>>
  PROVE  [W!Next]_(W!vars)
  <1>1. \A ch \in Channels : spawner[ch] # "none" => replies'[ch] = replies[ch]
    BY ReplyEffect DEF Replied
  <1> QED
    BY <1>1, FrameStep

\* The reply to a kill, whoever sends it: true, single, or lost with the
\* connection.
LEMMA KillReplyStep ==
  ASSUME NEW c \in Channels, TypeOK, KillReply(c),
         proc[c] \in {"killed", "unkilled"}, replies[c] = <<>>, spawner[c] # "none",
         \A ch \in Channels : ch # c => spawner'[ch] = spawner[ch],
         spawner'[c] # "none", \A ch \in Channels : GivenUp(ch)' = GivenUp(ch),
         UNCHANGED proc
  PROVE  [W!Next]_(W!vars)
  <1> DEFINE r == IF proc[c] = "killed" THEN "KillOk" ELSE "KillError"
  <1>1. Replied(c, r)
    BY ReplyEffect DEF KillReply, Answers
  <1>2. \A ch \in Channels : ch # c => Life(ch)' = Life(ch) /\ Answer(ch)' = Answer(ch)
    BY <1>1 DEF Replied, Life, Answer
  <1>3. Life(c) = proc[c] /\ Life(c)' = Life(c)
    BY DEF Life
  <1>4. Answer(c) = <<>> /\ Answer(c)' = replies'[c] /\ replies'[c] \in {<<>>, <<r>>}
    BY <1>1 DEF Replied, Answer
  <1>5. CASE replies'[c] = <<>>
    BY <1>2, <1>3, <1>4, <1>5, QuietStep
  <1>6. CASE replies'[c] = <<r>>
    <2>1. Answer(c)' = <<r>>
      BY <1>4, <1>6
    <2>2. \/ r = "KillOk" /\ Life(c) = "killed"
          \/ r = "KillError" /\ Life(c) = "unkilled"
      BY <1>3, Zenon
    <2>3. W!Next
      BY <2>1, <2>2, <1>2, <1>3, <1>4, AnswerStep
    <2> QED
      BY <2>3, Zenon
  <1> QED
    BY <1>4, <1>5, <1>6

\* The spawner kills a worker only when its context is done, and a context
\* that is done stays done.
KillReason == \A ch \in Channels : spawner[ch] = "kill" => SpawnCtxDone(ch)

LEMMA KillReasonStep ==
  ASSUME IInv, KillReason, [Next]_vars
  PROVE  KillReason'
  <1> USE DEF readerVars, connVars, procVars, goVars, streamVars, SpawnerGoto, KillerGoto
  <1> SUFFICES ASSUME NEW ch \in Channels, spawner'[ch] = "kill"
               PROVE  SpawnCtxDone(ch)'
    BY DEF KillReason
  <1>1. \/ UNCHANGED <<ctxDone, cancelled, spawner>>
        \/ onSpawn \/ HandleSpoolCancel \/ CancelConn
        \/ \E c \in Channels :
             \/ SpawnReturns(c) \/ SpawnCancelled(c) \/ SpawnFails(c) \/ SpawnerTakesKill(c)
             \/ SpawnerReplies(c) \/ (\E p \in {"killed", "unkilled"} : SpawnerKills(c, p))
             \/ KillerReceives(c) \/ KillerCancels(c)
    BY ZenonT(40) DEF Next, vars, Handle, Return, Read, Spooler, Spawner, AsyncKill, HandleInvalidArgs, HandleError,
      HandleBadProfile, onSpool, SpoolCancelReply, HandleKill, FinishMessage, NextFails, CloseConn,
      PeerGone, SkipMessage, OpenChannel, GetDispatcher, SpoolReturns, SpawnStarts, KillerExits,
      KillerReplies, KillerKills, Output
  <1>2. CASE UNCHANGED <<ctxDone, cancelled, spawner>>
    BY <1>2 DEF KillReason, SpawnCtxDone
  <1>3. CASE onSpawn \/ HandleSpoolCancel \/ CancelConn
    BY <1>3 DEF onSpawn, HandleSpoolCancel, CancelConn, KillReason, SpawnCtxDone, IInv, TypeOK
  <1>4. ASSUME NEW c \in Channels,
               \/ SpawnReturns(c) \/ SpawnCancelled(c) \/ SpawnFails(c)
               \/ SpawnerReplies(c) \/ (\E p \in {"killed", "unkilled"} : SpawnerKills(c, p))
        PROVE  SpawnCtxDone(ch)'
    <2>1. ctxDone' = ctxDone /\ cancelled' = cancelled
      BY <1>4, Zenon DEF SpawnReturns, SpawnCancelled, SpawnFails, SpawnerReplies, SpawnerKills
    <2>2. spawner[ch] = "kill"
      BY <1>4 DEF SpawnReturns, SpawnCancelled, SpawnFails, SpawnerReplies, SpawnerKills, IInv, TypeOK
    <2> QED
      BY <2>1, <2>2, Zenon DEF KillReason, SpawnCtxDone
  <1>5. ASSUME NEW c \in Channels, SpawnerTakesKill(c) \/ KillerReceives(c) \/ KillerCancels(c)
        PROVE  SpawnCtxDone(ch)'
    BY <1>5, ZenonT(40) DEF SpawnerTakesKill, KillerReceives, KillerCancels, KillReason, SpawnCtxDone, IInv, TypeOK
  <1> QED
    BY <1>1, <1>2, <1>3, <1>4, <1>5, Zenon

\* Every step of a connection is a step of Workers, or one a client cannot
\* tell: one case per action.
LEMMA WorkersStep ==
  ASSUME IInv, KillReason, [Next]_vars
  PROVE  [W!Next]_(W!vars)
  <1> USE DEF readerVars, connVars, procVars, goVars, streamVars, IInv
  <1>t. TypeOK
    OBVIOUS
  <1>1. ASSUME HandleInvalidArgs PROVE [W!Next]_(W!vars)
    BY <1>1, FrameStep DEF HandleInvalidArgs, TypeOK
  <1>2. ASSUME HandleError PROVE [W!Next]_(W!vars)
    BY <1>2, FrameStep DEF HandleError, TypeOK
  <1>3. ASSUME onSpool PROVE [W!Next]_(W!vars)
    BY <1>3, FrameStep DEF onSpool, TypeOK
  <1>4. ASSUME HandleSpoolCancel PROVE [W!Next]_(W!vars)
    BY <1>4, FrameStep DEF HandleSpoolCancel, TypeOK
  <1>5. ASSUME HandleKill PROVE [W!Next]_(W!vars)
    BY <1>5, FrameStep DEF HandleKill, TypeOK
  <1>6. ASSUME FinishMessage PROVE [W!Next]_(W!vars)
    BY <1>6, FrameStep DEF FinishMessage, TypeOK
  <1>7. ASSUME NextFails PROVE [W!Next]_(W!vars)
    BY <1>7, FrameStep DEF NextFails, TypeOK
  <1>8. ASSUME CancelConn PROVE [W!Next]_(W!vars)
    BY <1>8, FrameStep DEF CancelConn, TypeOK
  <1>9. ASSUME CloseConn PROVE [W!Next]_(W!vars)
    BY <1>9, FrameStep DEF CloseConn, TypeOK
  <1>10. ASSUME PeerGone PROVE [W!Next]_(W!vars)
    BY <1>10, FrameStep DEF PeerGone, TypeOK
  <1>11. ASSUME HandleBadProfile PROVE [W!Next]_(W!vars)
    <2>1. spawner[rch] = "none" /\ rch \in Channels
      BY <1>11 DEF HandleBadProfile, Handling, ReaderInv, Fresh, TypeOK
    <2> QED
      BY <1>11, <2>1, OtherReply DEF HandleBadProfile, Answers
  <1>12. ASSUME SpoolCancelReply PROVE [W!Next]_(W!vars)
    <2>1. spawner[rch] = "none" /\ rch \in Channels
      BY <1>12 DEF SpoolCancelReply, ReaderInv, SessionInv, TypeOK
    <2> QED
      BY <1>12, <2>1, OtherReply DEF SpoolCancelReply, Answers
  <1>13. ASSUME NEW c \in Channels, NEW r \in {"SpoolOk", "SpoolError"}, SpoolReturns(c, r)
        PROVE  [W!Next]_(W!vars)
    <2>1. spawner[c] = "none"
      BY <1>13 DEF SpoolReturns, SessionInv
    <2> QED
      BY <1>13, <2>1, OtherReply DEF SpoolReturns, Answers
  <1>14. ASSUME NEW c \in Channels, SkipMessage(c) PROVE [W!Next]_(W!vars)
    BY <1>14, FrameStep, Zenon DEF SkipMessage, vars
  <1>15. ASSUME NEW c \in Channels, NEW num \in Numbers, OpenChannel(c, num) \/ GetDispatcher(c, num)
        PROVE  [W!Next]_(W!vars)
    BY <1>15, FrameStep DEF OpenChannel, GetDispatcher
  <1>16. ASSUME onSpawn PROVE [W!Next]_(W!vars)
    <2> PICK c \in Channels : c = rch
      BY DEF TypeOK
    <2>1. Fresh(c)
      BY <1>16 DEF onSpawn, Handling, ReaderInv, TypeOK
    <2>2. spawner' = [spawner EXCEPT ![c] = "spawning"] /\ proc' = proc /\ replies' = replies
      BY <1>16 DEF onSpawn
    <2>3. \A ch \in Channels : GivenUp(ch)' = GivenUp(ch)
      BY <1>16 DEF onSpawn, GivenUp
    <2>4. \A ch \in Channels : Answer(ch)' = Answer(ch)
      BY <2>1, <2>2 DEF Answer, Fresh, TypeOK
    <2>5. \A ch \in Channels : ch # c => Life(ch)' = Life(ch)
      BY <2>1, <2>2 DEF Life, TypeOK
    <2>6. Life(c) = "none" /\ Life(c)' = "spawning"
      BY <2>1, <2>2 DEF Life, Fresh, TypeOK
    <2>7. W!Next
      BY <2>1, <2>3, <2>4, <2>5, <2>6, LifeStep
    <2> QED
      BY <2>7
  <1>17. ASSUME NEW c \in Channels, SpawnStarts(c) PROVE [W!Next]_(W!vars)
    <2>1. \A ch \in Channels : GivenUp(ch)' = GivenUp(ch) /\ Answer(ch)' = Answer(ch)
      BY <1>17 DEF SpawnStarts, GivenUp, Answer
    <2>2. \A ch \in Channels : ch # c => Life(ch)' = Life(ch)
      BY <1>17 DEF SpawnStarts, Life, TypeOK
    <2>3. Life(c) = "spawning" /\ Life(c)' = "running"
      BY <1>17 DEF SpawnStarts, Life, TypeOK
    <2>4. W!Next
      BY <2>1, <2>2, <2>3, LifeStep
    <2> QED
      BY <2>4, Zenon
  <1>18. ASSUME NEW c \in Channels, SpawnReturns(c) \/ SpawnerTakesKill(c) PROVE [W!Next]_(W!vars)
    <2>1. proc[c] # "none" /\ spawner[c] # "none"
      BY <1>18, Zenon DEF SpawnReturns, SpawnerTakesKill, Stage
    <2>2. ASSUME NEW ch \in Channels
          PROVE  /\ Life(ch)' = Life(ch) /\ Answer(ch)' = Answer(ch)
                 /\ GivenUp(ch) => GivenUp(ch)'
      BY <1>18, <2>1 DEF SpawnReturns, SpawnerTakesKill, SpawnerGoto, AfterSwap, Life, Answer, GivenUp, TypeOK
    <2> QED
      BY <2>2, QuietStep
  <1>19. ASSUME NEW c \in Channels, KillerReceives(c) PROVE [W!Next]_(W!vars)
    <2>1. proc[c] # "none" /\ spawner[c] # "none"
      BY <1>19, Zenon DEF KillerReceives, Stage
    <2>2. ASSUME NEW ch \in Channels
          PROVE  /\ Life(ch)' = Life(ch) /\ Answer(ch)' = Answer(ch)
                 /\ GivenUp(ch) => GivenUp(ch)'
      BY <1>19, <2>1 DEF KillerReceives, SpawnerGoto, KillerGoto, AfterSwap, Life, Answer, GivenUp, TypeOK
    <2> QED
      BY <2>2, QuietStep
  <1>20. ASSUME NEW c \in Channels, KillerExits(c) \/ KillerCancels(c) PROVE [W!Next]_(W!vars)
    BY <1>20, FrameStep, ZenonT(40) DEF KillerExits, KillerCancels, KillerGoto, TypeOK
  <1>21. ASSUME NEW c \in Channels, SpawnCancelled(c) PROVE [W!Next]_(W!vars)
    <2>1. \A ch \in Channels : GivenUp(ch)' = GivenUp(ch) /\ Answer(ch)' = Answer(ch)
      BY <1>21 DEF SpawnCancelled, SpawnerGoto, GivenUp, Answer, TypeOK
    <2>2. \A ch \in Channels : ch # c => Life(ch)' = Life(ch)
      BY <1>21 DEF SpawnCancelled, SpawnerGoto, Life, TypeOK
    <2>3. Life(c) = "spawning" /\ Life(c)' = "never" /\ GivenUp(c)
      BY <1>21 DEF SpawnCancelled, SpawnerGoto, SpawnCtxDone, Life, GivenUp, TypeOK
    <2>4. W!Next
      BY <2>1, <2>2, <2>3, LifeStep
    <2> QED
      BY <2>4
  <1>22. ASSUME NEW c \in Channels, SpawnFails(c) PROVE [W!Next]_(W!vars)
    <2>1. Replied(c, "SpawnError") /\ replies[c] = <<>>
      BY <1>22, ReplyEffect, Zenon DEF SpawnFails, Answers, Stage, Untouched
    <2>2. \A ch \in Channels : ch # c => Life(ch)' = Life(ch) /\ Answer(ch)' = Answer(ch)
      BY <1>22, <2>1 DEF SpawnFails, SpawnerGoto, Replied, Life, Answer, TypeOK
    <2>3. Life(c) = "spawning" /\ Life(c)' = "never"
      BY <1>22 DEF SpawnFails, SpawnerGoto, Life, TypeOK
    <2>4. \A ch \in Channels : GivenUp(ch)' = GivenUp(ch)
      BY <1>22, Zenon DEF SpawnFails, GivenUp
    <2>5. Answer(c) = <<>> /\ Answer(c)' = replies'[c]
      BY <1>22, <2>1, Zenon DEF SpawnFails, SpawnerGoto, Answer, TypeOK
    <2>6. CASE wire = "up"
      <3>1. replies'[c] = <<"SpawnError">>
        BY <1>22, <2>1, <2>6 DEF SpawnFails, Reply, TypeOK
      <3>2. W!Next
        BY <3>1, <2>2, <2>3, <2>4, <2>5, AnswerStep, Zenon
      <3> QED
        BY <3>2
    <2>7. CASE wire = "down"
      <3>1. replies' = replies
        BY <1>22, <2>7, Zenon DEF SpawnFails, Reply
      <3>2. GivenUp(c)
        BY <2>7 DEF GivenUp
      <3>3. W!Next
        BY <3>1, <3>2, <2>1, <2>2, <2>3, <2>4, <2>5, LifeStep, Zenon
      <3> QED
        BY <3>3
    <2> QED
      BY <2>6, <2>7 DEF TypeOK
  <1>23. ASSUME NEW c \in Channels, NEW p \in {"killed", "unkilled"}, SpawnerKills(c, p)
        PROVE  [W!Next]_(W!vars)
    <2>1. \A ch \in Channels : GivenUp(ch)' = GivenUp(ch) /\ Answer(ch)' = Answer(ch)
      BY <1>23 DEF SpawnerKills, SpawnerGoto, GivenUp, Answer, TypeOK
    <2>2. \A ch \in Channels : ch # c => Life(ch)' = Life(ch)
      BY <1>23 DEF SpawnerKills, SpawnerGoto, Kill, Life, TypeOK
    <2>3. Life(c) = "running" /\ Life(c)' = p
      BY <1>23 DEF SpawnerKills, Kill, Stage, Life, TypeOK
    <2>4. GivenUp(c)
      BY <1>23, Zenon DEF SpawnerKills, GivenUp, SpawnCtxDone, KillReason
    <2>5. W!Next
      BY <2>1, <2>2, <2>3, <2>4, LifeStep
    <2> QED
      BY <2>5
  <1>24. ASSUME NEW c \in Channels, SpawnerReplies(c) PROVE [W!Next]_(W!vars)
    <2>1. proc[c] \in {"killed", "unkilled"} /\ replies[c] = <<>> /\ spawner[c] # "none"
      BY <1>24 DEF SpawnerReplies, Stage, TypeOK
    <2>2. /\ \A ch \in Channels : ch # c => spawner'[ch] = spawner[ch]
          /\ spawner'[c] # "none" /\ UNCHANGED proc
      BY <1>24, <2>1 DEF SpawnerReplies, SpawnerGoto, TypeOK
    <2>3. \A ch \in Channels : GivenUp(ch)' = GivenUp(ch)
      BY <1>24 DEF SpawnerReplies, SpawnerGoto, GivenUp, TypeOK
    <2> QED
      BY <1>24, <2>1, <2>2, <2>3, KillReplyStep, Zenon DEF SpawnerReplies
  <1>25. ASSUME NEW c \in Channels, NEW p \in {"killed", "unkilled"}, KillerKills(c, p)
        PROVE  [W!Next]_(W!vars)
    <2>1. \A ch \in Channels : GivenUp(ch)' = GivenUp(ch) /\ Answer(ch)' = Answer(ch)
      BY <1>25 DEF KillerKills, KillerGoto, GivenUp, Answer, TypeOK
    <2>2. \A ch \in Channels : ch # c => Life(ch)' = Life(ch)
      BY <1>25 DEF KillerKills, KillerGoto, Kill, Life, TypeOK
    <2>3. Life(c) = "running" /\ Life(c)' = p
      BY <1>25, Zenon DEF KillerKills, Kill, Stage, Life, TypeOK
    <2>4. GivenUp(c)
      BY <1>25, Zenon DEF KillerKills, GivenUp, Stage
    <2>5. W!Next
      BY <2>1, <2>2, <2>3, <2>4, LifeStep
    <2> QED
      BY <2>5
  <1>26. ASSUME NEW c \in Channels, KillerReplies(c) PROVE [W!Next]_(W!vars)
    <2>1. proc[c] \in {"killed", "unkilled"} /\ replies[c] = <<>> /\ spawner[c] # "none"
      BY <1>26, Zenon DEF KillerReplies, Stage, TypeOK
    <2>2. /\ \A ch \in Channels : ch # c => spawner'[ch] = spawner[ch]
          /\ spawner'[c] # "none" /\ UNCHANGED proc
      BY <1>26, <2>1 DEF KillerReplies, KillerGoto, TypeOK
    <2>3. \A ch \in Channels : GivenUp(ch)' = GivenUp(ch)
      BY <1>26, Zenon DEF KillerReplies, KillerGoto, GivenUp, TypeOK
    <2> QED
      BY <1>26, <2>1, <2>2, <2>3, KillReplyStep DEF KillerReplies
  <1>27. ASSUME NEW c \in Channels, Output(c) PROVE [W!Next]_(W!vars)
    BY <1>27, FrameStep, Zenon DEF Output, Write
  <1>28. ASSUME UNCHANGED vars PROVE [W!Next]_(W!vars)
    BY <1>28, FrameStep, Zenon DEF vars
  <1> QED
    BY <1>1, <1>2, <1>3, <1>4, <1>5, <1>6, <1>7, <1>8, <1>9, <1>10, <1>11, <1>12, <1>13, <1>14, <1>15, <1>16, <1>17, <1>18, <1>19, <1>20, <1>21, <1>22, <1>23, <1>24, <1>25, <1>26, <1>27, <1>28
    DEF Next, Handle, Return, Read, Spooler, Spawner, AsyncKill

\* A connection implements Workers for any number of channels: whatever the
\* goroutines of HandleConn, onSpawn and asyncKill do, a client sees workers
\* that are started once, killed only when given up, and answered truthfully.
THEOREM ImplementsWorkers == Spec => RefinesWorkers
  <1>1. Init => W!Init
    BY Zenon DEF Init, W!Init, Life, GivenUp, Answer
  <1>2. IInv /\ KillReason /\ [Next]_vars => [W!Next]_(W!vars)
    BY WorkersStep
  <1>3. Init => KillReason
    BY DEF Init, KillReason
  <1>4. IInv /\ KillReason /\ [Next]_vars => KillReason'
    BY KillReasonStep
  <1> QED
    BY <1>1, <1>2, <1>3, <1>4, Invariance, PTL DEF Spec, W!Spec, RefinesWorkers

\* What Workers promises, for one channel of the connection.
Promised(ch) ==
  /\ Life(ch) \in {"killed", "unkilled"} => GivenUp(ch)
  /\ Life(ch) = "never" => GivenUp(ch) \/ Answer(ch) = <<"SpawnError">>
  /\ Answer(ch) # <<>> =>
       \/ Answer(ch) = <<"SpawnError">> /\ Life(ch) = "never"
       \/ Answer(ch) = <<"KillOk">> /\ Life(ch) = "killed"
       \/ Answer(ch) = <<"KillError">> /\ Life(ch) = "unkilled"

\* Every step of Workers keeps its promise.  The channel of the step is c, and
\* nothing changes for another one.
LEMMA PromiseStep ==
  ASSUME \A ch \in Channels : Promised(ch), [W!Next]_(W!vars), NEW ch \in Channels
  PROVE  Promised(ch)'
  <1> USE DEF W!Become, W!Tell
  <1>1. ASSUME W!GiveUp PROVE Promised(ch)'
    <2>1. Life(ch)' = Life(ch) /\ Answer(ch)' = Answer(ch)
      BY <1>1 DEF W!GiveUp
    <2>2. GivenUp(ch) => GivenUp(ch)'
      BY <1>1 DEF W!GiveUp
    <2> QED
      BY <2>1, <2>2 DEF Promised
  <1>2. ASSUME NEW c \in Channels, W!Request(c) \/ W!Start(c) PROVE Promised(ch)'
    <2>1. Answer(ch)' = Answer(ch) /\ GivenUp(ch)' = GivenUp(ch)
      BY <1>2 DEF W!Request, W!Start
    <2>2. /\ ch # c => Life(ch)' = Life(ch)
          /\ ch = c => Life(ch) \in {"none", "spawning"} /\ Life(ch)' \in {"spawning", "running"}
      BY <1>2, Zenon DEF W!Request, W!Start
    <2> QED
      BY <2>1, <2>2 DEF Promised
  <1>3. ASSUME NEW c \in Channels, W!Refuse(c) PROVE Promised(ch)'
    <2>1. GivenUp(ch)' = GivenUp(ch)
      BY <1>3 DEF W!Refuse
    <2>2. /\ ch # c => Life(ch)' = Life(ch) /\ Answer(ch)' = Answer(ch)
          /\ ch = c => Life(ch) = "spawning" /\ Life(ch)' = "never"
      BY <1>3, Zenon DEF W!Refuse
    <2>3. ch = c => Answer(ch)' = <<"SpawnError">> \/ (GivenUp(ch) /\ Answer(ch)' = Answer(ch))
      BY <1>3 DEF W!Refuse
    <2> QED
      BY <2>1, <2>2, <2>3 DEF Promised
  <1>4. ASSUME NEW c \in Channels, W!Kill(c) PROVE Promised(ch)'
    <2>1. Answer(ch)' = Answer(ch) /\ GivenUp(ch)' = GivenUp(ch)
      BY <1>4 DEF W!Kill
    <2>2. /\ ch # c => Life(ch)' = Life(ch)
          /\ ch = c => GivenUp(ch) /\ Life(ch) = "running" /\ Life(ch)' \in {"killed", "unkilled"}
      BY <1>4, Zenon DEF W!Kill
    <2> QED
      BY <2>1, <2>2 DEF Promised
  <1>5. ASSUME NEW c \in Channels, W!Confirm(c) PROVE Promised(ch)'
    <2>1. Life(ch)' = Life(ch) /\ GivenUp(ch)' = GivenUp(ch)
      BY <1>5 DEF W!Confirm
    <2>2. /\ ch # c => Answer(ch)' = Answer(ch)
          /\ ch = c => \/ Life(ch) = "killed" /\ Answer(ch)' = <<"KillOk">>
                       \/ Life(ch) = "unkilled" /\ Answer(ch)' = <<"KillError">>
      BY <1>5, Zenon DEF W!Confirm
    <2> QED
      BY <2>1, <2>2 DEF Promised
  <1>6. ASSUME UNCHANGED W!vars PROVE Promised(ch)'
    <2>1. Life(ch)' = Life(ch) /\ Answer(ch)' = Answer(ch) /\ GivenUp(ch)' = GivenUp(ch)
      BY <1>6 DEF W!vars
    <2> QED
      BY <2>1 DEF Promised
  <1> QED
    BY <1>1, <1>2, <1>3, <1>4, <1>5, <1>6, Zenon DEF W!Next

\* What follows from Workers alone holds of the connection by refinement: no
\* worker is killed that its client has not given up, none fails to come in
\* silence unless given up, and every answer to a spawn request is true.
THEOREM ClientPromise == Spec => []W!Promise
  <1>1. W!Init => W!Promise
    BY DEF W!Init, W!Promise
  <1>2. W!Promise /\ [W!Next]_(W!vars) => W!Promise'
    <2> SUFFICES ASSUME W!Promise, [W!Next]_(W!vars) PROVE W!Promise'
      OBVIOUS
    <2>1. \A ch \in Channels : Promised(ch)
      BY DEF W!Promise, Promised
    <2>2. \A ch \in Channels : Promised(ch)'
      BY <2>1, PromiseStep
    <2> QED
      BY <2>2 DEF W!Promise, Promised
  <1>3. W!Spec => []W!Promise
    BY <1>1, <1>2, PTL DEF W!Spec
  <1> QED
    BY <1>3, ImplementsWorkers, PTL DEF RefinesWorkers
=============================================================================
