--------------------------- MODULE OutputCollector ---------------------------
(***************************************************************************)
(* isolate.OutputCollector: the io.Writer a box gives the output of a      *)
(* worker to.  Several goroutines write to it: the copiers of the output   *)
(* streams (io.Copy never writes an empty chunk), and the box itself,      *)
(* which calls NotifyAboutStart once.  Whoever writes first, by a          *)
(* CompareAndSwap on `notified`, first sends the empty chunk that tells    *)
(* the client that its worker has started.                                 *)
(***************************************************************************)
EXTENDS Naturals, Sequences, FiniteSets

CONSTANTS Copiers,     \* the goroutines that copy output of the worker
          Box,         \* the goroutine that calls NotifyAboutStart
          MaxChunks    \* how many chunks each stream of output has

ASSUME CollectorAssumption == Box \notin Copiers /\ MaxChunks \in Nat

Writers == Copiers \union {Box}

VARIABLES
  pc,        \* writer -> "idle", or where it is in OutputCollector.Write
  next,      \* writer -> how many chunks it has handed to Write
  notified,  \* OutputCollector.notified
  frames     \* the chunks in the order responseStream.Write sent them

vars == <<pc, next, notified, frames>>

\* Chunk i of writer w is <<w, i>>; the empty one is <<>>.
empty == <<>>

Chunk(w) == IF w = Box THEN empty ELSE <<w, next[w]>>

Limit(w) == IF w = Box THEN 1 ELSE MaxChunks

\* Mutants: notified is never set; a swap that fails does not write.
AfterSwapAlways  == "notify"
AfterSwapDiscard == IF notified THEN "idle" ELSE "notify"

\* What follows CompareAndSwap(notified, 0, 1).
AfterSwap == IF notified THEN "write" ELSE "notify"

\* A writer calls Write with its next chunk; the swap is its first step.
CallWrite(w) ==
  /\ pc[w] = "idle" /\ next[w] < Limit(w)
  /\ next' = [next EXCEPT ![w] = @ + 1]
  /\ pc' = [pc EXCEPT ![w] = AfterSwap]
  /\ notified' = TRUE
  /\ UNCHANGED frames

\* Mutant: the winner only sends what it was given, if anything.
SkipNotification(w) ==
  /\ pc[w] = "notify"
  /\ pc' = [pc EXCEPT ![w] = IF Chunk(w) = empty THEN "idle" ELSE "write"]
  /\ UNCHANGED <<next, notified, frames>>

\* The winner of the swap sends notificationByte; an empty chunk ends there.
SendNotification(w) ==
  /\ pc[w] = "notify"
  /\ frames' = Append(frames, empty)
  /\ pc' = [pc EXCEPT ![w] = IF Chunk(w) = empty THEN "idle" ELSE "write"]
  /\ UNCHANGED <<next, notified>>

\* The chunk itself is sent.
SendChunk(w) ==
  /\ pc[w] = "write"
  /\ frames' = Append(frames, Chunk(w))
  /\ pc' = [pc EXCEPT ![w] = "idle"]
  /\ UNCHANGED <<next, notified>>

Init ==
  /\ pc = [w \in Writers |-> "idle"]
  /\ next = [w \in Writers |-> 0]
  /\ notified = FALSE
  /\ frames = <<>>

Step(w) == CallWrite(w) \/ SendNotification(w) \/ SendChunk(w)

Next == \E w \in Writers : Step(w)

\* A Write that was begun is finished; a worker need not print anything, but
\* the box does call NotifyAboutStart.
Fairness ==
  /\ \A w \in Writers : WF_vars(SendNotification(w) \/ SendChunk(w))
  /\ WF_vars(CallWrite(Box))

Spec == Init /\ [][Next]_vars /\ Fairness

-----------------------------------------------------------------------------

\* How many chunks of w have been sent: all but the one being written.
Sent(w) == IF pc[w] = "idle" THEN next[w] ELSE next[w] - 1

\* Where the chunks of w are among the frames.
Places(w) == {i \in DOMAIN frames : frames[i] # empty /\ frames[i][1] = w}

\* The chunks of one stream of output arrive completely, once and in order,
\* whoever else is writing: the frames of a copier are its chunks up to the one
\* being written, and their numbers grow.
OutputComplete ==
  \A w \in Copiers :
    /\ {frames[i] : i \in Places(w)} = {<<w, k>> : k \in 1..Sent(w)}
    /\ \A i, j \in Places(w) : i < j => frames[i][2] < frames[j][2]

\* One writer sends the notification, before its own chunk; the only other
\* empty chunk there can be is that of NotifyAboutStart coming second.
OneNotification ==
  LET empties == Cardinality({i \in DOMAIN frames : frames[i] = empty})
      pending == Cardinality({w \in Writers : pc[w] = "notify"})
  IN  /\ empties + pending <= IF next[Box] = 1 THEN 2 ELSE 1
      /\ pending <= 1

\* The client is always told that its worker has started.
StartNotified == <>(\E i \in DOMAIN frames : frames[i] = empty)
=============================================================================
