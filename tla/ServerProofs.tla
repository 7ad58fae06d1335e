---------------------------- MODULE ServerProofs ----------------------------
(***************************************************************************)
(* The two parts of the server around its connections.  The output of a    *)
(* worker, for every set of copiers and every number of chunks: each       *)
(* stream arrives complete and in order, and its start is notified by one  *)
(* writer, and by no fewer.  The life of the daemon, for every             *)
(* configuration: any boxes, endpoints and connections.                    *)
(***************************************************************************)
EXTENDS OutputCollector, Daemon, FiniteSetTheorems, TLAPS

-----------------------------------------------------------------------------
(* The output of a worker                                                  *)

Chunks == {empty} \cup (Copiers \X Nat)

TypeInv ==
  /\ pc \in [Writers -> {"idle", "notify", "write"}]
  /\ next \in [Writers -> Nat]
  /\ next[Box] \in {0, 1}
  /\ notified \in BOOLEAN
  /\ frames \in Seq(Chunks)
  /\ \A w \in Writers : pc[w] # "idle" => next[w] # 0

\* Chunk c is of copier w.
Of(c, w) == c # empty /\ c[1] = w

\* Among the first m frames of f, those of w are its first k chunks, in order.
Stream(f, m, w, k) ==
  /\ \A x \in 1..k : \E i \in 1..m : f[i] = <<w, x>>
  /\ \A i \in 1..m : Of(f[i], w) => f[i][2] \in 1..k
  /\ \A i, j \in 1..m : i < j /\ Of(f[i], w) /\ Of(f[j], w) => f[i][2] < f[j][2]

StreamInv == \A w \in Copiers : Stream(frames, Len(frames), w, Sent(w))

\* The writers that won the swap and have not sent the notification, and the
\* places of the empty chunks.
Pending == {w \in Writers : pc[w] = "notify"}
Empties == {i \in 1..Len(frames) : frames[i] = empty}

\* Before the swap nothing was sent.  After it there is one notification, sent
\* or about to be, and the chunk of NotifyAboutStart if it came second.
NotifyInv ==
  /\ IsFiniteSet(Pending) /\ IsFiniteSet(Empties)
  /\ ~notified => Pending = {} /\ Empties = {} /\ pc[Box] # "write"
  /\ Cardinality(Pending) <= 1
  /\ Cardinality(Pending) + Cardinality(Empties) + (IF pc[Box] = "write" THEN 1 ELSE 0) <= 1 + next[Box]

IInv == TypeInv /\ StreamInv /\ NotifyInv

\* A frame that is appended comes last and leaves the others alone.
LEMMA Appended ==
  ASSUME NEW s \in Seq(Chunks), NEW c \in Chunks
  PROVE  /\ Append(s, c) \in Seq(Chunks)
         /\ Len(s) \in Nat /\ Len(Append(s, c)) = Len(s) + 1
         /\ Append(s, c)[Len(s) + 1] = c
         /\ \A i \in 1..Len(s) : Append(s, c)[i] = s[i]
  OBVIOUS

\* The chunk of a copier is not empty and bears its name and number.
LEMMA ChunkShape ==
  ASSUME CollectorAssumption, TypeInv, NEW w \in Writers
  PROVE  /\ Chunk(w) \in Chunks
         /\ w = Box => Chunk(w) = empty
         /\ w # Box => w \in Copiers /\ Chunk(w) # empty /\ Chunk(w)[1] = w /\ Chunk(w)[2] = next[w]
  BY DEF Chunk, Chunks, Writers, TypeInv, empty

\* The types are kept.
LEMMA TypeStep ==
  ASSUME CollectorAssumption, TypeInv, NEW w \in Writers, Step(w)
  PROVE  TypeInv'
  <1>1. Box \in Writers
    BY DEF Writers
  <1>2. CASE CallWrite(w)
    <2>1. /\ pc' = [pc EXCEPT ![w] = AfterSwap] /\ AfterSwap \in {"notify", "write"}
          /\ next' = [next EXCEPT ![w] = next[w] + 1] /\ frames' = frames
          /\ w = Box => next[w] < 1
      BY <1>2 DEF CallWrite, AfterSwap, Limit
    <2>2. notified' \in BOOLEAN
      BY <1>2, Zenon DEF CallWrite
    <2> QED
      BY <1>1, <2>1, <2>2 DEF TypeInv
  <1>3. CASE SendNotification(w)
    <2>1. /\ pc' \in {[pc EXCEPT ![w] = "idle"], [pc EXCEPT ![w] = "write"]}
          /\ frames' = Append(frames, empty) /\ UNCHANGED <<next, notified>>
          /\ pc[w] = "notify"
      BY <1>3, Zenon DEF SendNotification
    <2>2. frames' \in Seq(Chunks)
      BY <2>1, Appended DEF Chunks, TypeInv
    <2> QED
      BY <1>1, <2>1, <2>2, Zenon DEF TypeInv
  <1>4. CASE SendChunk(w)
    <2>1. /\ pc' = [pc EXCEPT ![w] = "idle"]
          /\ frames' = Append(frames, Chunk(w)) /\ UNCHANGED <<next, notified>>
      BY <1>4 DEF SendChunk
    <2>2. frames' \in Seq(Chunks)
      BY <2>1, Appended, ChunkShape DEF TypeInv
    <2> QED
      BY <1>1, <2>1, <2>2 DEF TypeInv
  <1> QED
    BY <1>2, <1>3, <1>4 DEF Step

\* A frame of somebody else disturbs no stream.
LEMMA OtherFrame ==
  ASSUME NEW f, NEW g, NEW m \in Nat, NEW w, NEW k, Stream(f, m, w, k),
         \A i \in 1..m : g[i] = f[i], ~Of(g[m + 1], w)
  PROVE  Stream(g, m + 1, w, k)
  <1>1. \A i \in 1..(m + 1) : i \in 1..m \/ i = m + 1
    OBVIOUS
  <1>2. \A x \in 1..k : \E i \in 1..(m + 1) : g[i] = <<w, x>>
    <2> SUFFICES ASSUME NEW x \in 1..k PROVE \E i \in 1..(m + 1) : g[i] = <<w, x>>
      OBVIOUS
    <2>1. PICK i \in 1..m : f[i] = <<w, x>>
      BY Zenon DEF Stream
    <2>2. i \in 1..(m + 1) /\ g[i] = f[i]
      OBVIOUS
    <2> QED
      BY <2>1, <2>2
  <1>3. \A i \in 1..(m + 1) : Of(g[i], w) => i \in 1..m /\ g[i] = f[i]
    BY <1>1
  <1> QED
    BY <1>2, <1>3 DEF Stream

\* The next chunk of w continues its stream.
LEMMA NextFrame ==
  ASSUME NEW f, NEW g, NEW m \in Nat, NEW w, NEW k \in Nat, Stream(f, m, w, k),
         \A i \in 1..m : g[i] = f[i], g[m + 1] = <<w, k + 1>>
  PROVE  Stream(g, m + 1, w, k + 1)
  <1>1. \A i \in 1..(m + 1) : (i \in 1..m /\ g[i] = f[i]) \/ i = m + 1
    OBVIOUS
  <1>2. ASSUME NEW x \in 1..(k + 1) PROVE \E i \in 1..(m + 1) : g[i] = <<w, x>>
    <2>1. CASE x = k + 1
      <3>1. m + 1 \in 1..(m + 1)
        OBVIOUS
      <3> QED
        BY <2>1, <3>1
    <2>2. CASE x # k + 1
      <3>1. x \in 1..k
        BY <2>2
      <3>2. PICK i \in 1..m : f[i] = <<w, x>>
        BY <3>1, Zenon DEF Stream
      <3>3. i \in 1..(m + 1) /\ g[i] = f[i]
        OBVIOUS
      <3> QED
        BY <3>2, <3>3
    <2> QED
      BY <2>1, <2>2
  <1>3. g[m + 1][2] = k + 1
    OBVIOUS
  <1>4. ASSUME NEW i \in 1..(m + 1), Of(g[i], w) PROVE g[i][2] \in 1..(k + 1)
    <2>1. ASSUME i \in 1..m, g[i] = f[i] PROVE g[i][2] \in 1..k
      BY <1>4, <2>1 DEF Stream
    <2>2. k + 1 \in 1..(k + 1) /\ \A y \in 1..k : y \in 1..(k + 1)
      OBVIOUS
    <2> QED
      BY <1>1, <1>3, <2>1, <2>2
  <1>5. ASSUME NEW i \in 1..(m + 1), NEW j \in 1..(m + 1), i < j, Of(g[i], w), Of(g[j], w)
        PROVE  g[i][2] < g[j][2]
    <2>1. i \in 1..m /\ g[i] = f[i]
      BY <1>5
    <2>2. g[i][2] \in 1..k
      BY <1>5, <2>1 DEF Stream
    <2>3. CASE j = m + 1
      BY <1>3, <2>2, <2>3
    <2>4. CASE j \in 1..m /\ g[j] = f[j]
      BY <1>5, <2>1, <2>4 DEF Stream
    <2> QED
      BY <1>1, <2>3, <2>4
  <1> QED
    BY <1>2, <1>4, <1>5, Zenon DEF Stream

\* An empty frame disturbs no stream; the chunk a copier sends is the next of
\* its stream.
LEMMA StreamStep ==
  ASSUME CollectorAssumption, TypeInv, StreamInv, NEW w \in Writers, Step(w)
  PROVE  StreamInv'
  <1>0. SUFFICES ASSUME NEW v \in Copiers PROVE Stream(frames', Len(frames'), v, Sent(v)')
    BY DEF StreamInv
  <1>1. v \in Writers /\ v # Box /\ Stream(frames, Len(frames), v, Sent(v))
    BY DEF StreamInv, Writers
  <1>2. CASE CallWrite(w)
    <2>1. frames' = frames /\ Sent(v)' = Sent(v)
      BY <1>1, <1>2 DEF CallWrite, Sent, AfterSwap, TypeInv
    <2> QED
      BY <1>1, <2>1
  <1>3. CASE SendNotification(w)
    <2>1. frames' = Append(frames, empty) /\ Sent(v)' = Sent(v)
      <3>1. v = w => Chunk(w) # empty
        BY <1>1, ChunkShape
      <3> QED
        BY <1>1, <1>3, <3>1 DEF SendNotification, Sent, TypeInv
    <2>2. /\ Len(frames) \in Nat /\ Len(frames') = Len(frames) + 1 /\ frames'[Len(frames) + 1] = empty
          /\ \A i \in 1..Len(frames) : frames'[i] = frames[i]
      BY <2>1, Appended DEF Chunks, TypeInv
    <2>3. ~Of(frames'[Len(frames) + 1], v)
      BY <2>2 DEF Of
    <2> QED
      BY <1>1, <2>1, <2>2, <2>3, OtherFrame, Zenon
  <1>4. CASE SendChunk(w)
    <2>1. /\ frames' = Append(frames, Chunk(w)) /\ next' = next /\ pc[w] = "write"
          /\ pc' = [pc EXCEPT ![w] = "idle"]
      BY <1>4 DEF SendChunk
    <2>2. /\ Len(frames) \in Nat /\ Len(frames') = Len(frames) + 1 /\ frames'[Len(frames) + 1] = Chunk(w)
          /\ \A i \in 1..Len(frames) : frames'[i] = frames[i]
      BY <2>1, Appended, ChunkShape DEF TypeInv
    <2>3. CASE v # w
      <3>1. Sent(v)' = Sent(v)
        BY <1>1, <2>1, <2>3 DEF Sent, TypeInv
      <3>2. ~Of(frames'[Len(frames) + 1], v)
        BY <2>2, <2>3, ChunkShape DEF Of
      <3> QED
        BY <1>1, <2>2, <3>1, <3>2, OtherFrame
    <2>4. CASE v = w
      <3>1. Sent(v) \in Nat /\ Sent(v)' = Sent(v) + 1 /\ next[v] = Sent(v) + 1
        <4>1. next[v] \in Nat /\ next[v] # 0
          BY <1>1, <2>1, <2>4 DEF TypeInv
        <4>2. pc'[v] = "idle" /\ pc[v] # "idle"
          BY <1>1, <2>1, <2>4 DEF TypeInv
        <4> QED
          BY <2>1, <4>1, <4>2 DEF Sent
      <3>2. frames'[Len(frames) + 1] = <<v, Sent(v) + 1>>
        BY <1>1, <2>2, <2>4, <3>1 DEF Chunk
      <3> QED
        BY <1>1, <2>2, <3>1, <3>2, NextFrame, Zenon
    <2> QED
      BY <2>3, <2>4
  <1> QED
    BY <1>2, <1>3, <1>4 DEF Step

\* An empty frame that is appended counts once, another not at all.
LEMMA EmptiesAfter ==
  ASSUME TypeInv, NEW c \in Chunks, frames' = Append(frames, c), IsFiniteSet(Empties)
  PROVE  /\ IsFiniteSet(Empties') /\ Cardinality(Empties) \in Nat
         /\ Cardinality(Empties') = Cardinality(Empties) + IF c = empty THEN 1 ELSE 0
  <1> DEFINE n == Len(frames)
  <1>1. /\ n \in Nat /\ Len(frames') = n + 1 /\ frames'[n + 1] = c
        /\ \A i \in 1..n : frames'[i] = frames[i]
    BY Appended DEF TypeInv
  <1> HIDE DEF n
  <1>2. n + 1 \notin Empties
    BY <1>1 DEF Empties, n
  <1>3. ASSUME c = empty PROVE Empties' = Empties \cup {n + 1}
    BY <1>1, <1>3 DEF Empties, n
  <1>4. ASSUME c # empty PROVE Empties' = Empties
    BY <1>1, <1>4 DEF Empties, n
  <1>5. Cardinality(Empties) \in Nat
    BY FS_CardinalityType
  <1> QED
    BY <1>2, <1>3, <1>4, <1>5, FS_AddElement

\* One writer wins the swap; what the others send is empty only for the box.
LEMMA NotifyStep ==
  ASSUME CollectorAssumption, TypeInv, NotifyInv, NEW w \in Writers, Step(w)
  PROVE  NotifyInv'
  <1>1. Box \in Writers /\ Cardinality(Pending) \in Nat /\ Cardinality(Empties) \in Nat
    BY FS_CardinalityType DEF Writers, NotifyInv
  <1>2. CASE CallWrite(w)
    <2>1. /\ pc[w] = "idle" /\ pc' = [pc EXCEPT ![w] = AfterSwap] /\ frames' = frames
          /\ next' = [next EXCEPT ![w] = next[w] + 1] /\ (w = Box => next[w] < 1)
      BY <1>2 DEF CallWrite, Limit
    <2>2. Empties' = Empties
      BY <2>1 DEF Empties
    <2>3. notified'
      BY <1>2, Zenon DEF CallWrite
    <2>4. next'[Box] \in Nat /\ next[Box] \in Nat /\ next'[Box] = next[Box] + IF w = Box THEN 1 ELSE 0
      BY <1>1, <2>1 DEF TypeInv
    <2>5. CASE notified
      <3>1. AfterSwap = "write"
        BY <2>5 DEF AfterSwap
      <3>2. Pending' = Pending
        BY <2>1, <3>1 DEF Pending, TypeInv
      <3>3. w # Box => pc'[Box] = pc[Box]
        BY <1>1, <2>1 DEF TypeInv
      <3>4. w = Box => pc[Box] # "write" /\ pc'[Box] = "write"
        BY <1>1, <2>1, <3>1 DEF TypeInv
      <3> QED
        BY <1>1, <2>2, <2>3, <2>4, <3>2, <3>3, <3>4 DEF NotifyInv
    <2>6. CASE ~notified
      <3>1. AfterSwap = "notify"
        BY <2>6 DEF AfterSwap
      <3>2. Pending = {} /\ Empties = {} /\ pc[Box] # "write"
        BY <2>6 DEF NotifyInv
      <3>3. Pending' = {w}
        BY <2>1, <3>1, <3>2 DEF Pending, TypeInv
      <3>4. pc'[Box] # "write"
        BY <1>1, <2>1, <3>1, <3>2 DEF TypeInv
      <3>5. IsFiniteSet(Pending') /\ Cardinality(Pending') = 1 /\ IsFiniteSet(Empties') /\ Cardinality(Empties') = 0
        <4>1. IsFiniteSet(Pending') /\ Cardinality(Pending') = 1
          BY <3>3, FS_Singleton, Zenon
        <4>2. IsFiniteSet(Empties') /\ Cardinality(Empties') = 0
          BY <2>2, <3>2, FS_EmptySet, Zenon
        <4> QED
          BY <4>1, <4>2, Zenon
      <3> QED
        BY <2>3, <2>4, <3>4, <3>5 DEF NotifyInv
    <2> QED
      BY <2>5, <2>6
  <1>3. CASE SendNotification(w)
    <2>1. /\ pc[w] = "notify" /\ frames' = Append(frames, empty) /\ next' = next
          /\ pc' = [pc EXCEPT ![w] = IF Chunk(w) = empty THEN "idle" ELSE "write"]
      BY <1>3 DEF SendNotification
    <2>2. notified' = notified
      BY <1>3, Zenon DEF SendNotification
    <2>3. w \in Pending /\ Pending' = Pending \ {w}
      BY <2>1 DEF Pending, TypeInv
    <2>4. IsFiniteSet(Pending') /\ Cardinality(Pending') = Cardinality(Pending) - 1
      BY <2>3, FS_RemoveElement DEF NotifyInv
    <2>5. IsFiniteSet(Empties') /\ Cardinality(Empties') = Cardinality(Empties) + 1
      BY <2>1, EmptiesAfter DEF Chunks, NotifyInv
    <2>6. notified
      BY <2>3, Zenon DEF NotifyInv
    <2>7. pc'[Box] = "write" => pc[Box] = "write"
      <3>1. w = Box => Chunk(w) = empty
        BY ChunkShape
      <3> QED
        BY <1>1, <2>1, <3>1 DEF TypeInv
    <2>8. next[Box] \in Nat
      BY <1>1 DEF TypeInv
    <2> QED
      BY <1>1, <2>1, <2>2, <2>4, <2>5, <2>6, <2>7, <2>8 DEF NotifyInv
  <1>4. CASE SendChunk(w)
    <2>1. /\ pc[w] = "write" /\ frames' = Append(frames, Chunk(w)) /\ next' = next
          /\ pc' = [pc EXCEPT ![w] = "idle"]
      BY <1>4 DEF SendChunk
    <2>2. notified' = notified
      BY <1>4, Zenon DEF SendChunk
    <2>3. Pending' = Pending
      BY <2>1 DEF Pending, TypeInv
    <2>4. IsFiniteSet(Empties') /\ Cardinality(Empties') = Cardinality(Empties) + IF w = Box THEN 1 ELSE 0
      BY <2>1, EmptiesAfter, ChunkShape DEF NotifyInv
    <2>5. /\ w = Box => pc[Box] = "write" /\ pc'[Box] = "idle"
          /\ w # Box => pc'[Box] = pc[Box]
      BY <1>1, <2>1 DEF TypeInv
    <2>6. next[Box] \in Nat
      BY <1>1 DEF TypeInv
    <2>7. ASSUME ~notified PROVE Empties' = {}
      <3>1. w # Box /\ Empties = {}
        BY <2>5, <2>7 DEF NotifyInv
      <3>2. Cardinality(Empties') = 0
        BY <1>1, <2>4, <3>1, FS_EmptySet
      <3> QED
        BY <2>4, <3>2, FS_EmptySet
    <2> QED
      BY <1>1, <2>1, <2>2, <2>3, <2>4, <2>5, <2>6, <2>7 DEF NotifyInv
  <1> QED
    BY <1>2, <1>3, <1>4 DEF Step

\* The invariant of the collector is inductive.
THEOREM Invariance == Spec => []IInv
  <1>1. Init => IInv
    <2> SUFFICES ASSUME Init PROVE IInv
      OBVIOUS
    <2>0. frames = <<>> /\ Len(frames) = 0
      BY DEF Init
    <2>1. TypeInv
      <3>1. notified \in BOOLEAN
        BY Zenon DEF Init
      <3> QED
        BY <3>1 DEF Init, TypeInv, Writers
    <2>2. StreamInv
      BY <2>0 DEF Init, StreamInv, Stream, Sent, Writers
    <2>3. Pending = {} /\ Empties = {} /\ pc[Box] # "write" /\ next[Box] = 0
      BY <2>0 DEF Init, Pending, Empties, Writers
    <2>4. NotifyInv
      BY <2>3, FS_EmptySet DEF NotifyInv
    <2> QED
      BY <2>1, <2>2, <2>4 DEF IInv
  <1>2. IInv /\ [Next]_vars => IInv'
    <2> SUFFICES ASSUME IInv, [Next]_vars PROVE IInv'
      OBVIOUS
    <2>1. CASE UNCHANGED vars
      BY <2>1 DEF vars, IInv, TypeInv, StreamInv, Sent, NotifyInv, Pending, Empties
    <2>2. ASSUME NEW w \in Writers, Step(w) PROVE IInv'
      BY <2>2, CollectorAssumption, TypeStep, StreamStep, NotifyStep DEF IInv
    <2> QED
      BY <2>1, <2>2 DEF Next
  <1> QED
    BY <1>1, <1>2, PTL DEF Spec

\* Every stream of output arrives completely, once and in order, whoever else
\* writes to the collector.
THEOREM OutputArrives == Spec => []OutputComplete
  <1>1. IInv => OutputComplete
    <2> SUFFICES ASSUME IInv, NEW w \in Copiers
                 PROVE  /\ {frames[i] : i \in Places(w)} = {<<w, k>> : k \in 1..Sent(w)}
                        /\ \A i, j \in Places(w) : i < j => frames[i][2] < frames[j][2]
      BY DEF OutputComplete
    <2>1. Stream(frames, Len(frames), w, Sent(w)) /\ DOMAIN frames = 1..Len(frames)
      BY DEF IInv, StreamInv, TypeInv
    <2>2. Places(w) = {i \in 1..Len(frames) : Of(frames[i], w)}
      BY <2>1 DEF Places, Of
    <2>3. ASSUME NEW i \in Places(w) PROVE frames[i] = <<w, frames[i][2]>>
      <3>1. frames[i] \in Chunks /\ frames[i] # empty /\ frames[i][1] = w
        BY <2>2 DEF IInv, TypeInv, Of
      <3> QED
        BY <3>1 DEF Chunks
    <2>4. ASSUME NEW k \in 1..Sent(w) PROVE \E i \in Places(w) : frames[i] = <<w, k>>
      <3>1. PICK i \in 1..Len(frames) : frames[i] = <<w, k>>
        BY <2>1 DEF Stream
      <3>2. Of(frames[i], w)
        BY <3>1 DEF Of, empty
      <3> QED
        BY <2>2, <3>1, <3>2
    <2>5. ASSUME NEW i \in Places(w) PROVE frames[i][2] \in 1..Sent(w)
      BY <2>1, <2>2 DEF Stream
    <2>6. \A i, j \in Places(w) : i < j => frames[i][2] < frames[j][2]
      BY <2>1, <2>2 DEF Stream
    <2>7. {frames[i] : i \in Places(w)} = {<<w, k>> : k \in 1..Sent(w)}
      BY <2>3, <2>4, <2>5
    <2> QED
      BY <2>6, <2>7
  <1> QED
    BY <1>1, Invariance, PTL

\* One writer sends the notification; the only other empty chunk is that of a
\* NotifyAboutStart that came second.
THEOREM NotifiedOnce == Spec => []OneNotification
  <1>1. IInv => OneNotification
    <2> SUFFICES ASSUME IInv PROVE OneNotification
      OBVIOUS
    <2>1. /\ {i \in DOMAIN frames : frames[i] = empty} = Empties
          /\ {w \in Writers : pc[w] = "notify"} = Pending
      BY DEF IInv, TypeInv, Empties, Pending
    <2>2. Cardinality(Pending) \in Nat /\ Cardinality(Empties) \in Nat
      BY FS_CardinalityType DEF IInv, NotifyInv
    <2>3. next[Box] \in {0, 1}
      BY DEF IInv, TypeInv
    <2>4. /\ Cardinality(Empties) + Cardinality(Pending) <= IF next[Box] = 1 THEN 2 ELSE 1
          /\ Cardinality(Pending) <= 1
      BY <2>2, <2>3 DEF IInv, NotifyInv
    <2> QED
      BY <2>1, <2>4, Zenon DEF OneNotification
  <1> QED
    BY <1>1, Invariance, PTL

\* Whoever handed a chunk to Write, NotifyAboutStart included, the client was
\* told of the start or a writer is about to tell it: this is what the liveness
\* property StartNotified rests on.
StartPromised == (\E w \in Writers : next[w] # 0) => Empties # {} \/ Pending # {}

ToldInv ==
  /\ notified => Empties # {} \/ Pending # {}
  /\ (\E w \in Writers : next[w] # 0) => notified

\* The loser of the swap can rely on the winner: the notification is not lost
\* between them, whatever they write and whenever.
THEOREM NotificationNotLost == Spec => []StartPromised
  <1>1. Init => ToldInv
    BY Zenon DEF Init, ToldInv
  <1>2. IInv /\ ToldInv /\ [Next]_vars => ToldInv'
    <2> SUFFICES ASSUME IInv, ToldInv, [Next]_vars PROVE ToldInv'
      OBVIOUS
    <2>1. CASE UNCHANGED vars
      BY <2>1 DEF vars, ToldInv, Pending, Empties
    <2>2. ASSUME NEW w \in Writers, CallWrite(w) PROVE ToldInv'
      <3>1. notified'
        BY <2>2, Zenon DEF CallWrite
      <3>2. pc[w] = "idle" /\ pc' = [pc EXCEPT ![w] = AfterSwap] /\ frames' = frames
        BY <2>2 DEF CallWrite
      <3>3. Empties' = Empties /\ (Pending # {} => Pending' # {})
        BY <3>2 DEF Empties, Pending, IInv, TypeInv
      <3>4. ~notified => Pending' # {}
        BY <3>2 DEF AfterSwap, Pending, IInv, TypeInv
      <3> QED
        BY <3>1, <3>3, <3>4 DEF ToldInv
    <2>3. ASSUME NEW w \in Writers, SendNotification(w) PROVE ToldInv'
      <3>1. frames' = Append(frames, empty) /\ next' = next
        BY <2>3 DEF SendNotification
      <3>2. notified' = notified
        BY <2>3, Zenon DEF SendNotification
      <3>3. Len(frames) + 1 \in Empties'
        BY <3>1, Appended DEF Empties, Chunks, IInv, TypeInv
      <3> QED
        BY <3>1, <3>2, <3>3 DEF ToldInv
    <2>4. ASSUME NEW w \in Writers, SendChunk(w) PROVE ToldInv'
      <3>1. /\ pc[w] = "write" /\ pc' = [pc EXCEPT ![w] = "idle"]
            /\ frames' = Append(frames, Chunk(w)) /\ next' = next
        BY <2>4 DEF SendChunk
      <3>2. notified' = notified
        BY <2>4, Zenon DEF SendChunk
      <3>3. Pending' = Pending
        BY <3>1 DEF Pending, IInv, TypeInv
      <3>4. Chunk(w) \in Chunks
        BY ChunkShape, CollectorAssumption DEF IInv
      <3>5. Empties \subseteq Empties'
        BY <3>1, <3>4, Appended DEF Empties, IInv, TypeInv
      <3> QED
        BY <3>1, <3>2, <3>3, <3>5 DEF ToldInv
    <2> QED
      BY <2>1, <2>2, <2>3, <2>4 DEF Next, Step
  <1>3. ToldInv => StartPromised
    BY DEF ToldInv, StartPromised
  <1> QED
    BY <1>1, <1>2, <1>3, Invariance, PTL DEF Spec

-----------------------------------------------------------------------------
(* The life of the daemon                                                  *)

NoAccept == \A e \in Endpoints : accept[e] # "running"
Up(b) == boxCtx[b] = "live" /\ (loop[b] = "ended" => type[b] = "porto" /\ mtn)

\* What New has done so far.
NewInv ==
  /\ boxes \subseteq Boxes /\ toClose \subseteq boxes
  /\ main = "cfg" => boxes = {}
  /\ main \in {"cfg", "boxes"} => todo = Boxes \ boxes
  /\ main \in {"cfg", "boxes", "listen", "serve"} => \A b \in boxes : Up(b)
  /\ main \in {"listen", "serve"} => boxes = Boxes
  /\ mtn /\ main \notin {"cfg", "exit", "panic"} => db # "nil"
  /\ db # "nil" => mtn
  /\ mtn /\ main \in {"boxes", "listen", "serve"} => db = "open"

\* What has been served: nothing before ServeOnListeners, nothing new after it.
\* The last conjunct is for the states a panic has left as they were.
ServeInv ==
  /\ main \in {"cfg", "boxes"} => \A e \in Endpoints : listener[e] = "none"
  /\ main \in {"cfg", "boxes", "listen"} => serveCtx = "none" /\ NoAccept
  /\ main \in {"cfg", "boxes", "listen"} => \A c \in Conns : conn[c] = "none"
  /\ main = "serve" => serveCtx = "live"
  /\ serveCtx = "live" => main \in {"serve", "panic"}
  /\ main \in {"close", "exit"} => NoAccept /\ \A e \in Endpoints : listener[e] # "open"
  /\ main \in {"close", "exit"} /\ serveCtx # "done" => \A c \in Conns : conn[c] = "none"
  /\ main = "close" /\ serveCtx # "done" => boxes # Boxes
  /\ ServingIsComplete /\ HandlersGivenUpFirst

\* A box that Close is through with; nothing opens the database again.
Closed(b) == boxCtx[b] = "done" /\ (type[b] = "porto" => db = "closed")

\* What Close has done: every box is still up or closed.
CloseInv ==
  /\ main = "close" => \A b \in boxes : IF b \in toClose THEN Up(b) ELSE Closed(b)
  /\ main = "exit" /\ (boxes # Boxes \/ serveCtx = "done") =>
       \A b \in boxes : Closed(b) /\ (type[b] = "process" => loop[b] = "ended")

Fun == /\ boxCtx \in [Boxes -> {"none", "live", "done"}]
       /\ loop \in [Boxes -> {"none", "gc", "running", "ended"}]
       /\ \A b \in Boxes : loop[b] = "gc" => type[b] = "porto" /\ b \in boxes
       /\ listener \in [Endpoints -> {"none", "open", "closed"}]
       /\ accept \in [Endpoints -> {"none", "running", "ended"}]
       /\ conn \in [Conns -> {"none", "handled", "closed"}]
       /\ main \in {"cfg", "boxes", "listen", "serve", "close", "exit", "panic"}
       /\ serveCtx \in {"none", "live", "done"}

DaemonInv == Fun /\ NewInv /\ ServeInv /\ CloseInv

\* DaemonInv is inductive.
THEOREM DaemonInvariance == DaemonSpec => []DaemonInv
<1>1. DaemonInit => DaemonInv
  BY Zenon DEF DaemonInit, DaemonInv, Fun, NewInv, ServeInv, CloseInv, Up, Closed, NoAccept, ServingIsComplete,
           HandlersGivenUpFirst
<1>2. DaemonInv /\ [DaemonNext]_daemonVars => DaemonInv'
  <2> SUFFICES ASSUME DaemonInv, [DaemonNext]_daemonVars PROVE DaemonInv'
    OBVIOUS
  <2> USE DEF DaemonInv, Fun, NewInv, ServeInv, CloseInv, Up, Closed, NoAccept, ServingIsComplete,
              HandlersGivenUpFirst, config, newVars, boxVars, netVars
  <2>1. ASSUME UNCHANGED daemonVars PROVE DaemonInv'
    BY <2>1 DEF daemonVars
  <2>2. ASSUME CfgInit PROVE DaemonInv'
    BY <2>2 DEF CfgInit
  <2>3. ASSUME NewReturns PROVE DaemonInv'
    BY <2>3 DEF NewReturns
  <2>4. ASSUME NEW b \in Boxes, ConstructBox(b) PROVE DaemonInv'
    BY <2>4 DEF ConstructBox
  <2>5. ASSUME NEW b \in Boxes, Refused(b) PROVE DaemonInv'
    BY <2>5 DEF Refused, FailNew
  <2>6. ASSUME NEW b \in Boxes, ConstructFails(b) PROVE DaemonInv'
    BY <2>6 DEF ConstructFails, FailNew
  <2>7. ASSUME NEW b \in Boxes, LoadJournalFails(b) PROVE DaemonInv'
    BY <2>7 DEF LoadJournalFails, FailNew
  <2>8. ASSUME ListenFails PROVE DaemonInv'
    BY <2>8 DEF ListenFails, closeListeners
  <2>9. ASSUME ServeOnListeners PROVE DaemonInv'
    BY <2>9 DEF ServeOnListeners
  <2>10. ASSUME ServeReturns PROVE DaemonInv'
    BY <2>10 DEF ServeReturns, Wait, closeListeners
  <2>11. ASSUME NEW e \in Endpoints, Listen(e) PROVE DaemonInv'
    BY <2>11 DEF Listen
  <2>12. ASSUME NEW b \in Boxes, CloseNext(b) PROVE DaemonInv'
    BY <2>12 DEF CloseNext, CloseBox
  <2>13. ASSUME Exit PROVE DaemonInv'
    BY <2>13 DEF Exit, AwaitLoop
  <2>14. ASSUME NEW b \in Boxes, LoopEnds(b) PROVE DaemonInv'
    <3>1. /\ main \notin {"exit", "panic"} /\ boxCtx[b] = "done" /\ loop[b] = "running"
          /\ loop' = [loop EXCEPT ![b] = "ended"]
          /\ UNCHANGED <<config, main, newVars, toClose, db, boxCtx, netVars>>
      BY <2>14, Zenon DEF LoopEnds, Running
    <3>2. /\ loop'[b] = "ended" /\ loop' \in [Boxes -> {"none", "gc", "running", "ended"}]
          /\ \A x \in Boxes : x # b => loop'[x] = loop[x]
      BY <3>1
    <3>3. Fun'
      BY <3>1, <3>2
    <3>4. NewInv'
      BY <3>1, <3>2
    <3>5. ServeInv'
      BY <3>1, <3>2
    <3>6. CloseInv'
      BY <3>1, <3>2, Zenon
    <3> QED
      BY <3>3, <3>4, <3>5, <3>6, Zenon
  <2>15. ASSUME NEW b \in Boxes, WaitLoopGc(b) PROVE DaemonInv'
    <3>1. CASE main' = "panic" /\ UNCHANGED loop
      <4>1. type[b] = "porto" /\ loop'[b] = "gc" /\ UNCHANGED <<config, newVars, boxVars, netVars>>
        BY <2>15, <3>1 DEF WaitLoopGc
      <4>2. ServingIsComplete' /\ HandlersGivenUpFirst'
        BY <4>1
      <4>3. Fun' /\ CloseInv'
        BY <3>1, <4>1
      <4>4. NewInv'
        <5>1. b \in boxes /\ main \notin {"cfg", "exit"}
          BY <2>15 DEF WaitLoopGc, Running
        <5> QED
          BY <3>1, <4>1, <5>1
      <4>5. ServeInv'
        BY <3>1, <4>1, <4>2, Zenon
      <4> QED
        BY <4>3, <4>4, <4>5, Zenon
    <3>2. ASSUME UNCHANGED main, NEW l \in {"running", "ended"}, l = "ended" => mtn,
                 loop' = [loop EXCEPT ![b] = l]
          PROVE  DaemonInv'
      <4>1. type[b] = "porto" /\ loop'[b] = l /\ \A d \in Boxes : d # b => loop'[d] = loop[d]
        BY <2>15, <3>2 DEF WaitLoopGc
      <4>2. UNCHANGED <<config, main, newVars, toClose, db, boxCtx, netVars>> /\ Running
        BY <2>15, <3>2 DEF WaitLoopGc
      <4>3. Fun' /\ \A d \in Boxes : Up(d) => Up(d)'
        <5>1. Fun'
          BY <3>2, <4>2
        <5>2. ASSUME NEW d \in Boxes, Up(d) PROVE Up(d)'
          BY <3>2, <4>1, <4>2, <5>2
        <5> QED
          BY <5>1, <5>2, Zenon
      <4>4. NewInv'
        <5>1. main \in {"cfg", "boxes", "listen", "serve"} => \A d \in boxes : Up(d)'
          BY <4>3, Zenon
        <5> QED
          BY <4>2, <5>1, Zenon
      <4>5. ServeInv'
        BY <4>2, <4>3 DEF Running
      <4>6. CloseInv'
        BY <4>1, <4>2, <4>3 DEF Running
      <4> QED
        BY <4>3, <4>4, <4>5, <4>6, Zenon
    <3> QED
      BY <2>15, <3>1, <3>2, Zenon DEF WaitLoopGc
  <2>16. ASSUME NEW e \in Endpoints, AcceptFails(e) PROVE DaemonInv'
    BY <2>16, Zenon DEF AcceptFails
  <2>17. ASSUME NEW e \in Endpoints, NEW c \in Conns, Accept(e, c) PROVE DaemonInv'
    <3>1. /\ main \notin {"exit", "panic"} /\ accept[e] = "running"
          /\ conn' = [conn EXCEPT ![c] = "handled"]
          /\ UNCHANGED <<config, main, newVars, boxVars, listener, accept, serveCtx>>
      BY <2>17, Zenon DEF Accept, Running
    <3>2. Fun'
      BY <3>1
    <3>3. NewInv' /\ CloseInv'
      BY <3>1
    <3>4. ServeInv'
      BY <3>1
    <3> QED
      BY <3>2, <3>3, <3>4, Zenon
  <2>18. ASSUME NEW c \in Conns, ConnEnds(c) PROVE DaemonInv'
    BY <2>18 DEF ConnEnds
  <2>19. ASSUME NEW b \in Boxes, WaitLoopPanics(b) \/ RequestAllocsPanics(b) PROVE DaemonInv'
    <3>1. main' = "panic" /\ UNCHANGED <<config, newVars, boxVars, netVars>>
      BY <2>19, Zenon DEF WaitLoopPanics, RequestAllocsPanics
    <3> QED
      BY <3>1
  <2> QED
    BY <2>1, <2>2, <2>3, <2>4, <2>5, <2>6, <2>7, <2>8, <2>9, <2>10, <2>11, <2>12, <2>13,
       <2>14, <2>15, <2>16, <2>17, <2>18, <2>19, Zenon DEF DaemonNext, New, Serve, Close
<1> QED
  BY <1>1, <1>2, PTL DEF DaemonSpec

\* A connection is accepted only while all that its requests need is there.
THEOREM ServesComplete == DaemonSpec => []ServingIsComplete
<1>1. DaemonInv => ServingIsComplete
  BY DEF DaemonInv, ServeInv
<1> QED
  BY <1>1, DaemonInvariance, PTL

\* Boxes are closed after the contexts of the connections.
THEOREM BoxesOutlive == DaemonSpec => []HandlersGivenUpFirst
<1>1. DaemonInv => HandlersGivenUpFirst
  BY DEF DaemonInv, ServeInv
<1> QED
  BY <1>1, DaemonInvariance, PTL

\* A failed New is undone, and so is a failed Serve.
THEOREM FailuresUndone == DaemonSpec => []FailedStartUndone
<1>1. DaemonInv => FailedStartUndone
  BY DEF DaemonInv, ServeInv, CloseInv, Closed, FailedStartUndone
<1> QED
  BY <1>1, DaemonInvariance, PTL

\* A daemon that served and exits, without a panic, has closed every box, with
\* the handler of the process box over and the database of the pool closed.
THEOREM EndIsClean == DaemonSpec => []CloseComplete
<1>1. DaemonInv => CloseComplete
  BY DEF DaemonInv, NewInv, CloseInv, Closed, CloseComplete
<1> QED
  BY <1>1, DaemonInvariance, PTL

\* The daemon stays well typed, with one box of a type and none of an unknown
\* one.
THEOREM DaemonTypes == DaemonSpec => []DaemonTypeOK
<1>1. DaemonInit => DaemonTypeOK
  BY Zenon DEF DaemonInit, DaemonTypeOK
<1>2. DaemonTypeOK /\ [DaemonNext]_daemonVars => DaemonTypeOK'
  <2> SUFFICES ASSUME DaemonTypeOK, [DaemonNext]_daemonVars PROVE DaemonTypeOK'
    OBVIOUS
  <2> USE DEF DaemonTypeOK, config, newVars, boxVars, netVars
  <2>1. ASSUME UNCHANGED daemonVars PROVE DaemonTypeOK'
    BY <2>1 DEF daemonVars
  <2>2. ASSUME CfgInit \/ NewReturns PROVE DaemonTypeOK'
    BY <2>2 DEF CfgInit, NewReturns
  <2>3. ASSUME NEW b \in Boxes, ConstructBox(b) PROVE DaemonTypeOK'
    BY <2>3 DEF ConstructBox, Duplicated
  <2>4. ASSUME NEW b \in Boxes, Refused(b) \/ ConstructFails(b) \/ LoadJournalFails(b) PROVE DaemonTypeOK'
    BY <2>4 DEF Refused, ConstructFails, LoadJournalFails, FailNew
  <2>5. ASSUME Serve PROVE DaemonTypeOK'
    BY <2>5 DEF Serve, ListenFails, ServeOnListeners, ServeReturns, Listen, closeListeners
  <2>6. ASSUME Close PROVE DaemonTypeOK'
    BY <2>6 DEF Close, Exit, CloseNext, CloseBox
  <2>7. ASSUME NEW b \in Boxes, WaitLoopGc(b) \/ WaitLoopPanics(b) \/ RequestAllocsPanics(b) \/ LoopEnds(b)
        PROVE  DaemonTypeOK'
    BY <2>7 DEF WaitLoopGc, WaitLoopPanics, RequestAllocsPanics, LoopEnds
  <2>8. ASSUME NEW e \in Endpoints, AcceptFails(e) \/ \E c \in Conns : Accept(e, c) PROVE DaemonTypeOK'
    BY <2>8 DEF AcceptFails, Accept
  <2>9. ASSUME NEW c \in Conns, ConnEnds(c) PROVE DaemonTypeOK'
    BY <2>9 DEF ConnEnds
  <2> QED
    BY <2>1, <2>2, <2>3, <2>4, <2>5, <2>6, <2>7, <2>8, <2>9, Zenon DEF DaemonNext, New
<1> QED
  BY <1>1, <1>2, PTL DEF DaemonSpec

\* The daemon never waits for what cannot happen.  While it serves, every
\* endpoint has the accept loop that wg.Wait counts on; and where Close waits,
\* it is for the loop of a process box that runs and has been told to end.
\* This is what the liveness property DeafDaemonEnds rests on.
WaitsHaveAnEnd ==
  /\ main = "serve" => \A e \in Endpoints : accept[e] \in {"running", "ended"}
  /\ main = "close" =>
       AwaitLoop \/ \E b \in boxes \ toClose : loop[b] = "running" /\ boxCtx[b] = "done"

\* A box in the map has its loop, and a daemon that serves its accept loops.
StartedInv ==
  /\ \A b \in boxes : loop[b] # "none"
  /\ main = "serve" => \A e \in Endpoints : accept[e] # "none"

\* Nothing that was started is as if it never was.
LEMMA StartedStep ==
  ASSUME DaemonTypeOK, StartedInv, [DaemonNext]_daemonVars
  PROVE  StartedInv'
<1> USE DEF StartedInv, DaemonTypeOK, config, newVars, boxVars, netVars
<1>1. ASSUME CfgInit \/ NewReturns \/ ListenFails \/ ServeReturns \/ Exit \/ UNCHANGED daemonVars
      PROVE  StartedInv'
  BY <1>1 DEF CfgInit, NewReturns, ListenFails, ServeReturns, Exit, daemonVars
<1>2. ASSUME NEW b \in Boxes, ConstructBox(b) PROVE StartedInv'
  BY <1>2 DEF ConstructBox
<1>3. ASSUME NEW b \in Boxes, Refused(b) \/ ConstructFails(b) \/ LoadJournalFails(b) PROVE StartedInv'
  BY <1>3 DEF Refused, ConstructFails, LoadJournalFails, FailNew
<1>4. ASSUME ServeOnListeners PROVE StartedInv'
  BY <1>4 DEF ServeOnListeners
<1>5. ASSUME NEW e \in Endpoints, Listen(e) PROVE StartedInv'
  BY <1>5 DEF Listen
<1>6. ASSUME NEW b \in Boxes, CloseNext(b) PROVE StartedInv'
  BY <1>6 DEF CloseNext, CloseBox
<1>7. ASSUME NEW b \in Boxes, WaitLoopGc(b) PROVE StartedInv'
  <2>1. /\ boxes' = boxes /\ accept' = accept /\ main' \in {main, "panic"}
        /\ loop' = loop \/ \E l \in {"running", "ended"} : loop' = [loop EXCEPT ![b] = l]
    BY <1>7, Zenon DEF WaitLoopGc
  <2> QED
    BY <2>1
<1>8. ASSUME NEW b \in Boxes, LoopEnds(b) PROVE StartedInv'
  BY <1>8 DEF LoopEnds
<1>9. ASSUME NEW e \in Endpoints, AcceptFails(e) PROVE StartedInv'
  BY <1>9 DEF AcceptFails
<1>10. ASSUME NEW c \in Conns, ConnEnds(c) \/ \E e \in Endpoints : Accept(e, c) PROVE StartedInv'
  BY <1>10 DEF ConnEnds, Accept
<1>11. ASSUME NEW b \in Boxes, WaitLoopPanics(b) \/ RequestAllocsPanics(b) PROVE StartedInv'
  BY <1>11 DEF WaitLoopPanics, RequestAllocsPanics
<1> QED
  BY <1>1, <1>2, <1>3, <1>4, <1>5, <1>6, <1>7, <1>8, <1>9, <1>10, <1>11, Zenon
     DEF DaemonNext, New, Serve, Close

\* Serve and Close never wait for a loop that does not run, or that nobody has
\* told to end.
THEOREM NothingHangs == DaemonSpec => []WaitsHaveAnEnd
<1>1. DaemonInit => StartedInv
  BY DEF DaemonInit, StartedInv
<1>2. DaemonTypeOK /\ StartedInv /\ [DaemonNext]_daemonVars => StartedInv'
  BY StartedStep
<1>3. DaemonInv /\ DaemonTypeOK /\ StartedInv => WaitsHaveAnEnd
  <2> SUFFICES ASSUME DaemonInv, DaemonTypeOK, StartedInv PROVE WaitsHaveAnEnd
    OBVIOUS
  <2>1. ASSUME main = "serve", NEW e \in Endpoints PROVE accept[e] \in {"running", "ended"}
    BY <2>1 DEF StartedInv, DaemonTypeOK
  <2>2. ASSUME main = "close", NEW b \in boxes, type[b] = "process", b \notin toClose, loop[b] # "ended"
        PROVE  loop[b] = "running" /\ boxCtx[b] = "done"
    <3>1. b \in Boxes /\ loop[b] \in {"gc", "running"}
      BY <2>2 DEF StartedInv, DaemonTypeOK
    <3>2. loop[b] # "gc"
      BY <2>2, <3>1 DEF DaemonInv, Fun
    <3>3. boxCtx[b] = "done"
      BY <2>2 DEF DaemonInv, CloseInv, Closed
    <3> QED
      BY <3>1, <3>2, <3>3
  <2> QED
    BY <2>1, <2>2 DEF WaitsHaveAnEnd, AwaitLoop
<1> QED
  BY <1>1, <1>2, <1>3, DaemonInvariance, DaemonTypes, PTL DEF DaemonSpec
=============================================================================
