---------------------------- MODULE GateCounting ----------------------------
(***************************************************************************)
(* Counting the calls that are at given places of their code, as the       *)
(* spawning queues and the semaphores of the boxes do.                     *)
(***************************************************************************)
EXTENDS Integers, FiniteSets, FiniteSetTheorems, TLAPS

\* The calls of S that f places at one of the labels of L, and their number.
At(S, f, L) == {s \in S : f[s] \in L}
Size(S, f, L) == Cardinality(At(S, f, L))
In(l, L) == IF l \in L THEN 1 ELSE 0

\* A call that moves changes the set by itself at most, and the number
\* accordingly.
LEMMA MoveSize ==
  ASSUME NEW S, IsFiniteSet(S), NEW f, NEW g, NEW s \in S, NEW L,
         \A t \in S : t # s => g[t] = f[t]
  PROVE  /\ Size(S, f, L) \in Nat
         /\ Size(S, g, L) = Size(S, f, L) + In(g[s], L) - In(f[s], L)
<1>1. IsFiniteSet(At(S, f, L))
  BY FS_Subset DEF At
<1>2. Cardinality(At(S, f, L)) \in Nat
  BY <1>1, FS_CardinalityType
<1>3. ASSUME (f[s] \in L) = (g[s] \in L) PROVE At(S, g, L) = At(S, f, L)
  BY <1>3 DEF At
<1>4. ASSUME f[s] \notin L, g[s] \in L
      PROVE  At(S, g, L) = At(S, f, L) \cup {s} /\ s \notin At(S, f, L)
  BY <1>4 DEF At
<1>5. ASSUME f[s] \in L, g[s] \notin L
      PROVE  At(S, g, L) = At(S, f, L) \ {s} /\ s \in At(S, f, L)
  BY <1>5 DEF At
<1>6. ASSUME f[s] \notin L, g[s] \in L PROVE Cardinality(At(S, g, L)) = Cardinality(At(S, f, L)) + 1
  BY <1>1, <1>4, <1>6, FS_AddElement
<1>7. ASSUME f[s] \in L, g[s] \notin L PROVE Cardinality(At(S, g, L)) = Cardinality(At(S, f, L)) - 1
  BY <1>1, <1>5, <1>7, FS_RemoveElement
<1> QED
  BY <1>2, <1>3, <1>6, <1>7 DEF Size, In

\* The number is a natural number, and grows with the labels.
LEMMA SizeOrder ==
  ASSUME NEW S, IsFiniteSet(S), NEW f, NEW L, NEW M, L \subseteq M
  PROVE  /\ Size(S, f, L) \in Nat /\ Size(S, f, M) \in Nat
         /\ Size(S, f, L) <= Size(S, f, M)
<1>1. IsFiniteSet(At(S, f, L)) /\ IsFiniteSet(At(S, f, M)) /\ At(S, f, L) \subseteq At(S, f, M)
  BY FS_Subset DEF At
<1> QED
  BY <1>1, FS_CardinalityType, FS_Subset DEF Size

\* Where no call is at one of the labels, the number is zero.
LEMMA SizeZero ==
  ASSUME NEW S, NEW f, NEW L, \A s \in S : f[s] \notin L
  PROVE  Size(S, f, L) = 0
<1>1. At(S, f, L) = {}
  BY DEF At
<1> QED
  BY <1>1, FS_EmptySet DEF Size
=============================================================================
