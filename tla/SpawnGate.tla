------------------------------ MODULE SpawnGate ------------------------------
(***************************************************************************)
(* What the boxes promise about the gate every Spawn goes through, said    *)
(* with the calls themselves and not with the counter and the semaphore    *)
(* the code keeps:                                                         *)
(*  - a Spawn is refused (EAGAIN) only while more than QueueMax calls      *)
(*    stand at the gate, and admitted only while there are no more;        *)
(*  - at most SmSize of the admitted have a slot at a time;                *)
(*  - a call leaves the gate once, and a restart empties it.               *)
(* A call stands at the gate until it has given its place back, which is   *)
(* after the answer: one that was refused or gave up is leaving, one that  *)
(* got a slot is entering, and both make others wait or be refused still.  *)
(* A box may lose a place: a call goes without giving its place back, and  *)
(* the places lost count as calls until the restart.                       *)
(***************************************************************************)
EXTENDS Naturals, FiniteSets

CONSTANTS Spawns, QueueMax, SmSize

VARIABLES place,   \* where a call is
          lost,    \* the places lost since the start
          crashes  \* how often the box was started again

vars == <<place, lost, crashes>>

At(places) == {s \in Spawns : place[s] \in places}

\* The places taken.
Standing == Cardinality(At({"asking", "waiting", "entering", "leaving"})) + lost

Go(s, from, to) ==
  /\ place[s] = from /\ place' = [place EXCEPT ![s] = to]
  /\ UNCHANGED crashes

Ask(s)    == Go(s, "out", "asking") /\ UNCHANGED lost
Refuse(s) == Standing > QueueMax /\ Go(s, "asking", "leaving") /\ UNCHANGED lost
Admit(s)  == Standing <= QueueMax /\ Go(s, "asking", "waiting") /\ UNCHANGED lost
GiveUp(s) == Go(s, "waiting", "leaving") /\ UNCHANGED lost
Lose(s)   == Go(s, "waiting", "gone") /\ lost' = lost + 1
Enter(s)  ==
  /\ Cardinality(At({"entering", "inside"})) < SmSize
  /\ Go(s, "waiting", "entering") /\ UNCHANGED lost

\* The place is given back, and then the slot.
Pass(s)   == Go(s, "entering", "inside") /\ UNCHANGED lost
Leave(s)  == (Go(s, "leaving", "gone") \/ Go(s, "inside", "gone")) /\ UNCHANGED lost

Restart ==
  /\ place' = [s \in Spawns |-> IF place[s] = "out" THEN "out" ELSE "gone"]
  /\ lost' = 0 /\ crashes' = crashes + 1

Init == place = [s \in Spawns |-> "out"] /\ lost = 0 /\ crashes = 0

Next ==
  \/ Restart
  \/ \E s \in Spawns :
       Ask(s) \/ Refuse(s) \/ Admit(s) \/ GiveUp(s) \/ Lose(s) \/ Enter(s) \/ Pass(s) \/ Leave(s)

Spec == Init /\ [][Next]_vars
=============================================================================
