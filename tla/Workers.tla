------------------------------- MODULE Workers -------------------------------
(***************************************************************************)
(* What a client of the isolation daemon is promised about the workers it  *)
(* asks for, one worker per channel, whatever goroutines carry it out:     *)
(*  - a worker is started for a request, at most once, and is killed only  *)
(*    after the client gave it up (a kill message, the end of the          *)
(*    connection);                                                         *)
(*  - a worker that is not coming is announced by an error, except to a    *)
(*    client that has given it up;                                         *)
(*  - the kill of a worker is answered after it, truthfully, at most once. *)
(***************************************************************************)
EXTENDS Sequences

CONSTANT Channels

VARIABLES life,      \* what became of the worker of a channel
          givenUp,   \* the client gave the channel up
          answer     \* the replies to the spawn request of a channel

vars == <<life, givenUp, answer>>

Init ==
  /\ life = [ch \in Channels |-> "none"]
  /\ givenUp = [ch \in Channels |-> FALSE]
  /\ answer = [ch \in Channels |-> <<>>]

Become(ch, from, to) == life[ch] = from /\ life' = [life EXCEPT ![ch] = to]

Tell(ch, r) == answer[ch] = <<>> /\ answer' = [answer EXCEPT ![ch] = <<r>>]

Request(ch) == Become(ch, "none", "spawning") /\ UNCHANGED <<givenUp, answer>>

Start(ch) == Become(ch, "spawning", "running") /\ UNCHANGED <<givenUp, answer>>

\* The request is refused, or abandoned without a word.
Refuse(ch) ==
  /\ Become(ch, "spawning", "never")
  /\ \/ Tell(ch, "SpawnError")
     \/ givenUp[ch] /\ UNCHANGED answer
  /\ UNCHANGED givenUp

Kill(ch) ==
  /\ givenUp[ch]
  /\ Become(ch, "running", "killed") \/ Become(ch, "running", "unkilled")
  /\ UNCHANGED <<givenUp, answer>>

Confirm(ch) ==
  /\ \/ life[ch] = "killed" /\ Tell(ch, "KillOk")
     \/ life[ch] = "unkilled" /\ Tell(ch, "KillError")
  /\ UNCHANGED <<life, givenUp>>

\* A kill message gives up one channel, the end of a connection all of them.
GiveUp ==
  /\ givenUp' \in [Channels -> BOOLEAN]
  /\ \A ch \in Channels : givenUp[ch] => givenUp'[ch]
  /\ UNCHANGED <<life, answer>>

Next ==
  \/ GiveUp
  \/ \E ch \in Channels :
       Request(ch) \/ Start(ch) \/ Refuse(ch) \/ Kill(ch) \/ Confirm(ch)

Spec == Init /\ [][Next]_vars

\* What a client may conclude from what it sees.  No worker was killed that it
\* had not given up; a worker that will never be was refused in so many words
\* or had been given up; and an answer is single and true, of a channel where
\* nothing is running any more.
Promise ==
  \A ch \in Channels :
    /\ life[ch] \in {"killed", "unkilled"} => givenUp[ch]
    /\ life[ch] = "never" => givenUp[ch] \/ answer[ch] = <<"SpawnError">>
    /\ answer[ch] # <<>> =>
         \/ answer[ch] = <<"SpawnError">> /\ life[ch] = "never"
         \/ answer[ch] = <<"KillOk">> /\ life[ch] = "killed"
         \/ answer[ch] = <<"KillError">> /\ life[ch] = "unkilled"
=============================================================================
