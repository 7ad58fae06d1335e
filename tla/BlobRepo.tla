------------------------------- MODULE BlobRepo -------------------------------
(***************************************************************************)
(* The blob repository of the Porto box (isolate/porto/repository.go): any *)
(* number of Get calls for one digest share one download.  Digests do not  *)
(* interact, so one is modelled.  Each caller has a context of its own;    *)
(* the download is given the one of the caller that started it and does    *)
(* not look at it, so that it goes on when that caller leaves.  The        *)
(* specification is RepoSpec: no name is one of the other parts of the     *)
(* Porto box, PortoVolumes and PortoSpawn.                                 *)
(***************************************************************************)
EXTENDS Naturals, FiniteSets

CONSTANTS Gets, Nothing

Results == {"path", "error"}

ASSUME BlobRepoAssumption == Nothing \notin Results /\ \A S \in SUBSET Gets : Nothing # S

VARIABLES
  get,         \* where the Get of a caller is
  cancelled,   \* the callers whose context is done
  blob,        \* the blob is in the spool directory, under its name
  inProgress,  \* the channels waiting for the digest, or Nothing without the key
  fetch,       \* the goroutines downloading: their starter, where and the result
  chan         \* the result in the buffer of the channel of a caller

repoVars == <<get, cancelled, blob, inProgress, fetch, chan>>

Waiting == IF inProgress = Nothing THEN {} ELSE inProgress

Call(c) ==
  /\ get[c] = "idle"
  /\ get' = [get EXCEPT ![c] = "lstat"]
  /\ UNCHANGED <<cancelled, blob, inProgress, fetch, chan>>

\* Get: the blob is there, the file system fails, or it is to be downloaded.
Lstat(c) ==
  /\ get[c] = "lstat"
  /\ get' \in {[get EXCEPT ![c] = r] : r \in {IF blob THEN "path" ELSE "download", "error"}}
  /\ UNCHANGED <<cancelled, blob, inProgress, fetch, chan>>

\* Mutant: every waiter starts a download.
StartsAlways == TRUE
Starts == inProgress = Nothing

\* download, up to the select: the first waiter starts the goroutine.
Join(c) ==
  /\ get[c] = "download"
  /\ get' = [get EXCEPT ![c] = "wait"]
  /\ inProgress' = Waiting \cup {c}
  /\ fetch' = IF Starts
              THEN fetch \cup {[by |-> c, at |-> "fetch", res |-> "error"]}
              ELSE fetch
  /\ UNCHANGED <<cancelled, blob, chan>>

\* Mutant: the error of fetch is not looked at.
FetchResultPath(ok) == "path"
FetchResult(ok) == IF ok THEN "path" ELSE "error"

\* fetch downloads to a file of its own and renames it; the registry or the file
\* system may fail.  Neither the client of the registry nor io.Copy looks at the
\* context of the starter.
FetchEnds(f) ==
  /\ f.at = "fetch"
  /\ \E ok \in BOOLEAN :
       /\ blob' = (blob \/ ok)
       /\ fetch' = (fetch \ {f}) \cup {[f EXCEPT !.at = "notify", !.res = FetchResult(ok)]}
  /\ UNCHANGED <<get, cancelled, inProgress, chan>>

\* Mutant: the key is not deleted.
ForgetNothing == inProgress
ForgetWaiters == Nothing

\* Mutant: only the caller that started the download is told.
NotifiedFirst(f) == {f.by}
Notified(f) == Waiting

\* Under the lock: the result to every waiter, then the key is deleted.
Notify(f) ==
  /\ f.at = "notify"
  /\ chan' = [c \in Gets |-> IF c \in Notified(f) THEN f.res ELSE chan[c]]
  /\ inProgress' = ForgetWaiters
  /\ fetch' = fetch \ {f}
  /\ UNCHANGED <<get, cancelled, blob>>

\* The select of download: the result or the end of the caller's context.
Receive(c) ==
  /\ get[c] = "wait" /\ chan[c] # Nothing
  /\ get' = [get EXCEPT ![c] = chan[c]]
  /\ chan' = [chan EXCEPT ![c] = Nothing]
  /\ UNCHANGED <<cancelled, blob, inProgress, fetch>>

GiveUp(c) ==
  /\ get[c] = "wait" /\ c \in cancelled
  /\ get' = [get EXCEPT ![c] = "error"]
  /\ UNCHANGED <<cancelled, blob, inProgress, fetch, chan>>

\* The client cancels the spool, or its connection ends.
Cancel(c) ==
  /\ c \notin cancelled /\ get[c] \notin {"idle", "path", "error"}
  /\ cancelled' = cancelled \cup {c}
  /\ UNCHANGED <<get, blob, inProgress, fetch, chan>>

RepoInit ==
  /\ get = [c \in Gets |-> "idle"] /\ cancelled = {}
  /\ blob = FALSE /\ inProgress = Nothing /\ fetch = {}
  /\ chan = [c \in Gets |-> Nothing]

Get(c) == Lstat(c) \/ Join(c) \/ Receive(c) \/ GiveUp(c)
Fetch(f) == FetchEnds(f) \/ Notify(f)

RepoNext ==
  \/ \E c \in Gets : Call(c) \/ Get(c) \/ Cancel(c)
  \/ \E f \in fetch : Fetch(f)

RepoSpec == RepoInit /\ [][RepoNext]_repoVars

\* A runnable goroutine runs, and the registry answers or fails.
RepoFairness ==
  /\ \A c \in Gets : WF_repoVars(Get(c))
  /\ WF_repoVars(\E f \in fetch : Fetch(f))

FairRepoSpec == RepoSpec /\ RepoFairness

(***************************************************************************)
(* Properties.                                                             *)
(***************************************************************************)

\* The types; a channel holds at most the one result its buffer has room for.
RepoTypeOK ==
  /\ get \in [Gets -> {"idle", "lstat", "download", "wait"} \cup Results]
  /\ cancelled \subseteq Gets /\ blob \in BOOLEAN
  /\ inProgress \in (SUBSET Gets) \cup {Nothing}
  /\ fetch \subseteq [by : Gets, at : {"fetch", "notify"}, res : Results]
  /\ chan \in [Gets -> Results \cup {Nothing}]

\* Single flight: at most one goroutine downloads the blob, however the calls,
\* the ends of downloads and the notifications interleave (download).
OneFetch == Cardinality(fetch) <= 1

\* Nobody waits for a download that will not be announced: a caller in the
\* select has its result, or is among those the running goroutine will notify.
WaiterServed ==
  \A c \in Gets : get[c] = "wait" /\ chan[c] = Nothing => c \in Waiting /\ fetch # {}

\* A path returned by Get names a file that is there.
PathExists == \A c \in Gets : get[c] = "path" => blob

\* Every Get returns, with one download failing and another starting, and with
\* callers that leave before the result is sent to their channel.
GetReturns == \A c \in Gets : get[c] = "lstat" ~> get[c] \in Results
===============================================================================
