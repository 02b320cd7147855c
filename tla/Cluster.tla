------------------------------- MODULE Cluster -------------------------------
(***************************************************************************)
(* The trusted model root (scripts/cluster.mjs): a process that starts the *)
(* workers, waits until each listens, starts the engine and waits until it *)
(* is healthy.  Any child that ends, a stop.request, a signal and a failed *)
(* start stop it: the children there are by then are told to end.  Nothing *)
(* asks for a stop between the answer of a probe and the start of the      *)
(* engine, so an engine may start after the children were told.  The       *)
(* service host that runs the process (Services) contains it: what is left *)
(* when it has ended is ended with the host's job.                         *)
(***************************************************************************)
EXTENDS Naturals, FiniteSets

CONSTANT ClusterWorker   \* the workers it starts; none if contributors run them

VARIABLES
  progress,   \* how far the process has come
  draining,   \* stopping
  child,      \* its children: not started, running, told to end, started late, or ended
  report      \* status.json is there

clusterVars == <<progress, draining, child, report>>

Engine == "engine"
ASSUME ClusterAssumption == Engine \notin ClusterWorker

Children == ClusterWorker \cup {Engine}
Runs == {c \in Children : child[c] \in {"RUNS", "TOLD", "LATE"}}

\* The state, and what a stop has done: whatever ran then was told to end, and
\* only the engine can have started since.  (cluster.mjs 83-90)
ClusterTypeOK ==
  /\ progress \in {"WORKERS", "PROBES", "PROBED", "HEALTH", "HEALTHY", "READY", "THREW", "OVER"}
  /\ draining \in BOOLEAN /\ report \in BOOLEAN
  /\ child \in [Children -> {"NONE", "RUNS", "TOLD", "LATE", "ENDED"}]
  /\ draining => \A c \in Children : child[c] # "RUNS"
  /\ \A c \in ClusterWorker : child[c] # "LATE"

ClusterInit ==
  /\ progress = "WORKERS" /\ draining = FALSE /\ report = FALSE
  /\ child = [c \in Children |-> "NONE"]

Reaches(p) == progress' = p
Kept == UNCHANGED <<draining, child, report>>

ToldOnes == Children

\* stop: only the first has an effect.  ch: the children as they are by then.
Drains(ch) ==
  /\ draining' = TRUE
  /\ child' = IF draining THEN ch
              ELSE [c \in Children |-> IF c \in ToldOnes /\ ch[c] = "RUNS" THEN "TOLD" ELSE ch[c]]

\* They are spawned in one turn of the event loop, before it has looked for a stop.
launchesWorkers ==
  /\ progress = "WORKERS" /\ Reaches("PROBES")
  /\ child' = [c \in Children |-> IF c \in ClusterWorker THEN "RUNS" ELSE child[c]]
  /\ UNCHANGED <<draining, report>>

\* waitFor: a probe sent before a stop is answered, perhaps after it; or the stop
\* or the time ends the wait.
Awaited == IF progress = "PROBES" THEN ClusterWorker ELSE {Engine}
waits ==
  /\ progress \in {"PROBES", "HEALTH"}
  /\ \/ /\ ~draining /\ Awaited \subseteq Runs
        /\ Reaches(IF progress = "PROBES" THEN "PROBED" ELSE "HEALTHY")
     \/ Reaches("THREW")
  /\ Kept

launchesEngine ==
  /\ progress = "PROBED" /\ Reaches("HEALTH")
  /\ child' = [child EXCEPT ![Engine] = IF draining THEN "LATE" ELSE "RUNS"]
  /\ UNCHANGED <<draining, report>>

\* The engine's file is hashed before the status is written: it may be draining.
writesStatus ==
  /\ progress = "HEALTHY"
  /\ \/ report' = TRUE /\ Reaches("READY")
     \/ UNCHANGED report /\ Reaches("THREW")
  /\ UNCHANGED <<draining, child>>

\* The error is not caught: the process ends at once, whatever still runs.
throws ==
  /\ progress = "THREW" /\ Reaches("OVER")
  /\ Drains(child)
  /\ UNCHANGED report

Hears == progress # "OVER"

clusterChildEnds(c) ==
  /\ c \in Runs
  /\ LET ch == [child EXCEPT ![c] = "ENDED"] IN
     IF Hears THEN Drains(ch) ELSE child' = ch /\ UNCHANGED draining
  /\ UNCHANGED <<progress, report>>

\* stop.request, or a signal or a line of its input once it listens.
asksStop ==
  /\ progress \notin {"WORKERS", "OVER"} /\ ~draining
  /\ Drains(child)
  /\ UNCHANGED <<progress, report>>

\* It has nothing left to wait for; or it is killed.
clusterEnds == progress = "READY" /\ draining /\ Runs = {} /\ Reaches("OVER") /\ Kept
clusterKilled == progress # "OVER" /\ Reaches("OVER") /\ Kept

\* The job of its service host closes.
hostCloses ==
  /\ progress = "OVER" /\ Runs # {}
  /\ child' = [c \in Children |-> IF c \in Runs THEN "ENDED" ELSE child[c]]
  /\ UNCHANGED <<progress, draining, report>>

ClusterStep == launchesWorkers \/ waits \/ launchesEngine \/ writesStatus \/ throws \/ clusterEnds
ClusterNext ==
  \/ ClusterStep \/ asksStop \/ clusterKilled \/ hostCloses
  \/ \E c \in Children : clusterChildEnds(c)

ClusterSpec == ClusterInit /\ [][ClusterNext]_clusterVars

\* A child that was told to end does.
ClusterChildLeaves(c) == child[c] = "TOLD" /\ clusterChildEnds(c)

\* One child that ends, or one stop, ends the whole cluster, at whatever step of
\* its start: also the engine that started after the stop.  (cluster.mjs 83-115,
\* "draining the whole local cluster")
OneEndsAll == (draining \/ \E c \in Children : child[c] = "ENDED") ~> (Runs = {})
=============================================================================
