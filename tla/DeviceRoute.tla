----------------------------- MODULE DeviceRoute -----------------------------
(***************************************************************************)
(* The installation of a route on one host (scripts/device-route.mjs): a   *)
(* command that invites the nodes, publishes, accepts and qualifies the    *)
(* route, writes the private files, starts the services and enables the    *)
(* route once the coordinator finds it available.  installation.json is    *)
(* written after each of these, so that the next command can go on from    *)
(* there; a command that fails stops what it has started and pauses its    *)
(* nodes.  A command may end at any step, an answer of the coordinator     *)
(* may be lost, a write and a stop may fail, and a service may end.        *)
(*                                                                         *)
(* One command runs at a time: nothing in the script keeps two apart.  A   *)
(* request whose answer is lost is done or not by the time of the next     *)
(* command.  Index 0 is the root and i > 0 stage i; the services are       *)
(* numbered in the order of their start: the control link, the contributor *)
(* and the RPC link of each stage, the cluster, and the root's node.       *)
(***************************************************************************)
EXTENDS Naturals, FiniteSets

CONSTANTS
  RecipeStages,   \* how many stages the recipe has
  MaxFaults       \* bound on the faults of a behaviour

ASSUME DeviceAssumption == RecipeStages \in Nat /\ MaxFaults \in Nat

VARIABLES
  command,      \* the command: how far it has come
  saved,        \* installation.json
  known,        \* the command's own copy of it
  coordinator,  \* what the coordinator has made of its requests
  files,        \* the private files of each index
  up,           \* the services that run
  last,         \* how the last command has ended
  faults        \* faults so far

deviceVars == <<command, saved, known, coordinator, files, up, last, faults>>

Index == 0..RecipeStages
LastService == 3 * RecipeStages + 2
Absent == [enabled |-> FALSE, invites |-> 0, route |-> FALSE, key |-> 0]
State == [enabled : BOOLEAN, invites : 0..(RecipeStages + 1), route : BOOLEAN, key : 0..2]
Idle == [at |-> "IDLE", i |-> 0, installing |-> FALSE, clean |-> TRUE]

\* The state that a command and its file can be in.  (The loops over stages.)
DeviceTypeOK ==
  /\ command \in [at : {"IDLE", "FIRST", "ROOM", "INVITE", "KEEP", "ROUTE", "KEEP_ROUTE", "ACCEPT",
                        "FILES", "WRITING", "QUALIFY", "NODES", "STARTING", "LAUNCH", "UNDO",
                        "WAIT", "ENABLE", "CLEAN", "PAUSE", "NOTE"},
                  i : 0..(LastService + 1), installing : BOOLEAN, clean : BOOLEAN]
  /\ saved \in State /\ known \in State
  /\ coordinator \in [invited : [Index -> Nat], desired : [Index -> {"READY", "PAUSED"}],
                      published : SUBSET (1..2), accepted : BOOLEAN, qualified : BOOLEAN]
  /\ files \in [Index -> {"NONE", "PART", "WHOLE"}]
  /\ up \subseteq 1..LastService
  /\ last \in {"NONE", "DONE", "FAILED", "UNSAVED", "BROKEN"}
  /\ faults \in 0..MaxFaults

DeviceInit ==
  /\ command = Idle /\ saved = Absent /\ known = Absent
  /\ coordinator = [invited |-> [i \in Index |-> 0], desired |-> [i \in Index |-> "READY"],
                    published |-> {}, accepted |-> FALSE, qualified |-> FALSE]
  /\ files = [i \in Index |-> "NONE"]
  /\ up = {} /\ last = "NONE" /\ faults = 0

-----------------------------------------------------------------------------
(* What every step is made of.                                             *)

Fault == faults < MaxFaults /\ faults' = faults + 1
NoFault == UNCHANGED faults

Turns(at, i) == command' = [command EXCEPT !.at = at, !.i = i]
Returns(how) == command' = Idle /\ known' = Absent /\ last' = how

\* A bug: a failure is cleaned up only once services have been started.
Cleans_Started == command.installing
\* The finally block: it has a state, which is not enabled.
Cleans == known.key # 0 /\ ~known.enabled

\* An error leaves the command, or goes through its finally block.
Fails ==
  IF Cleans THEN Turns("CLEAN", 0) /\ UNCHANGED <<known, last>> ELSE Returns("FAILED")

\* A request: answered; or not, and then it may have been done.
Calls(effect, s, at, i) ==
  \/ /\ coordinator' = effect /\ known' = s
     /\ Turns(at, i) /\ NoFault /\ UNCHANGED last
  \/ Fault /\ coordinator' \in {effect, coordinator} /\ Fails

\* installation.json is replaced, or stays as it is.
WritesState(at, i) ==
  /\ \/ saved' = known /\ Turns(at, i) /\ NoFault /\ UNCHANGED <<known, last>>
     \/ Fault /\ UNCHANGED saved /\ Fails

\* stopManagedDeviceRoute: every service ends, or the stop fails at one of them.
StopsAll == up' = {} /\ NoFault
StopFails == Fault /\ up' \in SUBSET up

-----------------------------------------------------------------------------
(* install.                                                                *)

\* A key that no route has been published with.
FreshKey == IF 1 \in coordinator.published THEN 2 ELSE 1

\* The state is read, or made and written.  A route that is enabled is started.
installs ==
  /\ command.at = "IDLE"
  /\ IF saved.key = 0
     THEN /\ known' = [Absent EXCEPT !.key = FreshKey]
          /\ \/ saved' = known' /\ Turns("FIRST", 0) /\ NoFault
             \/ Fault /\ UNCHANGED saved /\ Turns("CLEAN", 0)
     ELSE /\ known' = saved
          /\ IF saved.enabled THEN Turns("LAUNCH", 1) ELSE Turns("FIRST", 0)
          /\ NoFault /\ UNCHANGED saved
  /\ last' = "NONE"
  /\ UNCHANGED <<coordinator, files, up>>

\* What still runs is stopped.
stopsFirst ==
  /\ command.at = "FIRST"
  /\ \/ StopsAll /\ Turns("ROOM", 0) /\ UNCHANGED <<known, last>>
     \/ StopFails /\ Fails
  /\ UNCHANGED <<saved, coordinator, files>>

\* The devices of the stages have the memory, and every port is free.
findsRoom ==
  /\ command.at = "ROOM"
  /\ \/ Turns("INVITE", 0) /\ NoFault /\ UNCHANGED <<known, last>>
     \/ Fault /\ Fails
  /\ UNCHANGED <<saved, coordinator, files, up>>

Taken(i) == coordinator.invited[i] > 0

\* A bug: the invitations begin from the root again.
NextInvite_First == IF command.i > 0 THEN known.invites ELSE 0
NextInvite == known.invites

invites ==
  /\ command.at = "INVITE"
  /\ LET i == NextInvite IN
     IF i > RecipeStages
     THEN Turns("ROUTE", 0) /\ NoFault /\ UNCHANGED <<coordinator, known, last>>
     ELSE IF Taken(i) THEN Fails /\ NoFault /\ UNCHANGED coordinator
     ELSE Calls([coordinator EXCEPT !.invited[i] = @ + 1],
                [known EXCEPT !.invites = i + 1], "KEEP", i + 1)
  /\ UNCHANGED <<saved, files, up>>

keeps ==
  /\ command.at \in {"KEEP", "KEEP_ROUTE"}
  /\ WritesState(IF command.at = "KEEP" THEN "INVITE" ELSE "ACCEPT", command.i)
  /\ UNCHANGED <<coordinator, files, up>>

\* A route with the same key is published once.
publishes ==
  /\ command.at = "ROUTE"
  /\ IF known.route THEN Turns("ACCEPT", 0) /\ NoFault /\ UNCHANGED <<coordinator, known, last>>
     ELSE Calls([coordinator EXCEPT !.published = @ \cup {known.key}],
                [known EXCEPT !.route = TRUE], "KEEP_ROUTE", 0)
  /\ UNCHANGED <<saved, files, up>>

acceptsRoute ==
  /\ command.at = "ACCEPT"
  /\ Calls([coordinator EXCEPT !.accepted = TRUE], known, "FILES", 0)
  /\ UNCHANGED <<saved, files, up>>

Matches(i) == files[i] = "WHOLE"

\* matching: a file is written once; one that is there must be equal.
writesFile ==
  /\ command.at = "FILES"
  /\ LET i == command.i IN
     IF i > RecipeStages THEN Turns("QUALIFY", 0) /\ UNCHANGED <<files, known, last>>
     ELSE IF files[i] = "NONE"
     THEN /\ files' = [files EXCEPT ![i] = "PART"]
          /\ Turns("WRITING", i) /\ UNCHANGED <<known, last>>
     ELSE /\ IF Matches(i) THEN Turns("FILES", i + 1) /\ UNCHANGED <<known, last>> ELSE Fails
          /\ UNCHANGED files
  /\ NoFault /\ UNCHANGED <<saved, coordinator, up>>

fileWritten ==
  /\ command.at = "WRITING"
  /\ \/ /\ files' = [files EXCEPT ![command.i] = "WHOLE"]
        /\ Turns("FILES", command.i + 1) /\ NoFault /\ UNCHANGED <<known, last>>
     \/ Fault /\ Fails /\ UNCHANGED files
  /\ UNCHANGED <<saved, coordinator, up>>

qualifiesRoute ==
  /\ command.at = "QUALIFY"
  /\ Calls([coordinator EXCEPT !.qualified = coordinator.accepted], known, "NODES", 0)
  /\ UNCHANGED <<saved, files, up>>

readies ==
  /\ command.at = "NODES"
  /\ LET i == command.i IN
     IF i > RecipeStages
     THEN Turns("STARTING", 0) /\ NoFault /\ UNCHANGED <<coordinator, known, last>>
     ELSE Calls([coordinator EXCEPT !.desired[i] = "READY"], known, "NODES", i + 1)
  /\ UNCHANGED <<saved, files, up>>

saysStarting ==
  /\ command.at = "STARTING"
  /\ \/ /\ saved' = known /\ NoFault /\ UNCHANGED <<known, last>>
        /\ command' = [command EXCEPT !.at = "LAUNCH", !.i = 1, !.installing = TRUE]
     \/ Fault /\ UNCHANGED saved /\ Fails
  /\ UNCHANGED <<coordinator, files, up>>

-----------------------------------------------------------------------------
(* startDeviceRoute, and the end of an installation.                       *)

AllStarted(i) == i > LastService

\* The services start in order; one that runs is used.  Nothing is stopped for
\* what fails before the first.
launchesNext ==
  /\ command.at = "LAUNCH"
  /\ LET i == command.i IN
     IF AllStarted(i)
     THEN /\ IF command.installing THEN Turns("WAIT", 0) /\ UNCHANGED <<known, last>>
             ELSE Returns("DONE")
          /\ NoFault /\ UNCHANGED up
     ELSE \/ /\ up' = up \cup {i} /\ NoFault
             /\ Turns("LAUNCH", i + 1) /\ UNCHANGED <<known, last>>
          \/ /\ Fault /\ up' \in {up, up \cup {i}}
             /\ Turns("UNDO", 0) /\ UNCHANGED <<known, last>>
          \/ Fault /\ i = 1 /\ Fails /\ UNCHANGED up
  /\ UNCHANGED <<saved, coordinator, files>>

undoes ==
  /\ command.at = "UNDO"
  /\ StopsAll \/ StopFails
  /\ Fails
  /\ UNCHANGED <<saved, coordinator, files>>

FoundAvailable ==
  /\ coordinator.qualified /\ up = 1..LastService
  /\ \A i \in Index : coordinator.desired[i] = "READY"

\* The coordinator finds the route available, or 45 seconds pass.
waitsFor ==
  /\ command.at = "WAIT"
  /\ \/ FoundAvailable /\ Turns("ENABLE", 0) /\ NoFault /\ UNCHANGED <<known, last>>
     \/ ~FoundAvailable /\ Fails /\ NoFault
     \/ Fault /\ Fails
  /\ UNCHANGED <<saved, coordinator, files, up>>

\* The state is enabled before it is written: if that fails, the finally block
\* takes the route for one that is installed.
enables ==
  /\ command.at = "ENABLE"
  /\ \/ saved' = [known EXCEPT !.enabled = TRUE] /\ NoFault /\ Returns("DONE")
     \/ Fault /\ UNCHANGED saved /\ Returns("UNSAVED")
  /\ UNCHANGED <<coordinator, files, up>>

\* The finally block: what fails in it is passed over.
cleans ==
  /\ command.at = "CLEAN"
  /\ \/ StopsAll /\ Turns("PAUSE", 0)
     \/ StopFails /\ command' = [command EXCEPT !.at = "PAUSE", !.i = 0, !.clean = FALSE]
  /\ UNCHANGED <<saved, known, coordinator, files, last>>

pauses ==
  /\ command.at = "PAUSE"
  /\ LET i == command.i IN
     IF i >= known.invites THEN Turns("NOTE", 0) /\ NoFault /\ UNCHANGED coordinator
     ELSE LET paused == [coordinator EXCEPT !.desired[i] = "PAUSED"] IN
          \/ coordinator' = paused /\ Turns("PAUSE", i + 1) /\ NoFault
          \/ /\ Fault /\ coordinator' \in {coordinator, paused}
             /\ command' = [command EXCEPT !.i = i + 1, !.clean = FALSE]
  /\ UNCHANGED <<saved, known, files, up, last>>

notes ==
  /\ command.at = "NOTE"
  /\ \/ saved' = known /\ NoFault
     \/ Fault /\ UNCHANGED saved
  /\ Returns(IF command.clean THEN "FAILED" ELSE "BROKEN")
  /\ UNCHANGED <<coordinator, files, up>>

-----------------------------------------------------------------------------
(* The other commands, and what happens to them.                           *)

\* What its file says is enabled; one that was cut off before is not.
Installed == saved.enabled

\* start --id, and the start of the laboratory: only what is enabled.
startsEnabled ==
  /\ command.at = "IDLE" /\ Installed
  /\ Turns("LAUNCH", 1) /\ last' = "NONE"
  /\ UNCHANGED <<saved, known, coordinator, files, up, faults>>

\* stop --id, and the stop of the laboratory: what was enabled or not.
stopsRoute ==
  /\ command.at = "IDLE" /\ up # {}
  /\ StopsAll \/ StopFails
  /\ last' = "NONE"
  /\ UNCHANGED <<command, saved, known, coordinator, files>>

\* The command's process ends where it is.
commandDies ==
  /\ command.at # "IDLE"
  /\ Fault /\ Returns("BROKEN")
  /\ UNCHANGED <<saved, coordinator, files, up>>

serviceDies ==
  /\ Fault
  /\ \E s \in up : up' = up \ {s}
  /\ UNCHANGED <<command, saved, known, coordinator, files, last>>

InstallStep ==
  \/ stopsFirst \/ findsRoom \/ invites \/ keeps \/ publishes \/ acceptsRoute
  \/ writesFile \/ fileWritten \/ qualifiesRoute \/ readies \/ saysStarting
  \/ launchesNext \/ undoes \/ waitsFor \/ enables \/ cleans \/ pauses \/ notes

DeviceNext ==
  \/ installs \/ InstallStep
  \/ startsEnabled \/ stopsRoute \/ commandDies \/ serviceDies

DeviceSpec == DeviceInit /\ [][DeviceNext]_deviceVars

-----------------------------------------------------------------------------
(* Properties.                                                             *)

\* However often an installation is taken up again, whatever was lost, no node
\* is invited twice and no second route is published.  (device-route.mjs 456-489)
NothingTwice ==
  /\ \A i \in Index : coordinator.invited[i] <= 1
  /\ Cardinality(coordinator.published) <= 1

\* What is enabled, and so started with the laboratory, is complete: every node
\* was invited and has its whole files, and the recorded route, the only one, was
\* published with the recorded key, accepted and qualified.  (lines 417-626)
EnabledIsComplete ==
  saved.enabled =>
    /\ saved.invites = RecipeStages + 1 /\ saved.route
    /\ coordinator.published = {saved.key} /\ coordinator.accepted /\ coordinator.qualified
    /\ \A i \in Index : coordinator.invited[i] = 1 /\ files[i] = "WHOLE"

\* An installation that has failed, and whose own clean-up has met no fault, has
\* left nothing running and no node that it knows of ready, wherever it failed;
\* but for a write that fails after the route is enabled.  (lines 630-641)
FailedLeavesNothing ==
  (last = "FAILED" /\ command.at = "IDLE" /\ ~saved.enabled) =>
    up = {} /\ \A i \in Index : i < saved.invites => coordinator.desired[i] = "PAUSED"

\* What only a person can put right: a node whose invitation was never recorded,
\* and a file whose writing was cut off.
NeedsInspection ==
  /\ command.at = "IDLE"
  /\ \/ \E i \in Index : i >= saved.invites /\ coordinator.invited[i] > 0
     \/ \E i \in Index : files[i] = "PART"

\* An installation that has begun and is taken up again and again comes to an
\* enabled route, or to something that it must not go on from by itself.
\* (HETEROGENEOUS_CONTRIBUTORS.md: "retry install with the exact original recipe")
ResumeConverges == command.at # "IDLE" ~> (saved.enabled \/ NeedsInspection)
=============================================================================
