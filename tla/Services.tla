------------------------------ MODULE Services ------------------------------
(***************************************************************************)
(* One managed service of the laboratory (service-manager.mjs,             *)
(* service-process.mjs, service-host.mjs and lab.mjs).  A command reserves *)
(* a boot in the registry and spawns a host for it; the host runs the      *)
(* service's process under a guardian of its own; another command stops    *)
(* it.  Registry transactions hold a mutex that ends with its owner, but   *)
(* the processes they ask about start and end meanwhile.                   *)
(*                                                                         *)
(* A stop is a durable request for one boot.  Commands and hosts may be    *)
(* killed at any point; a host takes its guardian's job, and with it the   *)
(* service, with it.                                                       *)
(***************************************************************************)
EXTENDS Integers, FiniteSets

CONSTANTS
  Launcher,     \* commands that start the service, once each
  MaxIntents    \* bound of the model: boots of the service

Intent == 1..MaxIntents
Unowned == 0
Nobody == "nobody"

ASSUME ServicesAssumption ==
  /\ IsFiniteSet(Launcher) /\ Nobody \notin Launcher
  /\ MaxIntents \in Nat \ {0}

VARIABLES
  entry,       \* the service's entry of the registry; boot Unowned: none
  mutex,       \* the launcher that holds the registry
  launcher,    \* the commands: how far each has come, and its own boot
  host,        \* the process of each boot
  identity,    \* what identity.json of each boot names
  service,      \* the service's process of each boot
  stopFile,    \* boots with a stop.request.json
  stopper,     \* the command that stops: how far, and the entry it has read
  stopped      \* boots for which a stop has succeeded

servicesVars == <<entry, mutex, launcher, host, identity, service, stopFile, stopper, stopped>>

NoEntry == [boot |-> Unowned, pid |-> FALSE, by |-> Nobody]

\* What a host has come to.
HostUp == {"CLAIM", "CHECK", "CONTAIN", "IDENTIFY", "RECORD", "CHECK_AGAIN", "SPAWN",
           "RUN", "STOPPING"}

ServicesTypeOK ==
  /\ entry \in [boot : Intent \cup {Unowned}, pid : BOOLEAN, by : Launcher \cup {Nobody}]
  /\ mutex \in Launcher \cup {Nobody}
  /\ launcher \in [Launcher -> [at : {"IDLE", "OWNED", "PARENT", "DISCOVER", "RESERVED", "GO",
                                      "SPAWNED", "DONE", "GONE"},
                                boot : Intent \cup {Unowned}]]
  /\ host \in [Intent -> {"NONE", "OVER"} \cup HostUp]
  /\ identity \in [Intent -> {"NONE", "CLAIM", "RUNNER"}]
  /\ service \in [Intent -> {"NONE", "UP", "ENDED"}]
  /\ stopFile \subseteq Intent /\ stopped \subseteq Intent
  /\ stopper \in [at : {"IDLE", "ASKS", "WAITS", "DELETES", "DONE"}, boot : Intent \cup {Unowned},
                  pid : BOOLEAN]

ServicesInit ==
  /\ entry = NoEntry /\ mutex = Nobody
  /\ launcher = [l \in Launcher |-> [at |-> "IDLE", boot |-> Unowned]]
  /\ host = [b \in Intent |-> "NONE"]
  /\ identity = [b \in Intent |-> "NONE"]
  /\ service = [b \in Intent |-> "NONE"]
  /\ stopFile = {} /\ stopped = {}
  /\ stopper = [at |-> "IDLE", boot |-> Unowned, pid |-> FALSE]

-----------------------------------------------------------------------------
(* What a command can observe of a boot.                                   *)

HostRuns(b) == host[b] \in HostUp
\* The host has recorded who it is, and that process is there (serviceStatus).
live(b) == identity[b] = "RUNNER" /\ HostRuns(b)
\* An entry with a pid is also known by that process (serviceOwned).
serviceOwned(b, pid) == b # Unowned /\ (live(b) \/ (pid /\ HostRuns(b)))
\* The process that made the entry is still there (sameProcess).
LauncherLives(l) == l # Nobody /\ launcher[l].at # "GONE"
Requested(b) == b \in stopFile

Comes(l, at) == launcher' = [launcher EXCEPT ![l].at = at]
HostVars == UNCHANGED <<host, identity, service>>
StopVars == UNCHANGED <<stopFile, stopper, stopped>>

-----------------------------------------------------------------------------
(* launchService: the reservation, in one registry transaction.            *)

\* The guardian's registry_lock: the mutex ends with the process it was taken for.
Takes(l) == mutex = Nobody /\ mutex' = l
Drops(l) == mutex' = IF mutex = l THEN Nobody ELSE mutex

opens(l) ==
  /\ launcher[l].at = "IDLE" /\ Takes(l)
  /\ Comes(l, "OWNED")
  /\ HostVars /\ StopVars /\ UNCHANGED entry

\* The entry is used again, with the pid if that is known by now.
Reuses(l, known) ==
  /\ entry' = [entry EXCEPT !.pid = @ \/ known]
  /\ mutex' = Nobody
  /\ Comes(l, "DONE")

\* An owned service is used; an entry without a pid needs more questions.
asksOwned(l) ==
  /\ launcher[l].at = "OWNED"
  /\ IF serviceOwned(entry.boot, entry.pid) THEN Reuses(l, TRUE)
     ELSE /\ Comes(l, IF entry.boot = Unowned \/ entry.pid THEN "RESERVED" ELSE "PARENT")
          /\ UNCHANGED <<entry, mutex>>
  /\ HostVars /\ StopVars

\* A bug: an entry is abandoned while its launcher may still spawn.
ParentLives_Ignored(l) == FALSE
ParentLives(l) == LauncherLives(entry.by)

asksParent(l) ==
  /\ launcher[l].at = "PARENT"
  /\ IF ParentLives(l) THEN Reuses(l, FALSE) ELSE Comes(l, "DISCOVER") /\ UNCHANGED <<entry, mutex>>
  /\ HostVars /\ StopVars

\* A bug: a host whose launcher has gone is not looked for.
Discovered_Not == FALSE
\* A process whose command bears the boot, whatever it has recorded.
Discovered == HostRuns(entry.boot)

discovers(l) ==
  /\ launcher[l].at = "DISCOVER"
  /\ IF Discovered THEN Reuses(l, TRUE) ELSE Comes(l, "RESERVED") /\ UNCHANGED <<entry, mutex>>
  /\ HostVars /\ StopVars

Unused == {b \in Intent : \A l \in Launcher : launcher[l].boot # b}

\* A new boot replaces the entry, before anything runs for it.
reserves(l) ==
  /\ launcher[l].at = "RESERVED" /\ launcher[l].boot = Unowned /\ mutex = l
  /\ \E b \in Unused :
       /\ \A a \in Unused : b <= a
       /\ entry' = [boot |-> b, pid |-> FALSE, by |-> l]
       /\ launcher' = [launcher EXCEPT ![l].boot = b]
  /\ mutex' = Nobody
  /\ HostVars /\ StopVars

-----------------------------------------------------------------------------
(* launchService: the host is spawned, and recorded in a transaction.      *)

looksForStop(l) ==
  /\ launcher[l].at = "RESERVED" /\ launcher[l].boot # Unowned
  /\ Comes(l, IF Requested(launcher[l].boot) THEN "DONE" ELSE "GO")
  /\ HostVars /\ StopVars /\ UNCHANGED <<entry, mutex>>

spawns(l) ==
  /\ launcher[l].at = "GO"
  /\ host' = [host EXCEPT ![launcher[l].boot] = "CLAIM"]
  /\ Comes(l, "SPAWNED")
  /\ StopVars /\ UNCHANGED <<entry, mutex, identity, service>>

\* The pid is recorded if the entry is still this launch's; if not, the stop has
\* removed it, or the launch has failed, and the registry stays as it is.
Records(l) ==
  entry' = IF entry.boot = launcher[l].boot
           THEN [boot |-> launcher[l].boot, pid |-> TRUE, by |-> l] ELSE entry

records(l) ==
  /\ launcher[l].at = "SPAWNED" /\ mutex = Nobody
  /\ Records(l)
  /\ Comes(l, "DONE")
  /\ HostVars /\ StopVars /\ UNCHANGED mutex

\* The command ends, by itself or not; a mutex it held goes with it.
ends(l) ==
  /\ launcher[l].at \notin {"IDLE", "GONE"}
  /\ Comes(l, "GONE")
  /\ Drops(l)
  /\ HostVars /\ StopVars /\ UNCHANGED entry

-----------------------------------------------------------------------------
(* The host (runService).                                                  *)

ByHost == UNCHANGED <<entry, mutex, launcher, stopFile, stopper, stopped>>
HostIs(b, at) == host' = [host EXCEPT ![b] = at]

\* It claims its boot, looks for a stop, is contained, finds out who it is while
\* it keeps looking, records that, and looks again before it runs the service.
claims(b) ==
  /\ host[b] = "CLAIM"
  /\ identity' = [identity EXCEPT ![b] = "CLAIM"]
  /\ HostIs(b, "CHECK")
  /\ ByHost /\ UNCHANGED service

checks(b) ==
  /\ host[b] = "CHECK"
  /\ HostIs(b, IF Requested(b) THEN "OVER" ELSE "CONTAIN")
  /\ ByHost /\ UNCHANGED <<identity, service>>

contains(b) ==
  /\ host[b] = "CONTAIN"
  /\ HostIs(b, "IDENTIFY") \/ HostIs(b, "OVER")
  /\ ByHost /\ UNCHANGED <<identity, service>>

identifies(b) ==
  /\ host[b] = "IDENTIFY"
  /\ \/ HostIs(b, "RECORD")
     \/ Requested(b) /\ HostIs(b, "OVER")
  /\ ByHost /\ UNCHANGED <<identity, service>>

recordsRunner(b) ==
  /\ host[b] = "RECORD"
  /\ identity' = [identity EXCEPT ![b] = "RUNNER"]
  /\ HostIs(b, "CHECK_AGAIN")
  /\ ByHost /\ UNCHANGED service

\* A bug: the stop is not looked for again.
SecondLook_Not(b) == FALSE
SecondLook(b) == Requested(b)

checksAgain(b) ==
  /\ host[b] = "CHECK_AGAIN"
  /\ HostIs(b, IF SecondLook(b) THEN "OVER" ELSE "SPAWN")
  /\ ByHost /\ UNCHANGED <<identity, service>>

serves(b) ==
  /\ host[b] = "SPAWN"
  /\ \/ service' = [service EXCEPT ![b] = "UP"] /\ HostIs(b, "RUN")
     \/ UNCHANGED service /\ HostIs(b, "OVER")
  /\ ByHost /\ UNCHANGED identity

LoopLook(b) == Requested(b)

hearsStop(b) ==
  /\ host[b] = "RUN" /\ LoopLook(b)
  /\ HostIs(b, "STOPPING")
  /\ ByHost /\ UNCHANGED <<identity, service>>

\* The service ends by itself, is asked to, or is killed; the host follows.
serviceEnds(b) ==
  /\ host[b] \in {"RUN", "STOPPING"} /\ service[b] = "UP"
  /\ service' = [service EXCEPT ![b] = "ENDED"]
  /\ HostIs(b, "OVER")
  /\ ByHost /\ UNCHANGED identity

\* The host fails or is killed: its service runs on until the guardian sees it.
hostDies(b) ==
  /\ HostRuns(b)
  /\ HostIs(b, "OVER")
  /\ ByHost /\ UNCHANGED <<identity, service>>

guardianCloses(b) ==
  /\ host[b] = "OVER" /\ service[b] = "UP"
  /\ service' = [service EXCEPT ![b] = "ENDED"]
  /\ ByHost /\ UNCHANGED <<host, identity>>

-----------------------------------------------------------------------------
(* The stop (stopNames).                                                   *)

ByStopper == HostVars /\ UNCHANGED <<launcher, mutex>>

\* The registry is read without the mutex.
readsRegistry ==
  /\ stopper.at = "IDLE"
  /\ stopper' = [at |-> IF entry.boot = Unowned THEN "DONE" ELSE "ASKS",
                 boot |-> entry.boot, pid |-> entry.pid]
  /\ ByStopper /\ UNCHANGED <<entry, stopFile, stopped>>

\* The request is queued before anything is asked about the processes.
requestServiceStop ==
  /\ stopper.at = "ASKS"
  /\ stopFile' = stopFile \cup {stopper.boot}
  /\ stopper' = [stopper EXCEPT !.at = "WAITS"]
  /\ ByStopper /\ UNCHANGED <<entry, stopped>>

\* It waits while the service is owned; after ten seconds it fails.
sees ==
  /\ stopper.at = "WAITS"
  /\ stopper' = [stopper EXCEPT
       !.at = IF serviceOwned(stopper.boot, stopper.pid) THEN "DONE" ELSE "DELETES"]
  /\ ByStopper /\ UNCHANGED <<entry, stopFile, stopped>>

\* The entry that was read is deleted, if it is still the same.
deletes ==
  /\ stopper.at = "DELETES" /\ mutex = Nobody
  /\ entry' = IF entry.boot = stopper.boot /\ entry.pid = stopper.pid THEN NoEntry ELSE entry
  /\ stopped' = stopped \cup {stopper.boot}
  /\ stopper' = [stopper EXCEPT !.at = "DONE"]
  /\ ByStopper /\ UNCHANGED stopFile

\* Another stop may be asked for.
stopsAgain ==
  /\ stopper.at = "DONE"
  /\ stopper' = [at |-> "IDLE", boot |-> Unowned, pid |-> FALSE]
  /\ ByStopper /\ UNCHANGED <<entry, stopFile, stopped>>

LauncherStep(l) ==
  \/ opens(l) \/ asksOwned(l) \/ asksParent(l) \/ discovers(l) \/ reserves(l)
  \/ looksForStop(l) \/ spawns(l) \/ records(l) \/ ends(l)
HostStep(b) ==
  \/ claims(b) \/ checks(b) \/ contains(b) \/ identifies(b) \/ recordsRunner(b)
  \/ checksAgain(b) \/ serves(b) \/ hearsStop(b)
  \/ host[b] = "STOPPING" /\ serviceEnds(b)
StopperStep == readsRegistry \/ requestServiceStop \/ sees \/ deletes \/ stopsAgain

ServicesNext ==
  \/ \E l \in Launcher : LauncherStep(l)
  \/ \E b \in Intent : HostStep(b) \/ serviceEnds(b) \/ hostDies(b) \/ guardianCloses(b)
  \/ StopperStep

\* A host goes on by itself, and a service that is told to stop, or is killed
\* after ten seconds, ends.
ServicesFairness ==
  \A b \in Intent : WF_servicesVars(HostStep(b)) /\ WF_servicesVars(guardianCloses(b))

-----------------------------------------------------------------------------
(* What must hold.                                                         *)

\* No two hosts supervise the service at the same time, whichever command was
\* interrupted between its reservation, its spawn and its record.
OneSupervised ==
  \A a, b \in Intent : HostRuns(a) /\ HostRuns(b) /\ service[a] = "UP" /\ service[b] = "UP" => a = b

\* A supervised service is the one the registry names, or its stop has been
\* asked for: a later command finds it, and does not start another beside it.
ServiceIsRegistered ==
  \A b \in Intent : HostRuns(b) /\ service[b] = "UP" => entry.boot = b \/ Requested(b)

\* "The originating launcher cannot start work after an apparently successful
\* lab stop": no service starts for a boot whose stop has succeeded, even if
\* nothing could be seen of its host.
StopIsFinal ==
  [][\A b \in Intent : b \in stopped /\ service[b] # "UP" => service'[b] # "UP"]_servicesVars

\* A boot that is asked to stop ends, with its service, if it ever began.
RequestedServiceEnds ==
  \A b \in Intent : b \in stopFile /\ HostRuns(b) ~> ~HostRuns(b) /\ service[b] # "UP"
=============================================================================
