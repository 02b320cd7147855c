--------------------------------- MODULE Lab ---------------------------------
(***************************************************************************)
(* The laboratory on one host (scripts/lab.mjs): its private files, its    *)
(* database's container, the services it starts and stops, and the         *)
(* registry processes.json by which a later command finds them.  A command *)
(* may fail or be killed wherever it is; the next one goes on from what it *)
(* has left.  On Windows a service is reserved in the registry before it   *)
(* is spawned (the module Services); elsewhere it is spawned, and recorded *)
(* after that.                                                             *)
(*                                                                         *)
(* One command runs at a time: nothing in the script keeps two apart.  Of  *)
(* the services that come in numbers (the stages of a route) there is one  *)
(* of each; the routes of devices are DeviceRoute's.  A process is one of  *)
(* two per service: at most two are there at once.                         *)
(***************************************************************************)
EXTENDS Naturals, Sequences

CONSTANTS
  LabService,   \* the services looked at
  Profile,      \* the installed routes: none, a cluster, stages, contributors
  MaxRelease,   \* bound: the newest migration a checkout ships
  MaxOrders,    \* bound on the commands of a behaviour
  MaxMishaps    \* bound on its failures

\* The services there are, in the order of a start, and in the order of a stop.
StartOrder ==
  <<"control", "node", "gateway", "web", "cpu_cluster", "cpu_node", "route_control",
    "route_contributor", "route_stage", "route_rpc_stage", "route_rpc_root", "route_cluster",
    "route_root">>
StopOrder ==
  <<"web", "gateway", "route_root", "cpu_node", "node", "route_cluster", "route_rpc_root",
    "route_contributor", "route_control", "route_rpc_stage", "route_stage", "cpu_cluster",
    "control">>
Precedes(list, m, n) == \E i, j \in DOMAIN list : i < j /\ list[i] = m /\ list[j] = n

ASSUME LabAssumption ==
  /\ "control" \in LabService /\ LabService \subseteq {StartOrder[i] : i \in DOMAIN StartOrder}
  /\ Profile \subseteq {"NONE", "CPU_CLUSTER", "STAGES", "PORTABLE"}
  /\ MaxRelease \in Nat \ {0} /\ MaxOrders \in Nat /\ MaxMishaps \in Nat

VARIABLES
  windows,      \* the platform
  profile,      \* cpu-route.json or cpu-cluster.json
  release,      \* the newest migration of the checkout
  private,      \* config.json, credentials.txt and compose.env: absent, empty or whole
  container,    \* the database's: absent, this checkout's or another's
  database,     \* what its volume holds
  process,      \* the processes of each service
  registry,     \* processes.json: the process of each service; 0 for none
  order,        \* the command: what, how far, and what it still has to go through
  outcome,      \* how the last one has ended
  orders,       \* commands so far
  mishaps,      \* failures so far
  lost,         \* services whose start was cut off before it was recorded
  calm,         \* services have ended only as a stop goes through them
  cutOff        \* an initialization was cut off while it wrote its files

labVars == <<windows, profile, release, private, container, database, process, registry,
             order, outcome, orders, mishaps, lost, calm, cutOff>>

Application == {"control", "node", "gateway", "web"}
Components == Application \cap LabService
CpuServices == LabService \ Application
Portable == {"route_control", "route_contributor"}
StageServices == {"route_stage", "route_rpc_stage"}
Guarded == {"route_rpc_root", "route_cluster", "route_root"}

\* startCpuRoute and startCpuCluster: what a profile starts.
RouteServices ==
  [NONE |-> {}, CPU_CLUSTER |-> {"cpu_cluster", "cpu_node"},
   STAGES |-> StageServices \cup Guarded, PORTABLE |-> Portable \cup Guarded]
ToStart == (Application \cup RouteServices[profile]) \cap LabService

Instance == 1..2
\* A process starts, serves, is told to end, has closed its port and ends.
Present == {"BORN", "SERVES", "TOLD", "CLOSED"}

\* What each service is used through: addresses it is given when it is started.
Uses(n) ==
  CASE n = "web" -> {"control", "gateway"}
    [] n \in {"gateway", "node", "route_stage", "route_contributor"} -> {"control"}
    [] n = "cpu_node" -> {"control", "cpu_cluster"}
    [] n = "route_root" -> {"control", "route_cluster"}
    [] n = "route_cluster" -> {"route_rpc_root"}
    [] n = "route_rpc_root" ->
         {IF profile = "PORTABLE" THEN "route_contributor" ELSE "route_rpc_stage"}
    [] n = "route_rpc_stage" -> {"route_stage"}
    [] OTHER -> {}

\* A stop waits for these; the others are killed outside Windows.
MustEnd(n) == windows \/ n \in {"route_contributor", "route_cluster", "cpu_cluster"}

-----------------------------------------------------------------------------
File == {"NONE", "EMPTY", "WHOLE"}
Rest == [at |-> "IDLE", what |-> "NONE", names |-> {}, left |-> {}, name |-> "NONE", pid |-> 0]

LabTypeOK ==
  /\ windows \in BOOLEAN /\ profile \in Profile
  /\ release \in 1..MaxRelease
  /\ private \in [config : File, credentials : File, env : File]
  /\ container \in {"NONE", "OURS", "OTHERS"}
  /\ database \in [version : 0..MaxRelease, role : BOOLEAN, admin : BOOLEAN, grants : Nat]
  /\ process \in [LabService -> [Instance -> {"NONE"} \cup Present]]
  /\ registry \in [LabService -> Instance \cup {0}]
  /\ order.what \in {"NONE", "INIT", "FIRST_START", "START", "STOP", "RESTART"}
  /\ order.at \in {"IDLE", "CONFIG", "CREDENTIALS", "ENV", "UP", "BUILD", "MIGRATE",
                   "ASK_BUILD", "LAUNCH", "SPAWN", "RECORD", "WAIT", "STOP", "AWAIT"}
  /\ order.names \subseteq LabService /\ order.left \subseteq order.names
  /\ order.name \in LabService \cup {"NONE"} /\ order.pid \in Instance \cup {0}
  /\ outcome \in {"NONE", "INITIALIZED", "STARTED", "STOPPED", "DONE", "FAILED", "KILLED"}
  /\ orders \in 0..MaxOrders /\ mishaps \in 0..MaxMishaps
  /\ lost \subseteq LabService /\ calm \in BOOLEAN /\ cutOff \in BOOLEAN

LabInit ==
  /\ windows \in BOOLEAN /\ profile \in Profile /\ release = 1
  /\ private = [config |-> "NONE", credentials |-> "NONE", env |-> "NONE"]
  /\ container \in {"NONE", "OTHERS"}
  /\ database = [version |-> 0, role |-> FALSE, admin |-> FALSE, grants |-> 0]
  /\ process = [n \in LabService |-> [k \in Instance |-> "NONE"]]
  /\ registry = [n \in LabService |-> 0]
  /\ order = Rest /\ outcome = "NONE" /\ orders = 0 /\ mishaps = 0
  /\ lost = {} /\ calm = TRUE /\ cutOff = FALSE

-----------------------------------------------------------------------------
(* What every step is made of.                                             *)

Is(n, states) == \E k \in Instance : process[n][k] \in states
\* owned: the registry's process is there.
owned(n) == registry[n] # 0 /\ process[n][registry[n]] \in Present
listening(n) == Is(n, {"SERVES", "TOLD"})

Mishap == mishaps < MaxMishaps /\ mishaps' = mishaps + 1
NoMishap == UNCHANGED mishaps
\* A command is given while none runs.
Given == order.at = "IDLE" /\ orders < MaxOrders /\ orders' = orders + 1

Stands(at) == order' = [order EXCEPT !.at = at]
Ended(how) == order' = Rest /\ outcome' = how
On(at) == Stands(at) /\ UNCHANGED outcome

FilesStay == UNCHANGED <<private, container, database, release>>
ServicesStay == UNCHANGED <<process, registry, lost, calm>>

\* A step of a command: it comes to at, or throws after a mishap.
Either(at) ==
  \/ On(at) /\ NoMishap
  \/ Ended("FAILED") /\ Mishap

-----------------------------------------------------------------------------
(* init.                                                                   *)

\* A coordinator may not run on while the schema changes; and a database of
\* another checkout is not given new credentials.
MayInit ==
  \/ private.config = "WHOLE" /\ ~listening("control")
  \/ private.config = "NONE" /\ container = "NONE"

inits ==
  /\ Given
  /\ IF MayInit
     THEN /\ order' = [Rest EXCEPT !.what = "INIT",
                         !.at = IF private.config = "NONE" THEN "CONFIG" ELSE "ENV"]
          /\ outcome' = "NONE"
     ELSE Ended("FAILED")
  /\ FilesStay /\ ServicesStay /\ NoMishap /\ UNCHANGED cutOff

\* A file is written, or cut off: then it is not there or empty.
WritesFile(at, f, next) ==
  /\ order.at = at
  /\ \/ /\ private' = [private EXCEPT ![f] = "WHOLE"]
        /\ On(next) /\ NoMishap /\ UNCHANGED cutOff
     \/ /\ Mishap /\ Ended("FAILED") /\ cutOff' = (cutOff \/ at # "ENV")
        /\ \/ private' = [private EXCEPT ![f] = "EMPTY"]
           \/ at # "ENV" /\ UNCHANGED private
  /\ ServicesStay /\ UNCHANGED <<container, database, release>>

writesFiles ==
  \/ WritesFile("CONFIG", "config", "CREDENTIALS")
  \/ WritesFile("CREDENTIALS", "credentials", "ENV")
  \/ WritesFile("ENV", "env", "UP")

\* docker compose up: without the password it refuses.
databaseUp ==
  /\ order.at = "UP"
  /\ IF private.env # "WHOLE" THEN Ended("FAILED") /\ NoMishap /\ UNCHANGED container
     ELSE \/ /\ container' = "OURS" /\ NoMishap
             /\ On(IF order.what = "START" THEN "ASK_BUILD" ELSE "BUILD")
          \/ container' \in {container, "OURS"} /\ Ended("FAILED") /\ Mishap
  /\ ServicesStay /\ UNCHANGED <<private, database, release, cutOff>>

buildsContracts ==
  /\ order.at = "BUILD"
  /\ Either("MIGRATE")
  /\ FilesStay /\ ServicesStay /\ UNCHANGED cutOff

Bootstraps == ~database.admin

Migrated ==
  [version |-> IF release > database.version THEN release ELSE database.version,
   role |-> TRUE, admin |-> TRUE,
   grants |-> IF Bootstraps THEN database.grants + 1 ELSE database.grants]

\* The role, the migrations that are new, the administrator with the grant, and the
\* first node: one transaction.  A migration that has changed is an error.
migrates ==
  /\ order.at = "MIGRATE"
  /\ \/ /\ database' = Migrated /\ NoMishap
        /\ IF order.what = "INIT" THEN Ended("INITIALIZED") ELSE On("ASK_BUILD")
     \/ database' \in {database, Migrated} /\ Ended("FAILED") /\ Mishap
  /\ ServicesStay /\ UNCHANGED <<private, container, release, cutOff>>

-----------------------------------------------------------------------------
(* start.                                                                  *)

\* A laboratory without a configuration is initialized; a configuration that is
\* there, whole or not, only has its database started.
startsLab ==
  /\ Given
  /\ IF private.config = "NONE" /\ container # "NONE" THEN Ended("FAILED")
     ELSE /\ order' = IF private.config = "NONE"
                      THEN [Rest EXCEPT !.what = "FIRST_START", !.at = "CONFIG"]
                      ELSE [Rest EXCEPT !.what = "START", !.at = "UP"]
          /\ outcome' = "NONE"
  /\ FilesStay /\ ServicesStay /\ NoMishap /\ UNCHANGED cutOff

\* Nothing may run while it is built; an empty config.json cannot be read.
buildsLab ==
  /\ order.at = "ASK_BUILD"
  /\ \E build \in BOOLEAN :
       IF private.config # "WHOLE" \/ (build /\ \E n \in LabService : owned(n))
       THEN Ended("FAILED") /\ NoMishap
       ELSE \/ /\ order' = [order EXCEPT !.at = "LAUNCH",
                                             !.names = ToStart, !.left = ToStart]
               /\ NoMishap /\ UNCHANGED outcome
            \/ build /\ Ended("FAILED") /\ Mishap
  /\ FilesStay /\ ServicesStay /\ UNCHANGED cutOff

-----------------------------------------------------------------------------
(* launch: the services of the command, one after the other.               *)

Named == order.name
\* Of those it still has to go through, the first.
First(list) == {n \in order.left : \A m \in order.left : ~Precedes(list, m, n)}
TakesUp(n, at) ==
  order' = [order EXCEPT !.at = at, !.name = n, !.left = @ \ {n}] /\ UNCHANGED outcome
NextName(at) == order' = [order EXCEPT !.at = at, !.name = "NONE", !.pid = 0] /\ UNCHANGED outcome

\* A service that is there is used again, even one that was told to end; its port
\* may not be another process's.
asksService ==
  /\ order.at = "LAUNCH"
  /\ \E n \in First(StartOrder) :
       IF owned(n)
       THEN /\ TakesUp(n, "WAIT")
            /\ calm' = (calm /\ process[n][registry[n]] \in {"BORN", "SERVES"})
       ELSE /\ IF listening(n) /\ n # "route_rpc_stage" THEN Ended("FAILED")
               ELSE TakesUp(n, IF windows THEN "RECORD" ELSE "SPAWN")
            /\ UNCHANGED calm
  /\ FilesStay /\ NoMishap /\ UNCHANGED <<process, registry, lost, cutOff>>

launched ==
  /\ order.at = "LAUNCH" /\ order.left = {}
  /\ Ended(IF order.what = "RESTART" THEN "DONE" ELSE "STARTED")
  /\ FilesStay /\ ServicesStay /\ NoMishap /\ UNCHANGED cutOff

\* Which of the two the next process is.
Fresh(n, k) == process[n][k] = "NONE" /\ (process[n][1] = "NONE" => k = 1)

spawnsService ==
  /\ order.at = "SPAWN"
  /\ \/ \E k \in Instance :
          /\ IF windows THEN k = registry[Named] ELSE Fresh(Named, k)
          /\ process' = [process EXCEPT ![Named][k] = "BORN"]
          /\ order' = [order EXCEPT !.at = IF windows THEN "WAIT" ELSE "RECORD", !.pid = k]
          /\ NoMishap /\ UNCHANGED outcome
     \/ UNCHANGED process /\ Ended("FAILED") /\ Mishap
  /\ FilesStay /\ UNCHANGED <<registry, lost, calm, cutOff>>

\* Where the start is cut off with a process that nobody has recorded.
Unrecorded == IF order.at = "RECORD" /\ ~windows THEN {Named} ELSE {}

recordsService ==
  /\ order.at = "RECORD"
  /\ \/ /\ \E k \in Instance :
             /\ IF windows THEN Fresh(Named, k) ELSE k = order.pid
             /\ registry' = [registry EXCEPT ![Named] = k]
        /\ On(IF windows THEN "SPAWN" ELSE "WAIT") /\ NoMishap /\ UNCHANGED lost
     \/ /\ Ended("FAILED") /\ Mishap
        /\ lost' = lost \cup Unrecorded /\ UNCHANGED registry
  /\ FilesStay /\ UNCHANGED <<process, calm, cutOff>>

\* A health address is answered by whoever listens there; a contributor, an RPC
\* link and a managed service are asked who they are.
ByIdentity(n) == windows \/ n \in {"route_contributor", "route_rpc_root", "route_rpc_stage"}
Healthy(n) ==
  IF ByIdentity(n) THEN process[n][registry[n]] \in {"SERVES", "TOLD"} ELSE listening(n)

\* It answers in time or the start fails, and what it has started stays.
waitLaunched ==
  /\ order.at = "WAIT"
  /\ IF Healthy(Named) THEN NextName("LAUNCH") ELSE Ended("FAILED")
  /\ FilesStay /\ ServicesStay /\ NoMishap /\ UNCHANGED cutOff

-----------------------------------------------------------------------------
(* stop, and restart.                                                      *)

\* A process that the registry knows is told to end.
AfterTold(s) == IF s \in {"SERVES", "TOLD"} THEN "TOLD" ELSE "CLOSED"
Tells(n) == process' = [process EXCEPT ![n][registry[n]] = AfterTold(@)]

\* The laboratory, its routes, one component of the application, or the link of
\* a stage.
stops ==
  /\ Given
  /\ \E names \in {LabService, CpuServices, {"route_rpc_stage"} \cap LabService}
                  \cup {{n} : n \in Components} :
       /\ order' = [Rest EXCEPT !.at = "STOP", !.what = "STOP", !.names = names, !.left = names]
       /\ calm' = (calm /\ names \in {LabService, CpuServices})
  /\ outcome' = "NONE"
  /\ FilesStay /\ NoMishap /\ UNCHANGED <<process, registry, lost, cutOff>>

stopsNext ==
  /\ order.at = "STOP"
  /\ \E n \in First(StopOrder) :
       /\ IF owned(n) THEN Tells(n) ELSE UNCHANGED process
       /\ TakesUp(n, "AWAIT")
  /\ FilesStay /\ NoMishap /\ UNCHANGED <<registry, lost, calm, cutOff>>

\* The entry goes with the process; where it must be awaited and does not end in
\* time, the stop fails and goes no further.
awaitsEnd ==
  /\ order.at = "AWAIT"
  /\ \/ /\ MustEnd(Named) => ~owned(Named)
        /\ registry' = [registry EXCEPT ![Named] = 0]
        /\ NextName("STOP") /\ NoMishap
     \/ Ended("FAILED") /\ Mishap /\ UNCHANGED registry
  /\ FilesStay /\ UNCHANGED <<process, lost, calm, cutOff>>

stopEnds ==
  /\ order.at = "STOP" /\ order.left = {}
  /\ Ended(IF order.names = LabService THEN "STOPPED" ELSE "DONE")
  /\ FilesStay /\ ServicesStay /\ NoMishap /\ UNCHANGED cutOff

\* One component is killed, and launched again once its port is free, or five
\* seconds have passed.
restarts ==
  /\ Given
  /\ \E n \in Components :
          IF registry[n] = 0 \/ (~owned(n) /\ listening(n))
          THEN Ended("FAILED") /\ UNCHANGED process
          ELSE /\ IF owned(n) THEN Tells(n) ELSE UNCHANGED process
               /\ order' = [Rest EXCEPT !.at = "LAUNCH", !.what = "RESTART",
                                         !.names = {n}, !.left = {n}]
               /\ outcome' = "NONE"
  /\ calm' = FALSE
  /\ FilesStay /\ NoMishap /\ UNCHANGED <<registry, lost, cutOff>>

-----------------------------------------------------------------------------
(* The processes, and what happens to the commands.                        *)

ByProcess == FilesStay /\ UNCHANGED <<registry, order, outcome, lost, cutOff>>
Becomes(n, k, s) == process' = [process EXCEPT ![n][k] = s]

\* A port is one process's, and a coordinator does not start without its schema.
CanServe(n, k) ==
  /\ \A o \in Instance \ {k} : process[n][o] \notin {"SERVES", "TOLD"}
  /\ n = "control" => database.version > 0

comesUp(n, k) ==
  /\ process[n][k] = "BORN"
  /\ Becomes(n, k, IF CanServe(n, k) THEN "SERVES" ELSE "NONE")
  /\ calm' = (calm /\ CanServe(n, k))
  /\ ByProcess /\ NoMishap

goesAway(n, k) ==
  /\ \/ process[n][k] = "TOLD" /\ Becomes(n, k, "CLOSED")
     \/ process[n][k] = "CLOSED" /\ Becomes(n, k, "NONE")
  /\ ByProcess /\ NoMishap /\ UNCHANGED calm

processDies(n, k) ==
  /\ process[n][k] \in {"BORN", "SERVES"}
  /\ Becomes(n, k, "NONE") /\ calm' = FALSE
  /\ ByProcess /\ Mishap

\* faultServiceComponent and faultContributorComponent: only what the registry
\* names, and what has been found to be that.
faultsComponent(n) ==
  /\ order.at = "IDLE" /\ owned(n)
  /\ windows \/ n = "route_contributor"
  /\ process[n][registry[n]] = "SERVES"
  /\ Becomes(n, registry[n], "NONE") /\ calm' = FALSE
  /\ ByProcess /\ Mishap

labCommandDies ==
  /\ order.at # "IDLE"
  /\ Ended("KILLED") /\ Mishap
  /\ lost' = lost \cup Unrecorded
  /\ cutOff' = (cutOff \/ order.at \in {"CONFIG", "CREDENTIALS"})
  /\ FilesStay /\ UNCHANGED <<process, registry, calm>>

\* The checkout is brought up to date, with new migrations.
updates ==
  /\ Given /\ release < MaxRelease
  /\ release' = release + 1 /\ outcome' = "NONE"
  /\ ServicesStay /\ NoMishap /\ UNCHANGED <<private, container, database, order, cutOff>>

LabStep ==
  \/ writesFiles \/ databaseUp \/ buildsContracts \/ migrates
  \/ buildsLab \/ asksService \/ launched \/ spawnsService \/ recordsService \/ waitLaunched
  \/ stopsNext \/ awaitsEnd \/ stopEnds
  \/ \E n \in LabService, k \in Instance : comesUp(n, k) \/ goesAway(n, k) \/ processDies(n, k)
  \/ \E n \in LabService : faultsComponent(n)
  \/ labCommandDies

LabNext ==
  /\ UNCHANGED <<windows, profile>>
  /\ \/ inits \/ startsLab \/ stops \/ restarts \/ updates
     \/ LabStep /\ UNCHANGED orders

LabSpec == LabInit /\ [][LabNext]_labVars

-----------------------------------------------------------------------------
(* What must hold.                                                         *)

Untold(n) == Is(n, {"BORN", "SERVES"})

\* "Enumerate only this lab's tracked and path-bound identities": a stop finds
\* every process there is, and where it must await its end, keeps it until then;
\* but for one whose start was cut off between its spawn and its record, which
\* on Windows nothing can be.  (lab.mjs 489-576, 744-781, 935-1008)
EveryServiceIsTracked ==
  \A n \in LabService, k \in Instance :
    process[n][k] \in (IF MustEnd(n) THEN Present ELSE {"BORN", "SERVES"}) /\ registry[n] # k =>
      ~windows /\ (n \in lost \/ (order.at = "RECORD" /\ Named = n /\ order.pid = k))

\* Whatever runs and has not been told to end has what it uses, in a start that
\* fails half-way, and in a stop that fails or is killed half-way, as long as no
\* service has ended by itself.  (lab.mjs 602-684, 744-781, 1010-1203)
RunsWithWhatItUses ==
  (calm /\ lost = {}) =>
    \A n \in LabService : Untold(n) => \A u \in Uses(n) \cap LabService : Is(u, {"SERVES"})

\* What has been stopped is stopped: nothing is left in the registry, and nothing
\* that it knew runs untold.  (lab.mjs 744-781, 935-1008)
StoppedIsStopped ==
  outcome = "STOPPED" => \A n \in LabService : registry[n] = 0 /\ (Untold(n) => n \in lost)

\* However often the laboratory is initialized, and wherever that is cut off, the
\* administrator has the one grant, with the schema and the role; and what says it
\* is initialized is.  (lab.mjs 156-380)
Provisioned ==
  /\ database.grants = IF database.admin THEN 1 ELSE 0
  /\ database.admin <=> database.version > 0
  /\ database.admin => database.role /\ container = "OURS" /\ private.config = "WHOLE"
  /\ outcome = "INITIALIZED" =>
       /\ database.version >= release
       /\ private.env = "WHOLE" /\ (private.credentials = "WHOLE" \/ cutOff)
  /\ \A k \in Instance : process["control"][k] = "SERVES" => database.admin

\* "A second checkout must not recreate the shared container": where there was
\* one, nothing is made.  (lab.mjs 133-155, 169-170)
OtherCheckoutKept ==
  container = "OTHERS" =>
    /\ private.config = "NONE" /\ database.version = 0
    /\ \A n \in LabService : registry[n] = 0 /\ ~Untold(n)
=============================================================================
