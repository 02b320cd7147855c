------------------------------- MODULE MCParts -------------------------------
(***************************************************************************)
(* Small parts of the system that take turns as the initial state, and     *)
(* what must come of each under its own fairness: a request on a route, a  *)
(* contributor's worker, a service of the laboratory, a call over the      *)
(* private link, a tunnel, the installation of a route on one host, the    *)
(* root's cluster, the laboratory and its commands, and the acquisition of *)
(* a model's file; and the arithmetic of a charge.                         *)
(***************************************************************************)
EXTENDS MCSessions, Metering, Worker, Services, PrivateLink, RpcTunnel, Installation

CONSTANTS l1, c1, t1

VARIABLE scene   \* what this behaviour is about

Scene == {"request", "charge", "worker", "service", "link", "tunnel", "device", "cluster",
          "lab", "artifact"}

\* Small manifests whose rates round (denominators 3 and 1000) and one whose
\* quote would pass the amount limit, and uneven allocations.
SmallManifest ==
  {[input_rate |-> i, output_rate |-> o, denominator |-> d,
    max_output |-> 3, max_context |-> 6] :
     i \in {0, 1, 7}, o \in {0, 5, 1000}, d \in {1, 3, 1000}}
SmallAllocation == {<<10000>>, <<5000, 5000>>, <<3333, 3333, 3334>>, <<1, 9998, 1>>}

PartsInit ==
  /\ scene \in Scene
  /\ Init /\ MeterInit /\ WorkerInit /\ ServicesInit /\ LinkInit /\ TunnelInit
  /\ DeviceInit /\ ClusterInit /\ LabInit /\ ArtifactsInit
  /\ scene # "charge" => manifest = CHOOSE m \in Manifest : TRUE
  /\ scene # "lab" => ~windows /\ container = "NONE" /\ profile = CHOOSE p \in Profile : TRUE
  /\ scene # "artifact" => artifact = "NONE"

\* Bound of the model: of the two nodes at most one restarts, and at most one is revoked.
FewChanges ==
  /\ epoch'[root] + epoch'[stage] <= 3
  /\ Cardinality({n \in Node : desired'[n] = "REVOKED"}) <= 1

PartsNext ==
  /\ UNCHANGED scene
  /\ IF scene = "request" THEN Next /\ FewChanges ELSE UNCHANGED vars
  /\ IF scene = "charge" THEN MeterNext ELSE UNCHANGED meterVars
  /\ IF scene = "worker" THEN WorkerNext ELSE UNCHANGED workerVars
  /\ IF scene = "service" THEN ServicesNext ELSE UNCHANGED servicesVars
  /\ IF scene = "link" THEN LinkNext ELSE UNCHANGED linkVars
  /\ IF scene = "tunnel" THEN TunnelNext ELSE UNCHANGED tunnelVars
  /\ IF scene = "device" THEN DeviceNext ELSE UNCHANGED deviceVars
  /\ IF scene = "cluster" THEN ClusterNext ELSE UNCHANGED clusterVars
  /\ IF scene = "lab" THEN LabNext ELSE UNCHANGED labVars
  /\ IF scene = "artifact" THEN ArtifactsNext ELSE UNCHANGED artifactVars

\* The fairness of the modules, each for its own scene: a part that is not on
\* takes no step.
PartsFairness ==
  /\ Fairness
  /\ \A b \in Boot : /\ WF_workerVars(scene = "worker" /\ WorkerSteps(b))
                     /\ WF_workerVars(scene = "worker" /\ ChildLeaves(b))
                     /\ WF_workerVars(scene = "worker" /\ guardianSees(b))
  /\ \A b \in Intent : /\ WF_servicesVars(scene = "service" /\ HostStep(b))
                       /\ WF_servicesVars(scene = "service" /\ guardianCloses(b))
  /\ \A c \in Call : /\ WF_linkVars(scene = "link" /\ LocalEnds(c))
                     /\ WF_linkVars(scene = "link" /\ failsServing(c))
                     /\ WF_linkVars(scene = "link" /\ handlerEnds(c))
  /\ \A d \in Side : /\ \A t \in Tunnel : WF_tunnelVars(scene = "tunnel" /\ TaskEnds(d, t))
                     /\ WF_tunnelVars(scene = "tunnel" /\ CloseGoesOn(d))
  /\ WF_deviceVars(scene = "device" /\ installs)
  /\ WF_deviceVars(scene = "device" /\ InstallStep)
  /\ WF_clusterVars(scene = "cluster" /\ ClusterStep)
  /\ WF_clusterVars(scene = "cluster" /\ hostCloses)
  /\ \A c \in Children : WF_clusterVars(scene = "cluster" /\ ClusterChildLeaves(c))

PartsSpec ==
  /\ PartsInit
  /\ [][PartsNext]_<<vars, meterVars, workerVars, servicesVars, linkVars, tunnelVars,
                    deviceVars, clusterVars, labVars, artifactVars, scene>>
  /\ PartsFairness

-----------------------------------------------------------------------------
\* Whatever is asked to stop, or loses its other end, ends: a contributor's worker and
\* the processes it guards, a service and its host, a call with its permit, the other
\* side of a tunnel and the rest of a cluster.
PartsEnd ==
  /\ RequestedStopEnds /\ NoOrphans /\ RequestedServiceEnds
  /\ PermitsReturn /\ EitherEndEndsBoth /\ OneEndsAll
=============================================================================
