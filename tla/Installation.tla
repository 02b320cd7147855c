----------------------------- MODULE Installation -----------------------------
(***************************************************************************)
(* What is installed on a host, each part by itself: a route on one host,  *)
(* the root's cluster, the laboratory and a model's file.  They share no   *)
(* state; what must hold of each is gathered here.                         *)
(***************************************************************************)
EXTENDS DeviceRoute, Cluster, Lab, Artifacts

\* What is installed on a host holds, wherever a command was cut off: an installation that
\* is taken up again records nothing twice, enables a route only when everything it was asked
\* for is there and, where it failed, leaves nothing behind (device-route.mjs); the root's
\* cluster tells only who is left (cluster.mjs); the laboratory finds every service it has
\* started, starts and stops them so that each has what it uses, and gives its database one
\* grant (lab.mjs); a model's file is its manifest's (artifacts.mjs).
InstallationHolds ==
  /\ DeviceTypeOK /\ NothingTwice /\ EnabledIsComplete /\ FailedLeavesNothing
  /\ ClusterTypeOK
  /\ LabTypeOK /\ EveryServiceIsTracked /\ RunsWithWhatItUses /\ StoppedIsStopped
  /\ Provisioned /\ OtherCheckoutKept
  /\ ArtifactsTypeOK /\ OneFetches /\ VerifiedIsWhole
=============================================================================
