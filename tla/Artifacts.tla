------------------------------ MODULE Artifacts ------------------------------
(***************************************************************************)
(* The acquisition of a model's file (scripts/artifacts.mjs): a lock file, *)
(* a partial file that a later run goes on with, the digest of what has    *)
(* arrived, and its new name.  Commands that fetch, and the root's cluster *)
(* that only verifies, do so in processes of their own and may be killed   *)
(* at any point; what they leave on the disk is what the next one finds.   *)
(* A file is as long as its manifest says; of its bytes only whether they  *)
(* are the manifest's is told apart.                                       *)
(***************************************************************************)
EXTENDS Naturals

CONSTANTS
  Acquirer,      \* the processes
  ArtifactSize,  \* the length of the file
  Attempts       \* how often a run asks for it (5)

ASSUME ArtifactsAssumption == ArtifactSize \in Nat \ {0} /\ Attempts \in Nat \ {0}

VARIABLES
  artifact,    \* the file: absent, the manifest's, or another that was there before
  part,      \* what has arrived of it
  lockFile,  \* <target>.lock: absent or there
  fetcher    \* the processes: how far each has come, and how its last run ended

artifactVars == <<artifact, part, lockFile, fetcher>>

Locked == {"LOOK", "TRY", "BODY", "SYNCED", "RENAME", "UNLOCK"}
NoPart == [size |-> 0, bytes |-> "RIGHT"]
Outside == [at |-> "OUT", task |-> "FETCH", attempt |-> 0, offset |-> 0, result |-> "NONE"]

ArtifactsTypeOK ==
  /\ artifact \in {"NONE", "WHOLE", "OTHER"} /\ lockFile \in {"NONE", "THERE"}
  /\ part \in [size : 0..ArtifactSize, bytes : {"RIGHT", "WRONG"}]
  /\ fetcher \in [Acquirer -> [at : Locked \cup {"OUT"}, task : {"FETCH", "VERIFY"},
                               attempt : 0..(Attempts - 1), offset : 0..ArtifactSize,
                               result : {"NONE", "VERIFIED", "FAILED"}]]

ArtifactsInit ==
  /\ artifact \in {"NONE", "OTHER"} /\ lockFile = "NONE"
  /\ part = NoPart
  /\ fetcher = [a \in Acquirer |-> Outside]

-----------------------------------------------------------------------------
GoesTo(a, at) == fetcher' = [fetcher EXCEPT ![a].at = at]
Gives(a, result) == fetcher' = [fetcher EXCEPT ![a].at = "UNLOCK", ![a].result = result]

\* A lock that is there, whoever left it, is an error.
CanLock == lockFile = "NONE"

locks(a, task) ==
  /\ fetcher[a].at = "OUT"
  /\ IF CanLock
     THEN /\ lockFile' = "THERE"
          /\ fetcher' = [fetcher EXCEPT ![a] =
                           [Outside EXCEPT !.at = "LOOK", !.task = task]]
     ELSE /\ fetcher' = [fetcher EXCEPT ![a] = [Outside EXCEPT !.result = "FAILED"]]
          /\ UNCHANGED lockFile
  /\ UNCHANGED <<artifact, part>>

\* A file that is there is verified and never overwritten.
looksForFile(a) ==
  /\ fetcher[a].at = "LOOK"
  /\ IF artifact = "NONE" /\ fetcher[a].task = "FETCH" THEN GoesTo(a, "TRY")
     ELSE Gives(a, IF artifact = "WHOLE" THEN "VERIFIED" ELSE "FAILED")
  /\ UNCHANGED <<artifact, part, lockFile>>

\* A run goes on where the last one stopped; what is complete is not asked for
\* again; and a disk without room is an error.
asksFor(a) ==
  /\ fetcher[a].at = "TRY"
  /\ \/ part.size = ArtifactSize /\ GoesTo(a, "SYNCED")
     \/ /\ part.size < ArtifactSize
        /\ \/ fetcher' = [fetcher EXCEPT ![a].at = "BODY", ![a].offset = part.size]
           \/ Gives(a, "FAILED")
  /\ UNCHANGED <<artifact, part, lockFile>>

\* A chunk is appended; it is right if the server's bytes are, and if they were
\* asked for at the place where they land.
arrives(a) ==
  /\ fetcher[a].at = "BODY" /\ fetcher[a].offset < ArtifactSize /\ part.size < ArtifactSize
  /\ \E bytes \in {"RIGHT", "WRONG"} :
       part' = [size |-> part.size + 1,
                bytes |-> IF fetcher[a].offset = part.size /\ part.bytes = "RIGHT"
                          THEN bytes ELSE "WRONG"]
  /\ fetcher' = [fetcher EXCEPT ![a].offset = @ + 1]
  /\ UNCHANGED <<artifact, lockFile>>

allArrived(a) ==
  /\ fetcher[a].at = "BODY" /\ fetcher[a].offset = ArtifactSize
  /\ GoesTo(a, "SYNCED")
  /\ UNCHANGED <<artifact, part, lockFile>>

\* A refused or wrong response, one that is too long or too short, and a
\* connection that breaks: asked for again, the last time an error.
bodyFails(a) ==
  /\ fetcher[a].at = "BODY"
  /\ IF fetcher[a].attempt + 1 < Attempts
     THEN fetcher' = [fetcher EXCEPT ![a].at = "TRY", ![a].attempt = @ + 1]
     ELSE Gives(a, "FAILED")
  /\ UNCHANGED <<artifact, part, lockFile>>

Digested == part.size = ArtifactSize /\ part.bytes = "RIGHT"

digests(a) ==
  /\ fetcher[a].at = "SYNCED"
  /\ IF Digested THEN GoesTo(a, "RENAME") ELSE Gives(a, "FAILED")
  /\ UNCHANGED <<artifact, part, lockFile>>

renames(a) ==
  /\ fetcher[a].at = "RENAME"
  /\ artifact' = IF part.bytes = "RIGHT" THEN "WHOLE" ELSE "OTHER"
  /\ part' = NoPart
  /\ Gives(a, "VERIFIED")
  /\ UNCHANGED lockFile

unlocks(a) ==
  /\ fetcher[a].at = "UNLOCK"
  /\ lockFile' = "NONE" /\ GoesTo(a, "OUT")
  /\ UNCHANGED <<artifact, part>>

\* The process is killed: its lock and what has arrived stay.
acquirerDies(a) ==
  /\ fetcher[a].at # "OUT"
  /\ fetcher' = [fetcher EXCEPT ![a] = Outside]
  /\ UNCHANGED <<artifact, part, lockFile>>

\* A person removes a lock that nobody holds, or a partial file kept for them.
inspects ==
  /\ \A a \in Acquirer : fetcher[a].at = "OUT"
  /\ lockFile = "THERE" \/ part.size > 0
  /\ lockFile' = "NONE"
  /\ part' \in {part, NoPart}
  /\ UNCHANGED <<artifact, fetcher>>

ArtifactsNext ==
  \/ \E a \in Acquirer, task \in {"FETCH", "VERIFY"} : locks(a, task)
  \/ \E a \in Acquirer :
       \/ looksForFile(a) \/ asksFor(a) \/ arrives(a) \/ allArrived(a) \/ bodyFails(a)
       \/ digests(a) \/ renames(a) \/ unlocks(a) \/ acquirerDies(a)
  \/ inspects

ArtifactsSpec == ArtifactsInit /\ [][ArtifactsNext]_artifactVars

-----------------------------------------------------------------------------
(* What must hold.                                                         *)

\* At most one process is between its lock and the end of it, and the lock file
\* is there as long: so what a run appends lands where it was asked for, however
\* many runs were cut off before it.  (artifacts.mjs 117-118, 139-187, 212-215)
OneFetches ==
  /\ \A a, b \in Acquirer : fetcher[a].at \in Locked /\ fetcher[b].at \in Locked => a = b
  /\ \A a \in Acquirer : fetcher[a].at \in Locked => lockFile = "THERE"
  /\ \A a \in Acquirer : fetcher[a].at = "BODY" => fetcher[a].offset = part.size

\* The file's name is only ever given to the manifest's bytes, and who was told
\* that it is verified finds it; the one that was there before stays.
\* (artifacts.mjs 192-205)
VerifiedIsWhole ==
  /\ \A a \in Acquirer : fetcher[a].result = "VERIFIED" => artifact = "WHOLE"
  /\ artifact = "WHOLE" => part.size = 0
  /\ \A a \in Acquirer : fetcher[a].at = "RENAME" => Digested
=============================================================================
