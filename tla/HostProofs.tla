------------------------------ MODULE HostProofs ------------------------------
(***************************************************************************)
(* What one machine holds, wherever its commands and processes are cut     *)
(* off.  A node: an epoch names one process, and a signed request is       *)
(* handled once, for any number of starts, any difference of the clocks    *)
(* and any retention of the nonces that is at least the width of the       *)
(* window.  A model's file is its manifest's.  A route that is installed   *)
(* is complete, for any number of stages.  The root's cluster tells all of *)
(* its children to end.  The laboratory finds every process it has         *)
(* started, provisions its database once, and starts and stops its         *)
(* services in an order that leaves none without what it uses.             *)
(***************************************************************************)
EXTENDS Registration, Installation, FiniteSetTheorems, TLAPS

\* What makes EpochNamesOneProcess inductive: epochs are granted in order, none to
\* two processes, and the latest to the process whose boot identity the row holds.
\* (nodes.ts register and resume)
EpochsGranted ==
  /\ \A p \in Process : granted[p] \subseteq 1..record.epoch
  /\ \A p, q \in Process : p # q => granted[p] \cap granted[q] = {}
  /\ record.boot # NoProcess => record.epoch \in granted[record.boot]
  /\ \A p \in Process : told[p] = 0 \/ told[p] \in granted[p]

\* What makes HandledOnce inductive: the nonce of a request that is still valid has
\* been seen no longer ago than the request has lost of its window, so it cannot be
\* stale; and a request that was handled keeps its nonce while it is valid.
\* (nodes.ts signed, sessions.ts reap)
NonceKept(m) ==
  /\ checked[m] <= 1
  /\ nonceAge[m] >= -1
  /\ nonceAge[m] # -1 => left[m] < 0 \/ left[m] <= 2 - nonceAge[m]
  /\ checked[m] = 1 => nonceAge[m] # -1 \/ left[m] < 0
  /\ m[1] = "register" => checked[m] = 0 /\ nonceAge[m] = -1
  /\ agent[m[2]] = "NEW" => checked[m] = 0 /\ nonceAge[m] = -1 /\ left[m] = -1

NoncesKept == \A m \in Message : NonceKept(m)

-----------------------------------------------------------------------------
(* Types.                                                                  *)

\* The initial state and every step of the agent and of the coordinator keep the
\* variables within their types.
LEMMA TypesKept ==
  /\ RegistrationInit => RegistrationTypeOK
  /\ RegistrationTypeOK /\ [RegistrationNext]_registrationVars => RegistrationTypeOK'
<1>1. RegistrationInit => RegistrationTypeOK
  BY RegistrationAssumption DEF RegistrationInit, RegistrationTypeOK, Process, NoProcess
<1>2. ASSUME RegistrationTypeOK, [RegistrationNext]_registrationVars
      PROVE  RegistrationTypeOK'
  <2> USE <1>2 DEF RegistrationTypeOK
  <2>0. ASSUME NEW m \in Message, Sends(m)
        PROVE  left' \in [Message -> Int]
    BY <2>0, RegistrationAssumption DEF Sends
  <2>1. ASSUME NEW p \in Process, startsAgent(p)
        PROVE  RegistrationTypeOK'
    <3>1. <<"resume", p>> \in Message
      BY DEF Message
    <3> QED
      BY <2>0, <2>1, <3>1 DEF startsAgent, ByAgent
  <2>2. ASSUME NEW p \in Process, registers(p)
        PROVE  RegistrationTypeOK'
    <3>1. <<"register", p>> \in Message
      BY DEF Message
    <3> QED
      BY <2>0, <2>2, <3>1 DEF registers, ByAgent
  <2>3. ASSUME NEW p \in Process, hearsEpoch(p)
        PROVE  RegistrationTypeOK'
    BY <2>3 DEF hearsEpoch, ByAgent
  <2>4. ASSUME NEW p \in Process, agentEnds(p)
        PROVE  RegistrationTypeOK'
    BY <2>4 DEF agentEnds, ByAgent
  <2>5. ASSUME NEW p \in Process
        PROVE  NewEpoch(p) \in Nat
    BY DEF NewEpoch
  <2>6. ASSUME NEW p \in Process, Grants(p)
        PROVE  /\ granted' \in [Process -> SUBSET Nat]
               /\ record' \in [epoch : Nat, boot : Process \cup {NoProcess},
                               invited : BOOLEAN, revoked : BOOLEAN]
    BY <2>5, <2>6 DEF Grants
  <2>7. ASSUME NEW p \in Process, register(p)
        PROVE  RegistrationTypeOK'
    BY <2>6, <2>7 DEF register, AtCoordinator
  <2>8. ASSUME NEW p \in Process, resume(p)
        PROVE  RegistrationTypeOK'
    BY <2>6, <2>8 DEF resume, AtCoordinator
  <2>9. ASSUME NEW m \in Message, signed(m)
        PROVE  RegistrationTypeOK'
    BY <2>9 DEF signed, AtCoordinator
  <2>10. CASE forgets
    BY <2>10 DEF forgets, AtCoordinator
  <2>11. CASE revokesNode \/ invitationExpires
    BY <2>11 DEF revokesNode, invitationExpires, AtCoordinator
  <2>12. CASE passes
    BY <2>12, RegistrationAssumption DEF passes, AtCoordinator
  <2>13. CASE UNCHANGED registrationVars
    BY <2>13 DEF registrationVars
  <2> QED
    BY <2>1, <2>2, <2>3, <2>4, <2>7, <2>8, <2>9, <2>10, <2>11, <2>12, <2>13
       DEF RegistrationNext
<1> QED
  BY <1>1, <1>2

\* The variables of a registration always have their types.
THEOREM RegistrationTypes == RegistrationSpec => []RegistrationTypeOK
  BY TypesKept, PTL DEF RegistrationSpec

-----------------------------------------------------------------------------
(* Epochs.                                                                 *)

\* Granting keeps the epochs of the processes apart: a new one is greater than all
\* that were granted, and one that is repeated was this process's already.
LEMMA GrantKeepsEpochs ==
  ASSUME RegistrationTypeOK, EpochsGranted, NEW p \in Process, Grants(p), UNCHANGED told
  PROVE  EpochsGranted'
<1> USE DEF RegistrationTypeOK, EpochsGranted
<1>1. p # NoProcess /\ record.epoch \in Nat
  BY DEF Process, NoProcess
<1>2. record'.boot = p /\ record'.epoch = NewEpoch(p)
  BY DEF Grants
<1>3. \A q \in Process : granted'[q] = IF q = p THEN granted[p] \cup {NewEpoch(p)}
                                               ELSE granted[q]
  BY DEF Grants
<1>4. NewEpoch(p) \in granted[p] \/ NewEpoch(p) = record.epoch + 1
  BY <1>1 DEF NewEpoch
<1>5. NewEpoch(p) \in Nat /\ NewEpoch(p) >= record.epoch /\ NewEpoch(p) >= 1
  BY <1>1 DEF NewEpoch
<1>6. \A q \in Process : q # p => NewEpoch(p) \notin granted[q]
  <2>1. CASE NewEpoch(p) \in granted[p]
    BY <2>1
  <2>2. CASE NewEpoch(p) = record.epoch + 1
    BY <2>2, <1>1
  <2> QED
    BY <1>4, <2>1, <2>2
<1>7. \A q \in Process : granted'[q] \subseteq 1..record'.epoch
  BY <1>1, <1>2, <1>3, <1>5
<1>8. \A q, r \in Process : q # r => granted'[q] \cap granted'[r] = {}
  BY <1>3, <1>6
<1>9. \A q \in Process : told'[q] = 0 \/ told'[q] \in granted'[q]
  BY <1>3
<1> QED
  BY <1>2, <1>3, <1>7, <1>8, <1>9

\* Every step keeps the epochs of the processes apart.
LEMMA EpochsKept ==
  ASSUME RegistrationTypeOK, EpochsGranted, [RegistrationNext]_registrationVars
  PROVE  EpochsGranted'
<1>1. CASE UNCHANGED <<told, granted, record.epoch, record.boot>>
  BY <1>1 DEF EpochsGranted
<1>2. ASSUME NEW p \in Process, startsAgent(p) \/ registers(p) \/ agentEnds(p)
      PROVE  EpochsGranted'
  BY <1>1, <1>2 DEF startsAgent, registers, agentEnds, ByAgent
<1>3. ASSUME NEW p \in Process, hearsEpoch(p)
      PROVE  EpochsGranted'
  BY <1>3 DEF hearsEpoch, ByAgent, EpochsGranted, RegistrationTypeOK
<1>4. ASSUME NEW p \in Process, register(p)
      PROVE  EpochsGranted'
  BY <1>4, GrantKeepsEpochs DEF register, AtCoordinator
<1>5. ASSUME NEW p \in Process, resume(p)
      PROVE  EpochsGranted'
  BY <1>1, <1>5, GrantKeepsEpochs DEF resume, AtCoordinator
<1>6. CASE (\E m \in Message : signed(m)) \/ forgets \/ passes
  BY <1>1, <1>6 DEF signed, forgets, passes, AtCoordinator
<1>7. CASE revokesNode \/ invitationExpires
  BY <1>1, <1>7 DEF revokesNode, invitationExpires, AtCoordinator, RegistrationTypeOK
<1>8. CASE UNCHANGED registrationVars
  BY <1>1, <1>8 DEF registrationVars
<1> QED
  BY <1>2, <1>3, <1>4, <1>5, <1>6, <1>7, <1>8 DEF RegistrationNext

\* No two processes are ever told the same epoch, through lost answers, late
\* resumptions and overlapping starts.  (nodes.ts 61-110)
THEOREM EpochsApart == RegistrationSpec => []EpochNamesOneProcess
<1>1. RegistrationInit => EpochsGranted
  BY DEF RegistrationInit, EpochsGranted, NoProcess
<1>2. RegistrationTypeOK /\ EpochsGranted => EpochNamesOneProcess
  BY DEF EpochsGranted, EpochNamesOneProcess, RegistrationTypeOK
<1> QED
  BY <1>1, <1>2, EpochsKept, RegistrationTypes, PTL DEF RegistrationSpec

-----------------------------------------------------------------------------
(* Nonces.                                                                 *)

\* Every step of the agent keeps what is known of the nonces: a request is sent
\* once, before it can have been seen.
LEMMA AgentKeepsNonces ==
  ASSUME RegistrationTypeOK, NoncesKept, NEW p \in Process,
         startsAgent(p) \/ registers(p) \/ hearsEpoch(p) \/ agentEnds(p)
  PROVE  NoncesKept'
<1> USE DEF RegistrationTypeOK
<1>1. UNCHANGED <<nonceAge, checked>>
  BY DEF startsAgent, registers, hearsEpoch, agentEnds, ByAgent
<1>2. \A m \in Message : m \in Message /\ m[2] \in Process
  BY DEF Message
<1>3. \A q \in Process : agent'[q] = "NEW" => agent[q] = "NEW" /\ q # p
  BY DEF startsAgent, registers, hearsEpoch, agentEnds
<1>4. \A m \in Message : \/ left'[m] = left[m]
                         \/ m[2] = p /\ checked[m] = 0 /\ nonceAge[m] = -1
  <2>1. CASE startsAgent(p)
    <3>1. PICK k \in (1 - Skew)..(1 + Skew) : left' = [left EXCEPT ![<<"resume", p>>] = k]
      BY <2>1 DEF startsAgent, Sends
    <3>2. \A m \in Message : m # <<"resume", p>> => left'[m] = left[m]
      BY <3>1
    <3>3. agent[p] = "NEW"
      BY <2>1 DEF startsAgent
    <3>4. <<"resume", p>> \in Message
      BY DEF Message
    <3>5. checked[<<"resume", p>>] = 0 /\ nonceAge[<<"resume", p>>] = -1
      BY <3>3, <3>4 DEF NoncesKept, NonceKept
    <3> QED
      BY <3>2, <3>5
  <2>2. CASE registers(p)
    <3>1. PICK k \in (1 - Skew)..(1 + Skew) : left' = [left EXCEPT ![<<"register", p>>] = k]
      BY <2>2 DEF registers, Sends
    <3>2. \A m \in Message : m # <<"register", p>> => left'[m] = left[m]
      BY <3>1
    <3>4. <<"register", p>> \in Message
      BY DEF Message
    <3>5. checked[<<"register", p>>] = 0 /\ nonceAge[<<"register", p>>] = -1
      BY <3>4 DEF NoncesKept, NonceKept
    <3> QED
      BY <3>2, <3>5
  <2>3. CASE hearsEpoch(p) \/ agentEnds(p)
    BY <2>3 DEF hearsEpoch, agentEnds
  <2> QED
    BY <2>1, <2>2, <2>3
<1> QED
  BY <1>1, <1>2, <1>3, <1>4 DEF NoncesKept, NonceKept

\* A request that passes the check has not passed before: had it, its nonce would
\* be known, or it would no longer be valid.
LEMMA CheckKeepsNonces ==
  ASSUME RegistrationTypeOK, NoncesKept, NEW n \in Message, signed(n)
  PROVE  NoncesKept'
<1> USE DEF RegistrationTypeOK
<1>1. left[n] \in 0..2 /\ nonceAge[n] = -1 /\ n[1] = "resume"
  BY DEF signed, InWindow
<1>2. checked[n] = 0
  BY <1>1 DEF NoncesKept, NonceKept
<1>3. nonceAge'[n] = 0 /\ checked'[n] = 1
  BY <1>2 DEF signed
<1>4. UNCHANGED <<left, agent>>
  BY DEF signed, AtCoordinator
<1>5. \A m \in Message : m # n => nonceAge'[m] = nonceAge[m] /\ checked'[m] = checked[m]
  BY DEF signed
<1>6. NonceKept(n)'
  BY <1>1, <1>3, <1>4 DEF NonceKept, NoncesKept
<1>7. \A m \in Message : m # n => NonceKept(m)'
  BY <1>4, <1>5 DEF NonceKept, NoncesKept
<1> QED
  BY <1>6, <1>7 DEF NoncesKept

\* Every step keeps what is known of the nonces.
LEMMA NoncesStayKept ==
  ASSUME RegistrationTypeOK, NoncesKept, [RegistrationNext]_registrationVars
  PROVE  NoncesKept'
<1> USE DEF RegistrationTypeOK
<1>1. CASE UNCHANGED <<agent, left, nonceAge, checked>>
  BY <1>1 DEF NoncesKept, NonceKept
<1>2. ASSUME NEW p \in Process, register(p) \/ resume(p)
      PROVE  NoncesKept'
  BY <1>1, <1>2 DEF register, resume, AtCoordinator
<1>3. CASE revokesNode \/ invitationExpires \/ UNCHANGED registrationVars
  BY <1>1, <1>3 DEF revokesNode, invitationExpires, AtCoordinator, registrationVars
<1>4. CASE forgets
  <2>1. UNCHANGED <<agent, left, checked>>
    BY <1>4 DEF forgets, AtCoordinator
  <2>2. \A m \in Message : \/ nonceAge'[m] = nonceAge[m]
                           \/ nonceAge'[m] = -1 /\ nonceAge[m] > 2
    BY <1>4, RegistrationAssumption DEF forgets, Stale
  <2>3. \A m \in Message : nonceAge[m] > 2 => left[m] < 0
    BY DEF NoncesKept, NonceKept
  <2> QED
    BY <2>1, <2>2, <2>3 DEF NoncesKept, NonceKept
<1>5. CASE passes
  <2>1. UNCHANGED <<agent, checked>>
    BY <1>5 DEF passes, AtCoordinator
  <2>2. \A m \in Message : left'[m] = IF left[m] >= 0 THEN left[m] - 1 ELSE left[m]
    BY <1>5 DEF passes
  <2>3. \A m \in Message : \/ nonceAge'[m] = nonceAge[m]
                           \/ nonceAge[m] >= 0 /\ nonceAge'[m] = nonceAge[m] + 1
    BY <1>5 DEF passes
  <2> QED
    BY <2>1, <2>2, <2>3 DEF NoncesKept, NonceKept
<1> QED
  BY <1>2, <1>3, <1>4, <1>5, AgentKeepsNonces, CheckKeepsNonces DEF RegistrationNext

\* A signed request is handled once, however often it arrives and however far ahead
\* the clock that signed it is.  (nodes.ts 29-58, sessions.ts 1031-1033)
THEOREM RequestsHandledOnce == RegistrationSpec => []HandledOnce
<1>1. RegistrationInit => NoncesKept
  BY DEF RegistrationInit, NoncesKept, NonceKept, Message
<1>2. NoncesKept => HandledOnce
  BY DEF NoncesKept, NonceKept, HandledOnce
<1> QED
  BY <1>1, <1>2, NoncesStayKept, RegistrationTypes, PTL DEF RegistrationSpec

-----------------------------------------------------------------------------
(* The acquisition of a model's file.                                      *)

\* What makes the digest worth something: while a file is fetched there is none of
\* its name.  (artifacts.mjs 114-204)
FetchedOnlyIfAbsent ==
  \A a \in Acquirer : fetcher[a].at \in {"TRY", "BODY", "SYNCED", "RENAME"} => artifact = "NONE"

ArtifactsInv ==
  /\ ArtifactsTypeOK /\ OneFetches /\ VerifiedIsWhole /\ FetchedOnlyIfAbsent

Fetching ==
  [at : Locked \cup {"OUT"}, task : {"FETCH", "VERIFY"}, attempt : 0..(Attempts - 1),
   offset : 0..ArtifactSize, result : {"NONE", "VERIFIED", "FAILED"}]
Arriving == [size : 0..ArtifactSize, bytes : {"RIGHT", "WRONG"}]

\* What a run may become: it has the lock while it is within it, and took it when
\* nobody had it; where it is not, it changes neither the file nor its parts; it
\* appends where its part ends, says verified of what is there, and fetches only
\* what is not.
Becoming(a, r) ==
  /\ fetcher[a].at \notin Locked =>
       /\ part' = part /\ artifact' = artifact
       /\ r.at \in Locked => lockFile = "NONE"
       /\ lockFile = "THERE" => lockFile' = "THERE"
  /\ r.at \in Locked => lockFile' = "THERE"
  /\ r.at = "BODY" => r.offset = part'.size
  /\ r.result = "VERIFIED" => artifact' = "WHOLE"
  /\ artifact = "WHOLE" => artifact' = "WHOLE"
  /\ artifact' = "WHOLE" => part'.size = 0
  /\ r.at = "RENAME" => part'.size = ArtifactSize /\ part'.bytes = "RIGHT"
  /\ r.at \in {"TRY", "BODY", "SYNCED", "RENAME"} => artifact' = "NONE"

\* A step of one process that becomes so keeps what all are to each other.
LEMMA OneMoves ==
  ASSUME ArtifactsInv, NEW a \in Acquirer, NEW r \in Fetching,
         fetcher' = [fetcher EXCEPT ![a] = r],
         artifact' \in {"NONE", "WHOLE", "OTHER"}, lockFile' \in {"NONE", "THERE"},
         part' \in Arriving, Becoming(a, r)
  PROVE  ArtifactsInv'
<1>1. fetcher \in [Acquirer -> Fetching]
  BY DEF ArtifactsInv, ArtifactsTypeOK, Fetching
<1>2. fetcher' \in [Acquirer -> Fetching]
  BY <1>1
<1>3. fetcher'[a] = r /\ \A b \in Acquirer : b # a => fetcher'[b] = fetcher[b]
  BY <1>1
<1>4. ArtifactsTypeOK'
  BY <1>2 DEF ArtifactsTypeOK, Fetching, Arriving
<1> USE DEF Becoming
<1>5. \A b \in Acquirer : fetcher[b].at \in Locked => lockFile = "THERE"
  BY DEF ArtifactsInv, OneFetches
<1>6. \A b, c \in Acquirer : fetcher[b].at \in Locked /\ fetcher[c].at \in Locked => b = c
  BY DEF ArtifactsInv, OneFetches
<1>7. \A b \in Acquirer : fetcher[b].at = "BODY" => fetcher[b].offset = part.size
  BY DEF ArtifactsInv, OneFetches
<1>8. "THERE" # "NONE"
  OBVIOUS
<1>9. OneFetches'
  <2>1. \A b \in Acquirer : fetcher[b].at = "BODY" => fetcher[b].at \in Locked
    BY DEF Locked
  <2>2. \A b, c \in Acquirer : fetcher'[b].at \in Locked /\ fetcher'[c].at \in Locked => b = c
    BY <1>3, <1>5, <1>6, <1>8
  <2>3. \A b \in Acquirer : fetcher'[b].at \in Locked => lockFile' = "THERE"
    BY <1>3, <1>5, <1>6, <1>8
  <2>4. \A b \in Acquirer : fetcher'[b].at = "BODY" => fetcher'[b].offset = part'.size
    BY <1>3, <1>5, <1>6, <1>7, <1>8, <2>1
  <2> QED
    BY <2>2, <2>3, <2>4 DEF OneFetches
<1>10. VerifiedIsWhole'
  <2>1. \A b \in Acquirer : fetcher[b].at = "RENAME" => fetcher[b].at \in Locked
    BY DEF Locked
  <2>2. \A b \in Acquirer : fetcher'[b].at = "RENAME" => Digested'
    <3>1. \A b \in Acquirer : fetcher[b].at = "RENAME" => Digested
      BY DEF ArtifactsInv, VerifiedIsWhole
    <3> QED
      BY <1>3, <1>5, <1>6, <1>8, <2>1, <3>1 DEF Digested
  <2>3. \A b \in Acquirer : fetcher'[b].result = "VERIFIED" => artifact' = "WHOLE"
    BY <1>3 DEF ArtifactsInv, VerifiedIsWhole
  <2> QED
    BY <2>2, <2>3 DEF VerifiedIsWhole
<1>11. FetchedOnlyIfAbsent'
  <2>1. \A b \in Acquirer : fetcher[b].at \in {"TRY", "BODY", "SYNCED", "RENAME"} =>
          fetcher[b].at \in Locked /\ artifact = "NONE"
    BY DEF Locked, ArtifactsInv, FetchedOnlyIfAbsent
  <2> QED
    BY <1>3, <1>5, <1>6, <1>8, <2>1 DEF FetchedOnlyIfAbsent
<1> QED
  BY <1>4, <1>9, <1>10, <1>11 DEF ArtifactsInv

\* Before the first run there is nothing but a file that was there before.
LEMMA NothingFetched == ArtifactsInit => ArtifactsInv
<1> SUFFICES ASSUME ArtifactsInit PROVE ArtifactsInv
  OBVIOUS
<1>1. Outside \in Fetching /\ NoPart \in Arriving
  BY ArtifactsAssumption DEF Outside, Fetching, Locked, NoPart, Arriving
<1>2. fetcher \in [Acquirer -> Fetching]
  BY <1>1 DEF ArtifactsInit
<1>3. ArtifactsTypeOK
  BY <1>1, <1>2 DEF ArtifactsInit, ArtifactsTypeOK, Fetching, Arriving
<1>4. \A a \in Acquirer : fetcher[a] = Outside
  BY DEF ArtifactsInit
<1> QED
  BY <1>3, <1>4
     DEF ArtifactsInit, ArtifactsInv, OneFetches, VerifiedIsWhole, FetchedOnlyIfAbsent,
         Outside, Locked

\* Every step of a process is one that OneMoves allows.
LEMMA AcquisitionKeeps ==
  ASSUME ArtifactsInv, [ArtifactsNext]_artifactVars
  PROVE  ArtifactsInv'
<1>1. /\ artifact \in {"NONE", "WHOLE", "OTHER"} /\ lockFile \in {"NONE", "THERE"}
      /\ part \in Arriving /\ fetcher \in [Acquirer -> Fetching]
  BY DEF ArtifactsInv, ArtifactsTypeOK, Arriving, Fetching
<1>2. \A a \in Acquirer : fetcher[a] \in Fetching
  BY <1>1
<1>3. part.size \in 0..ArtifactSize /\ part.bytes \in {"RIGHT", "WRONG"}
  BY <1>1 DEF Arriving
<1>4. \A a \in Acquirer : fetcher[a].at \in Locked => lockFile = "THERE"
  BY DEF ArtifactsInv, OneFetches
<1>5. artifact = "WHOLE" => part.size = 0
  BY DEF ArtifactsInv, VerifiedIsWhole
<1>6. \A a \in Acquirer :
        /\ fetcher[a].result = "VERIFIED" => artifact = "WHOLE"
        /\ fetcher[a].at = "RENAME" => part.size = ArtifactSize /\ part.bytes = "RIGHT"
  BY DEF ArtifactsInv, VerifiedIsWhole, Digested
<1>7. \A a \in Acquirer :
        fetcher[a].at \in {"TRY", "BODY", "SYNCED", "RENAME"} => artifact = "NONE"
  BY DEF ArtifactsInv, FetchedOnlyIfAbsent
<1>8. \A a \in Acquirer : fetcher[a].at = "BODY" => fetcher[a].offset = part.size
  BY DEF ArtifactsInv, OneFetches
<1>9. NoPart \in Arriving /\ NoPart.size = 0
  BY ArtifactsAssumption DEF NoPart, Arriving
<1> DEFINE With(a, at) == [fetcher[a] EXCEPT !.at = at]
           Ending(a, result) == [fetcher[a] EXCEPT !.at = "UNLOCK", !.result = result]
<1>10. ASSUME NEW a \in Acquirer, NEW at \in Locked \cup {"OUT"}
       PROVE  /\ With(a, at) \in Fetching /\ With(a, at).at = at
              /\ With(a, at).result = fetcher[a].result
              /\ With(a, at).offset = fetcher[a].offset
  BY <1>2 DEF Fetching
<1>11. ASSUME NEW a \in Acquirer, NEW result \in {"VERIFIED", "FAILED"}
       PROVE  /\ Ending(a, result) \in Fetching /\ Ending(a, result).at = "UNLOCK"
              /\ Ending(a, result).result = result
  BY <1>2 DEF Fetching, Locked
<1>12. ASSUME NEW a \in Acquirer, NEW at, GoesTo(a, at)
       PROVE  fetcher' = [fetcher EXCEPT ![a] = With(a, at)]
  BY <1>1, <1>12 DEF GoesTo
<1>13. ASSUME NEW a \in Acquirer, NEW result, Gives(a, result)
       PROVE  fetcher' = [fetcher EXCEPT ![a] = Ending(a, result)]
  BY <1>1, <1>13 DEF Gives
<1> HIDE DEF With, Ending
<1>14. ASSUME NEW a \in Acquirer, fetcher[a].at \in Locked, NEW at \in Locked,
              GoesTo(a, at), UNCHANGED <<artifact, part, lockFile>>, at # "BODY",
              at = "RENAME" => part.size = ArtifactSize /\ part.bytes = "RIGHT",
              at \in {"TRY", "SYNCED", "RENAME"} => artifact = "NONE"
       PROVE  ArtifactsInv'
  <2>1. Becoming(a, With(a, at))
    BY <1>4, <1>5, <1>6, <1>10, <1>14 DEF Becoming
  <2> QED
    BY <1>1, <1>10, <1>12, <1>14, <2>1, OneMoves
<1>15. ASSUME NEW a \in Acquirer, fetcher[a].at \in Locked,
              NEW result \in {"VERIFIED", "FAILED"}, Gives(a, result),
              UNCHANGED <<artifact, part, lockFile>>, result = "VERIFIED" => artifact = "WHOLE"
       PROVE  ArtifactsInv'
  <2>1. Becoming(a, Ending(a, result))
    BY <1>4, <1>5, <1>11, <1>15 DEF Becoming, Locked
  <2> QED
    BY <1>1, <1>11, <1>13, <1>15, <2>1, OneMoves
<1>16. ASSUME NEW a \in Acquirer, NEW task \in {"FETCH", "VERIFY"}, locks(a, task)
       PROVE  ArtifactsInv'
  <2> DEFINE r == IF CanLock THEN [Outside EXCEPT !.at = "LOOK", !.task = task]
                             ELSE [Outside EXCEPT !.result = "FAILED"]
  <2>0. Outside \in Fetching /\ Outside.result = "NONE" /\ Outside.at = "OUT"
    BY ArtifactsAssumption DEF Outside, Fetching, Locked
  <2>1. r \in Fetching /\ r.at \in {"LOOK", "OUT"} /\ r.result \in {"NONE", "FAILED"}
    <3>1. CASE CanLock
      BY <2>0, <3>1 DEF Fetching, Locked
    <3>2. CASE ~CanLock
      BY <2>0, <3>2 DEF Fetching, Locked
    <3> QED
      BY <3>1, <3>2
  <2>2. fetcher' = [fetcher EXCEPT ![a] = r] /\ (r.at = "LOOK" => CanLock)
    BY <1>16 DEF locks, Outside
  <2>3. Becoming(a, r)
    BY <1>4, <1>5, <1>16, <2>1, <2>2 DEF Becoming, locks, CanLock, Locked
  <2> HIDE DEF r
  <2> QED
    BY <1>1, <1>16, <2>1, <2>2, <2>3, OneMoves DEF locks
<1>17. ASSUME NEW a \in Acquirer, looksForFile(a)
       PROVE  ArtifactsInv'
  BY <1>14, <1>15, <1>17 DEF looksForFile, Locked
<1>18. ASSUME NEW a \in Acquirer, asksFor(a)
       PROVE  ArtifactsInv'
  <2> DEFINE r == [fetcher[a] EXCEPT !.at = "BODY", !.offset = part.size]
  <2>1. CASE fetcher' = [fetcher EXCEPT ![a].at = "BODY", ![a].offset = part.size]
    <3>1. r \in Fetching /\ r.at = "BODY" /\ r.offset = part.size
          /\ r.result = fetcher[a].result
      BY <1>2, <1>3 DEF Fetching, Locked
    <3>2. fetcher' = [fetcher EXCEPT ![a] = r]
      BY <1>1, <2>1
    <3>3. Becoming(a, r)
      BY <1>4, <1>5, <1>6, <1>7, <1>18, <3>1 DEF Becoming, asksFor, Locked
    <3> HIDE DEF r
    <3> QED
      BY <1>1, <1>18, <3>1, <3>2, <3>3, OneMoves DEF asksFor
  <2> QED
    BY <1>7, <1>14, <1>15, <1>18, <2>1 DEF asksFor, Locked
<1>19. ASSUME NEW a \in Acquirer, arrives(a)
       PROVE  ArtifactsInv'
  <2> DEFINE r == [fetcher[a] EXCEPT !.offset = @ + 1]
  <2>1. /\ r \in Fetching /\ r.at = "BODY" /\ r.offset = fetcher[a].offset + 1
        /\ r.result = fetcher[a].result
    BY <1>2, <1>3, <1>19, ArtifactsAssumption DEF Fetching, arrives
  <2>2. fetcher' = [fetcher EXCEPT ![a] = r]
    BY <1>1, <1>19 DEF arrives
  <2>3. part' \in Arriving /\ part'.size = part.size + 1
    BY <1>3, <1>19, ArtifactsAssumption DEF arrives, Arriving
  <2>4. Becoming(a, r)
    BY <1>4, <1>6, <1>7, <1>8, <1>19, <2>1, <2>3 DEF Becoming, arrives, Locked
  <2> HIDE DEF r
  <2> QED
    BY <1>1, <1>19, <2>1, <2>2, <2>3, <2>4, OneMoves DEF arrives
<1>20. ASSUME NEW a \in Acquirer, allArrived(a)
       PROVE  ArtifactsInv'
  BY <1>7, <1>14, <1>20 DEF allArrived, Locked
<1>21. ASSUME NEW a \in Acquirer, bodyFails(a)
       PROVE  ArtifactsInv'
  <2> DEFINE r == [fetcher[a] EXCEPT !.at = "TRY", !.attempt = @ + 1]
  <2>1. CASE fetcher[a].attempt + 1 < Attempts
    <3>0. fetcher[a].attempt + 1 \in 0..(Attempts - 1)
      <4>1. fetcher[a].attempt \in 0..(Attempts - 1)
        BY <1>2 DEF Fetching
      <4> QED
        BY <2>1, <4>1, ArtifactsAssumption
    <3>1. r \in Fetching /\ r.at = "TRY" /\ r.result = fetcher[a].result
      BY <1>2, <3>0 DEF Fetching, Locked
    <3>2. fetcher' = [fetcher EXCEPT ![a] = r]
      BY <1>1, <1>21, <2>1 DEF bodyFails
    <3>3. Becoming(a, r)
      BY <1>4, <1>5, <1>6, <1>7, <1>21, <3>1 DEF Becoming, bodyFails, Locked
    <3> HIDE DEF r
    <3> QED
      BY <1>1, <1>21, <3>1, <3>2, <3>3, OneMoves DEF bodyFails
  <2> QED
    BY <1>15, <1>21, <2>1 DEF bodyFails, Locked
<1>22. ASSUME NEW a \in Acquirer, digests(a)
       PROVE  ArtifactsInv'
  BY <1>7, <1>14, <1>15, <1>22 DEF digests, Digested, Locked
<1>23. ASSUME NEW a \in Acquirer, renames(a)
       PROVE  ArtifactsInv'
  <2>1. artifact' = "WHOLE" /\ part' = NoPart
    BY <1>6, <1>23 DEF renames
  <2>2. Becoming(a, Ending(a, "VERIFIED"))
    BY <1>4, <1>9, <1>11, <1>23, <2>1 DEF Becoming, renames, Locked
  <2> QED
    BY <1>1, <1>9, <1>11, <1>13, <1>23, <2>1, <2>2, OneMoves DEF renames
<1>24. ASSUME NEW a \in Acquirer, unlocks(a)
       PROVE  ArtifactsInv'
  <2>1. Becoming(a, With(a, "OUT"))
    BY <1>5, <1>6, <1>10, <1>24 DEF Becoming, unlocks, Locked
  <2> QED
    BY <1>1, <1>10, <1>12, <1>24, <2>1, OneMoves DEF unlocks
<1>25. ASSUME NEW a \in Acquirer, acquirerDies(a)
       PROVE  ArtifactsInv'
  <2>1. Outside \in Fetching /\ Outside.at = "OUT" /\ Outside.result = "NONE"
    BY ArtifactsAssumption DEF Outside, Fetching, Locked
  <2>2. Becoming(a, Outside)
    BY <1>5, <1>25, <2>1 DEF Becoming, acquirerDies, Locked
  <2> QED
    BY <1>1, <1>25, <2>1, <2>2, OneMoves DEF acquirerDies
<1>26. CASE inspects
  <2>1. part' \in Arriving /\ UNCHANGED <<artifact, fetcher>> /\ lockFile' = "NONE"
    BY <1>1, <1>9, <1>26 DEF inspects
  <2>2. ArtifactsTypeOK'
    BY <1>1, <2>1 DEF ArtifactsTypeOK, Arriving, Fetching
  <2>3. \A a \in Acquirer : fetcher'[a].at = "OUT"
    BY <1>26, <2>1 DEF inspects
  <2>4. artifact' = "WHOLE" => part'.size = 0
    BY <1>5, <1>9, <1>26 DEF inspects
  <2> QED
    BY <1>6, <2>1, <2>2, <2>3, <2>4
       DEF ArtifactsInv, OneFetches, VerifiedIsWhole, FetchedOnlyIfAbsent, Locked
<1>27. CASE UNCHANGED artifactVars
  BY <1>27 DEF artifactVars, ArtifactsInv, ArtifactsTypeOK, OneFetches, VerifiedIsWhole, Digested,
               FetchedOnlyIfAbsent
<1> QED
  BY <1>16, <1>17, <1>18, <1>19, <1>20, <1>21, <1>22, <1>23, <1>24, <1>25, <1>26, <1>27
     DEF ArtifactsNext

\* Of however many processes, cut off wherever they are, one at a time fetches, goes
\* on where the last one stopped, and gives the file's name only to the manifest's
\* bytes: who is told that it is verified finds it.  (artifacts.mjs 105-215)
THEOREM FilesAreWhole == ArtifactsSpec => [](ArtifactsTypeOK /\ OneFetches /\ VerifiedIsWhole)
<1>1. ArtifactsInv => ArtifactsTypeOK /\ OneFetches /\ VerifiedIsWhole
  BY DEF ArtifactsInv
<1> QED
  BY <1>1, NothingFetched, AcquisitionKeeps, PTL DEF ArtifactsSpec

-----------------------------------------------------------------------------
(* The installation of a route.                                            *)

Places ==
  {"IDLE", "FIRST", "ROOM", "INVITE", "KEEP", "ROUTE", "KEEP_ROUTE", "ACCEPT", "FILES",
   "WRITING", "QUALIFY", "NODES", "STARTING", "LAUNCH", "UNDO", "WAIT", "ENABLE", "CLEAN",
   "PAUSE", "NOTE"}
Commands == [at : Places, i : 0..(LastService + 1), installing : BOOLEAN, clean : BOOLEAN]
Coordinators ==
  [invited : [Index -> Nat], desired : [Index -> {"READY", "PAUSED"}],
   published : SUBSET (1..2), accepted : BOOLEAN, qualified : BOOLEAN]

LEMMA DeviceTypesAre ==
  DeviceTypeOK <=>
    /\ command \in Commands /\ saved \in State /\ known \in State
    /\ coordinator \in Coordinators /\ files \in [Index -> {"NONE", "PART", "WHOLE"}]
    /\ up \subseteq 1..LastService
    /\ last \in {"NONE", "DONE", "FAILED", "UNSAVED", "BROKEN"}
    /\ faults \in 0..MaxFaults
  BY DEF DeviceTypeOK, Commands, Coordinators, Places

\* What has gone wrong ends in the finally block, in which an installation that is
\* not enabled is cleaned up.
LEMMA FailsIs ==
  ASSUME command \in Commands, Fails
  PROVE  \/ /\ known.key # 0 /\ ~known.enabled
            /\ command' \in Commands /\ command'.at = "CLEAN" /\ command'.i = 0
            /\ command'.installing = command.installing /\ command'.clean = command.clean
            /\ UNCHANGED <<known, last>>
         \/ /\ known.key = 0 \/ known.enabled
            /\ command' = Idle /\ known' = Absent /\ last' = "FAILED"
<1>1. 0 \in 0..(LastService + 1) /\ "CLEAN" \in Places
  BY DeviceAssumption DEF LastService, Places
<1>2. CASE Cleans
  <2>1. command' = [command EXCEPT !.at = "CLEAN", !.i = 0] /\ UNCHANGED <<known, last>>
    BY <1>2 DEF Fails, Turns
  <2>2. /\ command' \in Commands /\ command'.at = "CLEAN" /\ command'.i = 0
        /\ command'.installing = command.installing /\ command'.clean = command.clean
    BY <1>1, <2>1 DEF Commands
  <2> QED
    BY <1>2, <2>1, <2>2 DEF Cleans
<1>3. CASE ~Cleans
  BY <1>3 DEF Fails, Cleans, Returns
<1> QED
  BY <1>2, <1>3

LEMMA TurnsIs ==
  ASSUME command \in Commands, NEW at \in Places, NEW i \in 0..(LastService + 1), Turns(at, i)
  PROVE  /\ command' \in Commands /\ command'.at = at /\ command'.i = i
         /\ command'.installing = command.installing /\ command'.clean = command.clean
  BY DEF Turns, Commands

LEMMA IdleIs ==
  /\ Idle \in Commands /\ Idle.at = "IDLE" /\ Idle.i = 0 /\ ~Idle.installing /\ Idle.clean
  /\ Absent \in State /\ ~Absent.enabled /\ Absent.invites = 0 /\ ~Absent.route
  /\ Absent.key = 0
  BY DeviceAssumption DEF Idle, Commands, Places, LastService, Absent, State

\* The command: whose it is, and where it is in the sequence of an installation.
At(c, places) == c.at \in places
Launching(c) == At(c, {"LAUNCH", "UNDO"})
AfterFiles(c) ==
  \/ At(c, {"QUALIFY", "NODES", "STARTING", "WAIT", "ENABLE"})
  \/ Launching(c) /\ c.installing
AfterAccept(c) == At(c, {"FILES", "WRITING"}) \/ AfterFiles(c)
AfterRoute(c) == At(c, {"KEEP_ROUTE", "ACCEPT"}) \/ AfterAccept(c)
AfterInvites(c) == At(c, {"ROUTE"}) \/ AfterRoute(c)
Installing(c) == At(c, {"FIRST", "ROOM", "INVITE", "KEEP"}) \/ AfterInvites(c)
AfterQualify(c) ==
  \/ At(c, {"NODES", "STARTING", "WAIT", "ENABLE"})
  \/ Launching(c) /\ c.installing
Cleaning(c) == At(c, {"CLEAN", "PAUSE", "NOTE"})

\* The command's copy and the file: what is recorded under a key was done under it,
\* and an enabled route is never installed again.  (device-route.mjs 417-435)
CopiesAgree ==
  /\ coordinator.published \subseteq {saved.key}
  /\ saved.key = 0 => saved = Absent
  /\ At(command, {"IDLE"}) => command = Idle /\ known = Absent
  /\ command.installing =>
       Launching(command) \/ At(command, {"WAIT", "ENABLE"}) \/ Cleaning(command)
  /\ Launching(command) /\ ~command.installing => saved.enabled /\ known \in {Absent, saved}
  /\ Installing(command) \/ Cleaning(command) =>
       /\ known.key # 0 /\ ~known.enabled /\ ~saved.enabled
       /\ saved.invites <= known.invites /\ (saved.route => known.route)
  /\ Installing(command) => known.key = saved.key
  /\ Cleaning(command) => saved.key \in {0, known.key}

\* What a copy says has been done.
DoneBy(s) ==
  /\ \A i \in Index : i < s.invites => coordinator.invited[i] = 1
  /\ s.route => s.key \in coordinator.published

\* What an installation has done by where it is.  (device-route.mjs 455-629)
DoneSoFar ==
  /\ \A i \in Index : coordinator.invited[i] <= 1
  /\ DoneBy(saved) /\ DoneBy(known)
  /\ AfterInvites(command) => known.invites = RecipeStages + 1
  /\ AfterRoute(command) => known.route
  /\ AfterAccept(command) => coordinator.accepted
  /\ At(command, {"FILES", "WRITING"}) => \A j \in Index : j < command.i => files[j] = "WHOLE"
  /\ At(command, {"WRITING"}) => command.i \in Index
  /\ AfterFiles(command) => \A j \in Index : files[j] = "WHOLE"
  /\ AfterQualify(command) => coordinator.qualified
  /\ command.at = "LAUNCH" => command.i > 0

\* What a clean-up has done so far, and what a failure leaves.  (630-641)
CleanedSoFar ==
  /\ At(command, {"PAUSE", "NOTE"}) /\ command.clean => up = {}
  /\ At(command, {"PAUSE"}) => command.i <= known.invites
  /\ At(command, {"PAUSE"}) /\ command.clean =>
       \A j \in Index : j < command.i => coordinator.desired[j] = "PAUSED"
  /\ At(command, {"NOTE"}) /\ command.clean =>
       \A j \in Index : j < known.invites => coordinator.desired[j] = "PAUSED"

DeviceInv ==
  /\ DeviceTypeOK /\ CopiesAgree /\ DoneSoFar /\ EnabledIsComplete /\ CleanedSoFar
  /\ FailedLeavesNothing

\* The places by where they are in an installation.
LEMMA PlacesAre ==
  ASSUME NEW c \in Commands
  PROVE  /\ At(c, {"IDLE"}) \/ Launching(c) \/ Installing(c) \/ Cleaning(c)
         /\ Installing(c) \/ Cleaning(c) \/ Launching(c) => ~At(c, {"IDLE"})
         /\ Installing(c) \/ Launching(c) => ~Cleaning(c)
         /\ Launching(c) /\ c.installing => Installing(c)
         /\ AfterFiles(c) => AfterAccept(c)
         /\ AfterAccept(c) => AfterRoute(c)
         /\ AfterRoute(c) => AfterInvites(c)
         /\ AfterInvites(c) => Installing(c)
         /\ AfterQualify(c) => AfterFiles(c)
  BY DEF At, Launching, Installing, Cleaning, AfterFiles, AfterAccept, AfterRoute, AfterInvites,
         AfterQualify, Commands, Places

\* What an idle command and one that has come to its clean-up are.
LEMMA IdleHasNothing ==
  /\ At(Idle, {"IDLE"}) /\ ~Launching(Idle) /\ ~Installing(Idle) /\ ~Cleaning(Idle)
  /\ ~AfterFiles(Idle) /\ ~AfterAccept(Idle) /\ ~AfterRoute(Idle) /\ ~AfterInvites(Idle)
  /\ ~AfterQualify(Idle) /\ ~At(Idle, {"FILES", "WRITING"}) /\ ~At(Idle, {"WRITING"})
  /\ ~At(Idle, {"PAUSE"}) /\ ~At(Idle, {"NOTE"}) /\ ~At(Idle, {"PAUSE", "NOTE"})
  BY IdleIs DEF At, Launching, Installing, Cleaning, AfterFiles, AfterAccept, AfterRoute,
     AfterInvites, AfterQualify

LEMMA CleaningHasNothing ==
  ASSUME NEW c, At(c, {"CLEAN"})
  PROVE  /\ ~At(c, {"IDLE"}) /\ ~Launching(c) /\ ~Installing(c) /\ Cleaning(c)
         /\ ~AfterFiles(c) /\ ~AfterAccept(c) /\ ~AfterRoute(c) /\ ~AfterInvites(c)
         /\ ~AfterQualify(c) /\ ~At(c, {"FILES", "WRITING"}) /\ ~At(c, {"WRITING"})
         /\ ~At(c, {"PAUSE"}) /\ ~At(c, {"NOTE"}) /\ ~At(c, {"PAUSE", "NOTE"})
  BY DEF At, Launching, Installing, Cleaning, AfterFiles, AfterAccept, AfterRoute,
     AfterInvites, AfterQualify

\* The types and what they give.
LEMMA DeviceFacts ==
  ASSUME DeviceInv
  PROVE  /\ command \in Commands /\ saved \in State /\ known \in State
         /\ coordinator \in Coordinators /\ files \in [Index -> {"NONE", "PART", "WHOLE"}]
         /\ up \subseteq 1..LastService /\ faults \in 0..MaxFaults
         /\ last \in {"NONE", "DONE", "FAILED", "UNSAVED", "BROKEN"}
         /\ known.invites \in 0..(RecipeStages + 1) /\ command.i \in 0..(LastService + 1)
         /\ saved.invites \in 0..(RecipeStages + 1)
         /\ LastService \in Nat /\ RecipeStages + 1 <= LastService + 1
  BY DeviceAssumption, DeviceTypesAre DEF DeviceInv, State, Commands, LastService

\* What a request of an installation may do to the coordinator, whoever hears of it.
Advances(k) ==
  /\ k \in Coordinators
  /\ coordinator.published \subseteq k.published /\ k.published \subseteq {saved.key}
  /\ coordinator.accepted => k.accepted
  /\ coordinator.qualified => k.qualified
  /\ \A i \in Index : k.invited[i] <= 1
  /\ \A i \in Index : coordinator.invited[i] = 1 => k.invited[i] = 1

LEMMA NothingAdvances == DeviceInv => Advances(coordinator)
  BY DeviceFacts DEF DeviceInv, CopiesAgree, DoneSoFar, Advances

\* A failure of an installation goes to its clean-up, one of a start to the end; and
\* neither says that anything has been done.
LEMMA FailsKeeps ==
  ASSUME DeviceInv, Fails, UNCHANGED saved, Advances(coordinator'),
         Installing(command) \/ Launching(command),
         up' \subseteq 1..LastService, files' \in [Index -> {"NONE", "PART", "WHOLE"}],
         \A j \in Index : files[j] = "WHOLE" => files'[j] = "WHOLE",
         faults' \in 0..MaxFaults
  PROVE  DeviceInv'
<1>1. DeviceTypeOK
  BY DEF DeviceInv
<1>2. command \in Commands
  BY <1>1, DeviceTypesAre
<1>3. CASE known.key = 0 \/ known.enabled
  <2>1. command' = Idle /\ known' = Absent /\ last' = "FAILED"
    BY <1>2, <1>3, FailsIs
  <2>2. DeviceTypeOK'
    BY <1>1, <2>1, IdleIs DEF DeviceTypeOK, Commands, Places, Advances, Coordinators
  <2>3. saved.enabled
    <3>1. ~Installing(command)
      BY <1>3 DEF DeviceInv, CopiesAgree
    <3> QED
      BY <1>2, <3>1, PlacesAre DEF DeviceInv, CopiesAgree
  <2>4. DoneBy(saved)' /\ DoneBy(known)'
    BY <2>1, IdleIs DEF DeviceInv, DoneSoFar, DoneBy, Index, Advances
  <2>5. CopiesAgree'
    BY <2>1, IdleHasNothing, IdleIs DEF DeviceInv, CopiesAgree, Advances
  <2>6. DoneSoFar'
    BY <2>1, <2>4, IdleHasNothing, IdleIs DEF DoneSoFar, Advances
  <2>7. CleanedSoFar'
    BY <2>1, IdleHasNothing DEF CleanedSoFar
  <2>8. EnabledIsComplete'
    BY <1>1, <2>2 DEF DeviceInv, EnabledIsComplete, Advances
  <2>9. FailedLeavesNothing'
    BY <2>3 DEF FailedLeavesNothing
  <2> QED
    BY <2>2, <2>5, <2>6, <2>7, <2>8, <2>9 DEF DeviceInv
<1>4. CASE ~(known.key = 0 \/ known.enabled)
  <2>1. /\ command' \in Commands /\ command'.at = "CLEAN" /\ command'.i = 0
        /\ command'.installing = command.installing /\ UNCHANGED <<known, last>>
    BY <1>2, <1>4, FailsIs
  <2>2. DeviceTypeOK'
    BY <1>1, <2>1 DEF DeviceTypeOK, Commands, Places, Advances, Coordinators
  <2>3. At(command', {"CLEAN"})
    BY <2>1 DEF At
  <2>4. ~saved.enabled /\ known.key = saved.key /\ saved.invites <= known.invites
        /\ (saved.route => known.route)
    <3>1. CASE Installing(command)
      BY <3>1 DEF DeviceInv, CopiesAgree
    <3>2. CASE Launching(command) /\ ~command.installing
      <4>1. known \in {Absent, saved} /\ saved.enabled
        BY <3>2 DEF DeviceInv, CopiesAgree
      <4> QED
        BY <1>4, <4>1, IdleIs
    <3> QED
      BY <1>2, <3>1, <3>2, PlacesAre
  <2>5. CopiesAgree'
    BY <1>4, <2>1, <2>3, <2>4, CleaningHasNothing DEF DeviceInv, CopiesAgree, Advances
  <2>6. DoneSoFar'
    BY <2>1, <2>3, CleaningHasNothing DEF DeviceInv, DoneSoFar, DoneBy, Advances
  <2>7. CleanedSoFar'
    BY <2>3, CleaningHasNothing DEF CleanedSoFar
  <2>8. EnabledIsComplete'
    BY <2>4 DEF EnabledIsComplete
  <2>9. FailedLeavesNothing'
    BY <2>1 DEF FailedLeavesNothing
  <2> QED
    BY <2>2, <2>5, <2>6, <2>7, <2>8, <2>9 DEF DeviceInv
<1> QED
  BY <1>3, <1>4

\* A step that goes on in an installation: whatever it has come after is done.  The
\* file stays, or is written with what the command knows.
LEMMA GoesOnKeeps ==
  ASSUME DeviceInv, Installing(command), saved' \in {saved, known},
         last' \in {"NONE", "DONE", "FAILED", "UNSAVED", "BROKEN"},
         up' \subseteq 1..LastService,
         command' \in Commands, Installing(command'),
         command'.installing => At(command', {"LAUNCH", "UNDO", "WAIT", "ENABLE"}),
         known' \in State, known'.key = known.key, ~known'.enabled,
         known.invites <= known'.invites, known.route => known'.route,
         Advances(coordinator'),
         \A i \in Index : i < known'.invites => coordinator'.invited[i] = 1,
         known'.route => known'.key \in coordinator'.published,
         AfterInvites(command') => known'.invites = RecipeStages + 1,
         AfterRoute(command') => known'.route,
         AfterAccept(command') => coordinator'.accepted,
         AfterQualify(command') => coordinator'.qualified,
         files' \in [Index -> {"NONE", "PART", "WHOLE"}],
         At(command', {"FILES", "WRITING"}) =>
           \A j \in Index : j < command'.i => files'[j] = "WHOLE",
         At(command', {"WRITING"}) => command'.i \in Index,
         AfterFiles(command') => \A j \in Index : files'[j] = "WHOLE",
         command'.at = "LAUNCH" => command'.i > 0, faults' \in 0..MaxFaults
  PROVE  DeviceInv'
<1>1. DeviceTypeOK'
  BY DeviceFacts DEF DeviceTypeOK, Commands, Places, Coordinators, Advances
<1>2. /\ ~saved.enabled /\ known.key # 0 /\ known.key = saved.key /\ ~known.enabled
      /\ ~saved'.enabled /\ saved'.key = saved.key
  BY DEF DeviceInv, CopiesAgree
<1>3. ~Cleaning(command') /\ ~At(command', {"IDLE"})
      /\ ~At(command', {"PAUSE", "NOTE"}) /\ ~At(command', {"PAUSE"}) /\ ~At(command', {"NOTE"})
  BY DEF Installing, Cleaning, At, AfterInvites, AfterRoute, AfterAccept, AfterFiles, Launching
<1>4. CopiesAgree'
  <2>1. saved.invites <= known.invites /\ (saved.route => known.route)
    BY DEF DeviceInv, CopiesAgree
  <2>2. saved'.invites <= known'.invites /\ (saved'.route => known'.route)
    <3>1. saved.invites \in Nat /\ known.invites \in Nat /\ known'.invites \in Nat
      BY DeviceAssumption, DeviceFacts DEF State
    <3>2. CASE saved' = saved
      BY <2>1, <3>1, <3>2
    <3>3. CASE saved' = known
      BY <3>3
    <3> QED
      BY <3>2, <3>3
  <2>3. Launching(command') => command'.installing
    BY DEF Installing, At, AfterInvites, AfterRoute, AfterAccept, AfterFiles, Launching
  <2>4. command'.installing => Launching(command') \/ At(command', {"WAIT", "ENABLE"})
    BY DEF Launching, At
  <2>5. coordinator'.published \subseteq {saved'.key}
    BY <1>2 DEF Advances
  <2> QED
    BY <1>2, <1>3, <2>2, <2>3, <2>4, <2>5 DEF CopiesAgree
<1>5. DoneSoFar'
  <2>1. DoneBy(saved)'
    <3>1. DoneBy(saved) /\ DoneBy(known)
      BY DEF DeviceInv, DoneSoFar
    <3>2. CASE saved' = saved
      BY <3>1, <3>2 DEF DoneBy, Advances
    <3>3. CASE saved' = known
      BY <3>1, <3>3 DEF DoneBy, Advances
    <3> QED
      BY <3>2, <3>3
  <2>2. DoneBy(known)'
    BY DEF DoneBy
  <2> QED
    BY <2>1, <2>2 DEF DoneSoFar, Advances
<1>6. EnabledIsComplete'
  BY <1>2 DEF EnabledIsComplete
<1>7. CleanedSoFar'
  BY <1>3 DEF CleanedSoFar
<1>8. FailedLeavesNothing'
  BY <1>3 DEF FailedLeavesNothing, At
<1> QED
  BY <1>1, <1>4, <1>5, <1>6, <1>7, <1>8 DEF DeviceInv

\* A place of a command, and the kinds of place it is of.
LEMMA AnInstallationIsAt ==
  ASSUME NEW c \in Commands,
         c.at \in {"FIRST", "ROOM", "INVITE", "KEEP", "ROUTE", "KEEP_ROUTE", "ACCEPT", "FILES",
                   "WRITING", "QUALIFY", "NODES", "STARTING", "WAIT", "ENABLE"}
  PROVE  Installing(c) /\ ~Launching(c)
  BY DEF Installing, At, AfterInvites, AfterRoute, AfterAccept, AfterFiles, Launching

LEMMA StopsFirstKeeps == DeviceInv /\ stopsFirst => DeviceInv'
<1> SUFFICES ASSUME DeviceInv, stopsFirst PROVE DeviceInv'
  OBVIOUS
<1>1. Installing(command) /\ ~command.installing
  BY DeviceFacts, AnInstallationIsAt
     DEF stopsFirst, DeviceInv, CopiesAgree, Launching, At, Cleaning
<1>2. Advances(coordinator') /\ files' \in [Index -> {"NONE", "PART", "WHOLE"}]
  BY NothingAdvances, DeviceFacts DEF stopsFirst, Advances
<1>3. CASE StopsAll /\ Turns("ROOM", 0) /\ UNCHANGED <<known, last>>
  <2>1. command' \in Commands /\ command'.at = "ROOM" /\ ~command'.installing
    BY <1>1, <1>3, DeviceFacts, TurnsIs DEF Places
  <2>2. Installing(command') /\ ~AfterInvites(command') /\ ~AfterRoute(command')
        /\ ~AfterAccept(command') /\ ~AfterFiles(command') /\ ~AfterQualify(command')
        /\ ~At(command', {"FILES", "WRITING"}) /\ ~At(command', {"WRITING"})
    BY <2>1 DEF Installing, At, AfterInvites, AfterRoute, AfterAccept, AfterFiles,
       Launching, AfterQualify
  <2> QED
    BY <1>1, <1>2, <1>3, <2>1, <2>2, DeviceFacts, GoesOnKeeps
       DEF stopsFirst, StopsAll, NoFault, DeviceInv, CopiesAgree, DoneSoFar, DoneBy
<1>4. CASE StopFails /\ Fails
  <2>1. up' \subseteq 1..LastService /\ faults' \in 0..MaxFaults
    BY <1>4, DeviceFacts, DeviceAssumption DEF StopFails, Fault
  <2> QED
    BY <1>1, <1>2, <1>4, <2>1, FailsKeeps DEF stopsFirst
<1> QED
  BY <1>3, <1>4 DEF stopsFirst

\* What a command that is at one of these places has, and what a fault leaves.
LEMMA InstallationHas ==
  ASSUME DeviceInv, Installing(command)
  PROVE  /\ known.key # 0 /\ known.key = saved.key /\ ~known.enabled
         /\ \A i \in Index : i < known.invites => coordinator.invited[i] = 1
         /\ known.route => known.key \in coordinator.published
         /\ \A i \in Index : coordinator.invited[i] <= 1
         /\ known.invites \in Nat /\ known \in State
         /\ ~Launching(command) /\ command.at \notin {"WAIT", "ENABLE"} => ~command.installing
  BY DeviceFacts, DeviceAssumption, PlacesAre
     DEF DeviceInv, CopiesAgree, DoneSoFar, DoneBy, At

LEMMA FaultIs == DeviceInv /\ (Fault \/ NoFault) => faults' \in 0..MaxFaults
  BY DeviceFacts, DeviceAssumption DEF Fault, NoFault

LEMMA FindsRoomKeeps == DeviceInv /\ findsRoom => DeviceInv'
<1> SUFFICES ASSUME DeviceInv, findsRoom PROVE DeviceInv'
  OBVIOUS
<1>1. Installing(command) /\ ~Launching(command) /\ ~command.installing
  BY DeviceFacts, AnInstallationIsAt, InstallationHas DEF findsRoom
<1>2. Advances(coordinator') /\ faults' \in 0..MaxFaults
  BY NothingAdvances, FaultIs DEF findsRoom, Advances
<1>3. CASE Turns("INVITE", 0) /\ NoFault /\ UNCHANGED <<known, last>>
  <2>1. command' \in Commands /\ command'.at = "INVITE" /\ ~command'.installing
    BY <1>1, <1>3, DeviceFacts, TurnsIs DEF Places
  <2>2. Installing(command') /\ ~AfterInvites(command') /\ ~AfterRoute(command')
        /\ ~AfterAccept(command') /\ ~AfterFiles(command') /\ ~AfterQualify(command')
        /\ ~At(command', {"FILES", "WRITING"}) /\ ~At(command', {"WRITING"})
    BY <2>1 DEF Installing, At, AfterInvites, AfterRoute, AfterAccept, AfterFiles,
       Launching, AfterQualify
  <2> QED
    BY <1>1, <1>2, <1>3, <2>1, <2>2, DeviceFacts, InstallationHas, GoesOnKeeps DEF findsRoom
<1>4. CASE Fault /\ Fails
  BY <1>1, <1>2, <1>4, DeviceFacts, FailsKeeps DEF findsRoom
<1> QED
  BY <1>3, <1>4 DEF findsRoom

LEMMA InvitesKeeps == DeviceInv /\ invites => DeviceInv'
<1> SUFFICES ASSUME DeviceInv, invites PROVE DeviceInv'
  OBVIOUS
<1>1. Installing(command) /\ ~Launching(command) /\ ~command.installing
  BY DeviceFacts, AnInstallationIsAt, InstallationHas DEF invites
<1>2. UNCHANGED <<saved, files, up>>
  BY DEF invites
<1>3. CASE NextInvite > RecipeStages
  <2>1. Turns("ROUTE", 0) /\ NoFault /\ UNCHANGED <<coordinator, known, last>>
    BY <1>3 DEF invites
  <2>2. command' \in Commands /\ command'.at = "ROUTE" /\ ~command'.installing
    BY <1>1, <2>1, DeviceFacts, TurnsIs DEF Places
  <2>3. Installing(command') /\ ~AfterRoute(command')
        /\ ~AfterAccept(command') /\ ~AfterFiles(command') /\ ~AfterQualify(command')
        /\ ~At(command', {"FILES", "WRITING"}) /\ ~At(command', {"WRITING"})
    BY <2>2 DEF Installing, At, AfterInvites, AfterRoute, AfterAccept, AfterFiles,
       Launching, AfterQualify
  <2>4. known.invites = RecipeStages + 1
    BY <1>3, DeviceFacts, DeviceAssumption DEF NextInvite
  <2>5. Advances(coordinator') /\ faults' \in 0..MaxFaults
    BY <2>1, NothingAdvances, FaultIs DEF Advances
  <2> QED
    BY <1>1, <1>2, <2>1, <2>2, <2>3, <2>4, <2>5, DeviceFacts, InstallationHas, GoesOnKeeps
<1>4. CASE ~(NextInvite > RecipeStages) /\ Taken(NextInvite)
  <2>1. Fails /\ NoFault /\ UNCHANGED coordinator
    BY <1>4 DEF invites
  <2> QED
    BY <1>1, <1>2, <2>1, NothingAdvances, FaultIs, DeviceFacts, FailsKeeps DEF Advances
<1>5. CASE ~(NextInvite > RecipeStages) /\ ~Taken(NextInvite)
  <2> DEFINE effect == [coordinator EXCEPT !.invited[NextInvite] = @ + 1]
  <2>1. Calls(effect, [known EXCEPT !.invites = NextInvite + 1], "KEEP", NextInvite + 1)
    BY <1>5 DEF invites
  <2>2. NextInvite = known.invites /\ NextInvite \in Index
    BY <1>5, DeviceFacts, DeviceAssumption DEF NextInvite, Index
  <2>3. coordinator.invited \in [Index -> Nat] /\ coordinator.invited[NextInvite] = 0
    BY <1>5, <2>2, DeviceFacts DEF Taken, Coordinators
  <2>4. Advances(effect) /\ effect.invited[NextInvite] = 1
        /\ effect.published = coordinator.published
    BY <2>2, <2>3, NothingAdvances DEF Advances, Coordinators
  <2>5. CASE coordinator' = effect /\ known' = [known EXCEPT !.invites = NextInvite + 1]
             /\ Turns("KEEP", NextInvite + 1) /\ NoFault /\ UNCHANGED last
    <3>1. NextInvite + 1 \in 0..(LastService + 1) /\ NextInvite + 1 \in 0..(RecipeStages + 1)
      BY <2>2, DeviceFacts, DeviceAssumption DEF Index
    <3>2. command' \in Commands /\ command'.at = "KEEP" /\ ~command'.installing
      BY <1>1, <2>5, <3>1, DeviceFacts, TurnsIs DEF Places
    <3>3. Installing(command') /\ ~AfterInvites(command') /\ ~AfterRoute(command')
          /\ ~AfterAccept(command') /\ ~AfterFiles(command') /\ ~AfterQualify(command')
          /\ ~At(command', {"FILES", "WRITING"}) /\ ~At(command', {"WRITING"})
      BY <3>2 DEF Installing, At, AfterInvites, AfterRoute, AfterAccept, AfterFiles,
         Launching, AfterQualify
    <3>4. known' \in State /\ known'.key = known.key /\ ~known'.enabled
          /\ known'.invites = NextInvite + 1 /\ known'.route = known.route
      BY <2>5, <3>1, InstallationHas, <1>1 DEF State
    <3>5. known.invites <= known'.invites
      BY <2>2, <3>4, <1>1, InstallationHas
    <3>6. \A i \in Index : i < known'.invites => coordinator'.invited[i] = 1
      <4>1. \A i \in Index : i < NextInvite + 1 => i < known.invites \/ i = NextInvite
        BY <2>2, DeviceAssumption DEF Index
      <4> QED
        BY <1>1, <2>3, <2>4, <2>5, <3>4, <4>1, InstallationHas DEF Advances
    <3>7. known'.route => known'.key \in coordinator'.published
      BY <1>1, <2>4, <2>5, <3>4, InstallationHas
    <3>8. faults' \in 0..MaxFaults /\ Advances(coordinator')
      BY <2>4, <2>5, FaultIs
    <3> HIDE DEF effect
    <3> QED
      BY <1>1, <1>2, <2>5, <3>2, <3>3, <3>4, <3>5, <3>6, <3>7, <3>8, DeviceFacts, GoesOnKeeps
  <2>6. CASE Fault /\ coordinator' \in {effect, coordinator} /\ Fails
    <3>1. Advances(coordinator') /\ faults' \in 0..MaxFaults
      BY <2>4, <2>6, NothingAdvances, FaultIs
    <3> QED
      BY <1>1, <1>2, <2>6, <3>1, DeviceFacts, FailsKeeps
  <2> QED
    BY <2>1, <2>5, <2>6 DEF Calls
<1> QED
  BY <1>3, <1>4, <1>5

\* A request that is not answered, done or not.
LEMMA LostCallKeeps ==
  ASSUME DeviceInv, Installing(command), UNCHANGED <<saved, files, up>>,
         NEW effect, Advances(effect), Fault, coordinator' \in {effect, coordinator}, Fails
  PROVE  DeviceInv'
<1>1. Advances(coordinator') /\ faults' \in 0..MaxFaults
  BY NothingAdvances, FaultIs
<1> QED
  BY <1>1, DeviceFacts, FailsKeeps

LEMMA KeepsKeeps == DeviceInv /\ keeps => DeviceInv'
<1> SUFFICES ASSUME DeviceInv, keeps PROVE DeviceInv'
  OBVIOUS
<1>1. Installing(command) /\ ~Launching(command) /\ ~command.installing
  BY DeviceFacts, AnInstallationIsAt, InstallationHas DEF keeps
<1>2. UNCHANGED <<coordinator, files, up>> /\ Advances(coordinator')
  BY NothingAdvances DEF keeps, Advances
<1> DEFINE to == IF command.at = "KEEP" THEN "INVITE" ELSE "ACCEPT"
<1>3. CASE saved' = known /\ Turns(to, command.i) /\ NoFault /\ UNCHANGED <<known, last>>
  <2>1. command' \in Commands /\ command'.at = to /\ ~command'.installing
    BY <1>1, <1>3, DeviceFacts, TurnsIs DEF Places
  <2>2. /\ Installing(command')
        /\ ~AfterAccept(command') /\ ~AfterFiles(command') /\ ~AfterQualify(command')
        /\ ~At(command', {"FILES", "WRITING"}) /\ ~At(command', {"WRITING"})
        /\ AfterInvites(command') => command.at = "KEEP_ROUTE"
        /\ AfterRoute(command') => command.at = "KEEP_ROUTE"
        /\ command'.at # "LAUNCH"
    BY <2>1 DEF Installing, At, AfterInvites, AfterRoute, AfterAccept, AfterFiles,
       Launching, AfterQualify, keeps
  <2>3. command.at = "KEEP_ROUTE" => known.invites = RecipeStages + 1 /\ known.route
    BY DEF DeviceInv, DoneSoFar, AfterInvites, AfterRoute, At
  <2>4. faults' \in 0..MaxFaults
    BY <1>3, FaultIs
  <2> HIDE DEF to
  <2> QED
    BY <1>1, <1>2, <1>3, <2>1, <2>2, <2>3, <2>4, DeviceFacts, InstallationHas, GoesOnKeeps
<1>4. CASE Fault /\ UNCHANGED saved /\ Fails
  BY <1>1, <1>2, <1>4, DeviceFacts, FaultIs, FailsKeeps
<1> QED
  BY <1>3, <1>4 DEF keeps, WritesState

LEMMA PublishesKeeps == DeviceInv /\ publishes => DeviceInv'
<1> SUFFICES ASSUME DeviceInv, publishes PROVE DeviceInv'
  OBVIOUS
<1>1. Installing(command) /\ ~Launching(command) /\ ~command.installing
  BY DeviceFacts, AnInstallationIsAt, InstallationHas DEF publishes
<1>2. UNCHANGED <<saved, files, up>> /\ known.invites = RecipeStages + 1
  BY DEF publishes, DeviceInv, DoneSoFar, AfterInvites, At
<1>3. ASSUME NEW c \in Commands, c.at \in {"ACCEPT", "KEEP_ROUTE"}
      PROVE  Installing(c) /\ ~AfterAccept(c) /\ ~AfterFiles(c) /\ ~AfterQualify(c)
             /\ ~At(c, {"FILES", "WRITING"}) /\ ~At(c, {"WRITING"})
  BY <1>3 DEF Installing, At, AfterInvites, AfterRoute, AfterAccept, AfterFiles,
     Launching, AfterQualify
<1>4. CASE known.route
  <2>1. Turns("ACCEPT", 0) /\ NoFault /\ UNCHANGED <<coordinator, known, last>>
    BY <1>4 DEF publishes
  <2>2. command' \in Commands /\ command'.at = "ACCEPT" /\ ~command'.installing
    BY <1>1, <2>1, DeviceFacts, TurnsIs DEF Places
  <2>3. Advances(coordinator') /\ faults' \in 0..MaxFaults
    BY <2>1, NothingAdvances, FaultIs DEF Advances
  <2> QED
    BY <1>1, <1>2, <1>3, <1>4, <2>1, <2>2, <2>3, DeviceFacts, InstallationHas, GoesOnKeeps
<1>5. CASE ~known.route
  <2> DEFINE effect == [coordinator EXCEPT !.published = @ \cup {known.key}]
  <2>1. Calls(effect, [known EXCEPT !.route = TRUE], "KEEP_ROUTE", 0)
    BY <1>5 DEF publishes
  <2>2. known.key \in 1..2 /\ known.key = saved.key
    BY <1>1, DeviceFacts, InstallationHas DEF State
  <2>3. Advances(effect) /\ effect.published = coordinator.published \cup {known.key}
        /\ effect.invited = coordinator.invited
    BY <2>2, NothingAdvances DEF Advances, Coordinators
  <2>4. CASE coordinator' = effect /\ known' = [known EXCEPT !.route = TRUE]
             /\ Turns("KEEP_ROUTE", 0) /\ NoFault /\ UNCHANGED last
    <3>1. command' \in Commands /\ command'.at = "KEEP_ROUTE" /\ ~command'.installing
      BY <1>1, <2>4, DeviceFacts, TurnsIs DEF Places
    <3>2. known' \in State /\ known'.key = known.key /\ ~known'.enabled
          /\ known'.invites = known.invites /\ known'.route
      BY <2>4, InstallationHas, <1>1 DEF State
    <3>3. faults' \in 0..MaxFaults /\ Advances(coordinator')
      BY <2>3, <2>4, FaultIs
    <3> HIDE DEF effect
    <3> QED
      BY <1>1, <1>2, <1>3, <2>3, <2>4, <3>1, <3>2, <3>3, DeviceFacts, InstallationHas,
         GoesOnKeeps
  <2>5. CASE Fault /\ coordinator' \in {effect, coordinator} /\ Fails
    BY <1>1, <1>2, <2>3, <2>5, LostCallKeeps
  <2> QED
    BY <2>1, <2>4, <2>5 DEF Calls
<1> QED
  BY <1>4, <1>5

LEMMA AcceptsRouteKeeps == DeviceInv /\ acceptsRoute => DeviceInv'
<1> SUFFICES ASSUME DeviceInv, acceptsRoute PROVE DeviceInv'
  OBVIOUS
<1>1. Installing(command) /\ ~Launching(command) /\ ~command.installing
  BY DeviceFacts, AnInstallationIsAt, InstallationHas DEF acceptsRoute
<1>2. UNCHANGED <<saved, files, up>> /\ known.invites = RecipeStages + 1 /\ known.route
  BY DEF acceptsRoute, DeviceInv, DoneSoFar, AfterInvites, AfterRoute, At
<1> DEFINE effect == [coordinator EXCEPT !.accepted = TRUE]
<1>3. Calls(effect, known, "FILES", 0)
  BY DEF acceptsRoute
<1>4. Advances(effect) /\ effect.accepted /\ effect.published = coordinator.published
      /\ effect.invited = coordinator.invited
  BY NothingAdvances DEF Advances, Coordinators
<1>5. CASE coordinator' = effect /\ known' = known
           /\ Turns("FILES", 0) /\ NoFault /\ UNCHANGED last
  <2>1. command' \in Commands /\ command'.at = "FILES" /\ command'.i = 0 /\ ~command'.installing
    BY <1>1, <1>5, DeviceFacts, TurnsIs DEF Places
  <2>2. /\ Installing(command') /\ ~AfterFiles(command') /\ ~AfterQualify(command')
        /\ ~At(command', {"WRITING"})
        /\ \A j \in Index : ~(j < command'.i)
    BY <2>1, DeviceAssumption
       DEF Installing, At, AfterInvites, AfterRoute, AfterAccept, AfterFiles,
       Launching, AfterQualify, Index
  <2>3. faults' \in 0..MaxFaults /\ Advances(coordinator')
    BY <1>4, <1>5, FaultIs
  <2> HIDE DEF effect
  <2> QED
    BY <1>1, <1>2, <1>4, <1>5, <2>1, <2>2, <2>3, DeviceFacts, InstallationHas, GoesOnKeeps
<1>6. CASE Fault /\ coordinator' \in {effect, coordinator} /\ Fails
  BY <1>1, <1>2, <1>4, <1>6, LostCallKeeps
<1> QED
  BY <1>3, <1>5, <1>6 DEF Calls

\* From the acceptance on, every node is invited and the route recorded.
LEMMA AfterAcceptHas ==
  ASSUME DeviceInv, AfterAccept(command)
  PROVE  /\ known.invites = RecipeStages + 1 /\ known.route /\ coordinator.accepted
         /\ AfterFiles(command) => \A j \in Index : files[j] = "WHOLE"
         /\ AfterQualify(command) => coordinator.qualified
  BY DeviceFacts, PlacesAre DEF DeviceInv, DoneSoFar

LEMMA WritesFileKeeps == DeviceInv /\ writesFile => DeviceInv'
<1> SUFFICES ASSUME DeviceInv, writesFile PROVE DeviceInv'
  OBVIOUS
<1>1. Installing(command) /\ ~Launching(command) /\ ~command.installing
  BY DeviceFacts, AnInstallationIsAt, InstallationHas DEF writesFile
<1>2. /\ UNCHANGED <<saved, coordinator, up>> /\ faults' \in 0..MaxFaults
      /\ Advances(coordinator')
  BY FaultIs, NothingAdvances DEF writesFile, Advances
<1>3. /\ known.invites = RecipeStages + 1 /\ known.route /\ coordinator.accepted
      /\ \A j \in Index : j < command.i => files[j] = "WHOLE"
  BY AfterAcceptHas DEF writesFile, AfterAccept, At, DeviceInv, DoneSoFar
<1>4. CASE command.i > RecipeStages
  <2>1. Turns("QUALIFY", 0) /\ UNCHANGED <<files, known, last>>
    BY <1>4 DEF writesFile
  <2>2. command' \in Commands /\ command'.at = "QUALIFY" /\ ~command'.installing
    BY <1>1, <2>1, DeviceFacts, TurnsIs DEF Places
  <2>3. /\ Installing(command') /\ ~AfterQualify(command')
        /\ ~At(command', {"FILES", "WRITING"}) /\ ~At(command', {"WRITING"})
    BY <2>2 DEF Installing, At, AfterInvites, AfterRoute, AfterAccept, AfterFiles,
       Launching, AfterQualify
  <2>4. \A j \in Index : files'[j] = "WHOLE"
    BY <1>3, <1>4, <2>1, DeviceFacts, DeviceAssumption DEF Index
  <2> QED
    BY <1>1, <1>2, <1>3, <2>1, <2>2, <2>3, <2>4, DeviceFacts, InstallationHas, GoesOnKeeps
<1>5. CASE ~(command.i > RecipeStages)
  <2>1. command.i \in Index /\ command.i + 1 \in 0..(LastService + 1)
    BY <1>5, DeviceFacts, DeviceAssumption DEF Index
  <2>2. ASSUME NEW c \in Commands, c.at \in {"FILES", "WRITING"}
        PROVE  Installing(c) /\ ~AfterFiles(c) /\ ~AfterQualify(c)
               /\ (c.at = "FILES" => ~At(c, {"WRITING"}))
    BY <2>2 DEF Installing, At, AfterInvites, AfterRoute, AfterAccept, AfterFiles,
       Launching, AfterQualify
  <2>3. CASE files[command.i] = "NONE"
    <3>1. /\ files' = [files EXCEPT ![command.i] = "PART"]
          /\ Turns("WRITING", command.i) /\ UNCHANGED <<known, last>>
      BY <1>5, <2>3 DEF writesFile
    <3>2. /\ command' \in Commands /\ command'.at = "WRITING" /\ command'.i = command.i
          /\ ~command'.installing
      BY <1>1, <3>1, DeviceFacts, TurnsIs DEF Places
    <3>3. /\ files' \in [Index -> {"NONE", "PART", "WHOLE"}]
          /\ \A j \in Index : j < command'.i => files'[j] = "WHOLE"
      BY <1>3, <2>1, <3>1, <3>2, DeviceFacts, DeviceAssumption DEF Index
    <3> QED
      BY <1>1, <1>2, <1>3, <2>1, <2>2, <3>1, <3>2, <3>3, DeviceFacts, InstallationHas,
         GoesOnKeeps
  <2>4. CASE files[command.i] # "NONE" /\ Matches(command.i)
    <3>1. Turns("FILES", command.i + 1) /\ UNCHANGED <<files, known, last>>
      BY <1>5, <2>4 DEF writesFile
    <3>2. /\ command' \in Commands /\ command'.at = "FILES" /\ command'.i = command.i + 1
          /\ ~command'.installing
      BY <1>1, <2>1, <3>1, DeviceFacts, TurnsIs DEF Places
    <3>3. \A j \in Index : j < command'.i => j < command.i \/ j = command.i
      BY <2>1, <3>2, DeviceAssumption DEF Index
    <3>4. \A j \in Index : j < command'.i => files'[j] = "WHOLE"
      BY <1>3, <2>4, <3>1, <3>3 DEF Matches
    <3> QED
      BY <1>1, <1>2, <1>3, <2>2, <3>1, <3>2, <3>4, DeviceFacts, InstallationHas, GoesOnKeeps
  <2>5. CASE files[command.i] # "NONE" /\ ~Matches(command.i)
    <3>1. Fails /\ UNCHANGED files
      BY <1>5, <2>5 DEF writesFile
    <3> QED
      BY <1>1, <1>2, <3>1, DeviceFacts, FailsKeeps
  <2> QED
    BY <2>3, <2>4, <2>5
<1> QED
  BY <1>4, <1>5

LEMMA FileWrittenKeeps == DeviceInv /\ fileWritten => DeviceInv'
<1> SUFFICES ASSUME DeviceInv, fileWritten PROVE DeviceInv'
  OBVIOUS
<1>1. Installing(command) /\ ~Launching(command) /\ ~command.installing
  BY DeviceFacts, AnInstallationIsAt, InstallationHas DEF fileWritten
<1>2. /\ UNCHANGED <<saved, coordinator, up>> /\ faults' \in 0..MaxFaults
      /\ Advances(coordinator')
  BY FaultIs, NothingAdvances DEF fileWritten, Advances
<1>3. /\ known.invites = RecipeStages + 1 /\ known.route /\ coordinator.accepted
      /\ \A j \in Index : j < command.i => files[j] = "WHOLE"
      /\ command.i \in Index
  BY AfterAcceptHas DEF fileWritten, AfterAccept, At, DeviceInv, DoneSoFar
<1>4. CASE /\ files' = [files EXCEPT ![command.i] = "WHOLE"]
           /\ Turns("FILES", command.i + 1) /\ NoFault /\ UNCHANGED <<known, last>>
  <2>1. command.i + 1 \in 0..(LastService + 1)
    BY <1>3, DeviceFacts, DeviceAssumption DEF Index
  <2>2. /\ command' \in Commands /\ command'.at = "FILES" /\ command'.i = command.i + 1
        /\ ~command'.installing
    BY <1>1, <1>4, <2>1, DeviceFacts, TurnsIs DEF Places
  <2>3. /\ Installing(command') /\ ~AfterFiles(command') /\ ~AfterQualify(command')
        /\ ~At(command', {"WRITING"})
    BY <2>2 DEF Installing, At, AfterInvites, AfterRoute, AfterAccept, AfterFiles,
       Launching, AfterQualify
  <2>4. \A j \in Index : j < command'.i => j < command.i \/ j = command.i
    BY <1>3, <2>2, DeviceAssumption DEF Index
  <2>5. /\ files' \in [Index -> {"NONE", "PART", "WHOLE"}]
        /\ \A j \in Index : j < command'.i => files'[j] = "WHOLE"
    BY <1>3, <1>4, <2>4, DeviceFacts
  <2> QED
    BY <1>1, <1>2, <1>3, <1>4, <2>2, <2>3, <2>5, DeviceFacts, InstallationHas, GoesOnKeeps
<1>5. CASE Fault /\ Fails /\ UNCHANGED files
  BY <1>1, <1>2, <1>5, DeviceFacts, FailsKeeps
<1> QED
  BY <1>4, <1>5 DEF fileWritten

LEMMA QualifiesRouteKeeps == DeviceInv /\ qualifiesRoute => DeviceInv'
<1> SUFFICES ASSUME DeviceInv, qualifiesRoute PROVE DeviceInv'
  OBVIOUS
<1>1. Installing(command) /\ ~Launching(command) /\ ~command.installing
  BY DeviceFacts, AnInstallationIsAt, InstallationHas DEF qualifiesRoute
<1>2. /\ UNCHANGED <<saved, files, up>>
      /\ known.invites = RecipeStages + 1 /\ known.route /\ coordinator.accepted
      /\ \A j \in Index : files[j] = "WHOLE"
  BY AfterAcceptHas DEF qualifiesRoute, AfterAccept, AfterFiles, At
<1> DEFINE effect == [coordinator EXCEPT !.qualified = coordinator.accepted]
<1>3. Calls(effect, known, "NODES", 0)
  BY DEF qualifiesRoute
<1>4. Advances(effect) /\ effect.accepted /\ effect.qualified
      /\ effect.published = coordinator.published /\ effect.invited = coordinator.invited
  BY <1>2, NothingAdvances DEF Advances, Coordinators
<1>5. CASE coordinator' = effect /\ known' = known
           /\ Turns("NODES", 0) /\ NoFault /\ UNCHANGED last
  <2>1. command' \in Commands /\ command'.at = "NODES" /\ ~command'.installing
    BY <1>1, <1>5, DeviceFacts, TurnsIs DEF Places
  <2>2. /\ Installing(command')
        /\ ~At(command', {"FILES", "WRITING"}) /\ ~At(command', {"WRITING"})
    BY <2>1 DEF Installing, At, AfterInvites, AfterRoute, AfterAccept, AfterFiles
  <2>3. faults' \in 0..MaxFaults /\ Advances(coordinator')
    BY <1>4, <1>5, FaultIs
  <2> HIDE DEF effect
  <2> QED
    BY <1>1, <1>2, <1>4, <1>5, <2>1, <2>2, <2>3, DeviceFacts, InstallationHas, GoesOnKeeps
<1>6. CASE Fault /\ coordinator' \in {effect, coordinator} /\ Fails
  BY <1>1, <1>2, <1>4, <1>6, LostCallKeeps
<1> QED
  BY <1>3, <1>5, <1>6 DEF Calls

LEMMA ReadiesKeeps == DeviceInv /\ readies => DeviceInv'
<1> SUFFICES ASSUME DeviceInv, readies PROVE DeviceInv'
  OBVIOUS
<1>1. Installing(command) /\ ~Launching(command) /\ ~command.installing
  BY DeviceFacts, AnInstallationIsAt, InstallationHas DEF readies
<1>2. /\ UNCHANGED <<saved, files, up>>
      /\ known.invites = RecipeStages + 1 /\ known.route /\ coordinator.accepted
      /\ coordinator.qualified /\ \A j \in Index : files[j] = "WHOLE"
  BY AfterAcceptHas DEF readies, AfterAccept, AfterFiles, AfterQualify, At
<1>3. ASSUME NEW c \in Commands, c.at \in {"NODES", "STARTING"}
      PROVE  Installing(c) /\ ~At(c, {"FILES", "WRITING"}) /\ ~At(c, {"WRITING"})
  BY <1>3 DEF Installing, At, AfterInvites, AfterRoute, AfterAccept, AfterFiles
<1>4. CASE command.i > RecipeStages
  <2>1. Turns("STARTING", 0) /\ NoFault /\ UNCHANGED <<coordinator, known, last>>
    BY <1>4 DEF readies
  <2>2. command' \in Commands /\ command'.at = "STARTING" /\ ~command'.installing
    BY <1>1, <2>1, DeviceFacts, TurnsIs DEF Places
  <2>3. Advances(coordinator') /\ faults' \in 0..MaxFaults
    BY <2>1, NothingAdvances, FaultIs DEF Advances
  <2> QED
    BY <1>1, <1>2, <1>3, <2>1, <2>2, <2>3, DeviceFacts, InstallationHas, GoesOnKeeps
<1>5. CASE ~(command.i > RecipeStages)
  <2> DEFINE effect == [coordinator EXCEPT !.desired[command.i] = "READY"]
  <2>1. Calls(effect, known, "NODES", command.i + 1)
    BY <1>5 DEF readies
  <2>2. command.i + 1 \in 0..(LastService + 1)
    BY <1>5, DeviceFacts, DeviceAssumption
  <2>3. Advances(effect) /\ effect.accepted /\ effect.qualified
        /\ effect.published = coordinator.published /\ effect.invited = coordinator.invited
    BY <1>2, NothingAdvances DEF Advances, Coordinators
  <2>4. CASE coordinator' = effect /\ known' = known
             /\ Turns("NODES", command.i + 1) /\ NoFault /\ UNCHANGED last
    <3>1. command' \in Commands /\ command'.at = "NODES" /\ ~command'.installing
      BY <1>1, <2>2, <2>4, DeviceFacts, TurnsIs DEF Places
    <3>2. faults' \in 0..MaxFaults /\ Advances(coordinator')
      BY <2>3, <2>4, FaultIs
    <3> HIDE DEF effect
    <3> QED
      BY <1>1, <1>2, <1>3, <2>3, <2>4, <3>1, <3>2, DeviceFacts, InstallationHas, GoesOnKeeps
  <2>5. CASE Fault /\ coordinator' \in {effect, coordinator} /\ Fails
    BY <1>1, <1>2, <2>3, <2>5, LostCallKeeps
  <2> QED
    BY <2>1, <2>4, <2>5 DEF Calls
<1> QED
  BY <1>4, <1>5

LEMMA SaysStartingKeeps == DeviceInv /\ saysStarting => DeviceInv'
<1> SUFFICES ASSUME DeviceInv, saysStarting PROVE DeviceInv'
  OBVIOUS
<1>1. Installing(command) /\ ~Launching(command) /\ ~command.installing
  BY DeviceFacts, AnInstallationIsAt, InstallationHas DEF saysStarting
<1>2. /\ UNCHANGED <<coordinator, files, up>>
      /\ known.invites = RecipeStages + 1 /\ known.route /\ coordinator.accepted
      /\ coordinator.qualified /\ \A j \in Index : files[j] = "WHOLE"
  BY AfterAcceptHas DEF saysStarting, AfterAccept, AfterFiles, AfterQualify, At
<1>3. Advances(coordinator') /\ faults' \in 0..MaxFaults
  BY <1>2, NothingAdvances, FaultIs DEF saysStarting, Advances
<1>4. CASE /\ saved' = known /\ NoFault /\ UNCHANGED <<known, last>>
           /\ command' = [command EXCEPT !.at = "LAUNCH", !.i = 1, !.installing = TRUE]
  <2>1. command' \in Commands /\ command'.at = "LAUNCH" /\ command'.i = 1
        /\ command'.installing
    <3>1. 1 \in 0..(LastService + 1) /\ "LAUNCH" \in Places
      BY DeviceFacts DEF Places
    <3> QED
      BY <1>4, <3>1, DeviceFacts DEF Commands
  <2>2. /\ Installing(command') /\ At(command', {"LAUNCH", "UNDO", "WAIT", "ENABLE"})
        /\ ~At(command', {"FILES", "WRITING"}) /\ ~At(command', {"WRITING"})
    BY <2>1 DEF Installing, At, AfterInvites, AfterRoute, AfterAccept, AfterFiles, Launching
  <2> QED
    BY <1>1, <1>2, <1>3, <1>4, <2>1, <2>2, DeviceFacts, InstallationHas, GoesOnKeeps
<1>5. CASE Fault /\ UNCHANGED saved /\ Fails
  BY <1>1, <1>2, <1>3, <1>5, DeviceFacts, FailsKeeps
<1> QED
  BY <1>4, <1>5 DEF saysStarting

\* A start of what is enabled changes nothing that is recorded.
LEMMA StartKeeps ==
  ASSUME DeviceInv, saved.enabled, UNCHANGED <<saved, coordinator, files>>,
         \/ command' = Idle /\ known' = Absent
         \/ /\ command' \in Commands /\ Launching(command') /\ ~command'.installing
            /\ known' \in {Absent, saved} /\ (command'.at = "LAUNCH" => command'.i > 0),
         up' \subseteq 1..LastService, faults' \in 0..MaxFaults,
         last' \in {"NONE", "DONE", "FAILED", "UNSAVED", "BROKEN"}
  PROVE  DeviceInv'
<1>1. known' \in {Absent, saved} /\ command' \in Commands
  BY IdleIs
<1>2. DeviceTypeOK'
  BY <1>1, DeviceFacts, IdleIs DEF DeviceTypeOK, Commands, Places, Coordinators
<1>3. /\ ~Installing(command') /\ ~Cleaning(command')
      /\ ~AfterFiles(command') /\ ~AfterAccept(command') /\ ~AfterRoute(command')
      /\ ~AfterInvites(command') /\ ~AfterQualify(command')
      /\ ~At(command', {"FILES", "WRITING"}) /\ ~At(command', {"WRITING"})
      /\ ~At(command', {"PAUSE"}) /\ ~At(command', {"NOTE"}) /\ ~At(command', {"PAUSE", "NOTE"})
  <2>1. CASE command' = Idle
    BY <2>1, IdleHasNothing
  <2>2. CASE Launching(command') /\ ~command'.installing
    BY <2>2 DEF At, Launching, Installing, Cleaning, AfterFiles, AfterAccept, AfterRoute,
       AfterInvites, AfterQualify
  <2> QED
    BY <2>1, <2>2
<1>4. /\ At(command', {"IDLE"}) => command' = Idle /\ known' = Absent
      /\ ~command'.installing
  BY IdleIs DEF At, Launching
<1>5. CopiesAgree'
  BY <1>1, <1>3, <1>4 DEF DeviceInv, CopiesAgree
<1>6. DoneSoFar'
  <2>1. DoneBy(saved)' /\ DoneBy(known)'
    BY <1>1, IdleIs DEF DeviceInv, DoneSoFar, DoneBy, Index
  <2> QED
    BY <1>3, <2>1, IdleIs DEF DeviceInv, DoneSoFar
<1>7. EnabledIsComplete' /\ CleanedSoFar' /\ FailedLeavesNothing'
  BY <1>3 DEF DeviceInv, EnabledIsComplete, CleanedSoFar, FailedLeavesNothing
<1> QED
  BY <1>2, <1>5, <1>6, <1>7 DEF DeviceInv

LEMMA LaunchesNextKeeps == DeviceInv /\ launchesNext => DeviceInv'
<1> SUFFICES ASSUME DeviceInv, launchesNext PROVE DeviceInv'
  OBVIOUS
<1>1. /\ Launching(command) /\ UNCHANGED <<saved, coordinator, files>>
      /\ Advances(coordinator') /\ faults' \in 0..MaxFaults
  BY NothingAdvances, FaultIs DEF launchesNext, Launching, At, Advances
<1>2. command.i > 0 /\ (command.i \in 1..LastService \/ AllStarted(command.i))
  BY DeviceFacts DEF AllStarted, launchesNext, DeviceInv, DoneSoFar
<1>3. up' \subseteq 1..LastService
  BY <1>2, DeviceFacts DEF launchesNext
<1>4. ASSUME NEW at \in {"WAIT", "LAUNCH", "UNDO"}, NEW i \in 0..(LastService + 1),
             Turns(at, i), UNCHANGED <<known, last>>,
             at = "LAUNCH" => i > 0, at = "WAIT" => command.installing
      PROVE  DeviceInv'
  <2>1. /\ command' \in Commands /\ command'.at = at /\ command'.i = i
        /\ command'.installing = command.installing
    BY <1>4, DeviceFacts, TurnsIs DEF Places
  <2>2. CASE command.installing
    <3>1. Installing(command) /\ AfterQualify(command) /\ AfterAccept(command)
          /\ AfterFiles(command)
      BY <1>1, <2>2 DEF Installing, AfterQualify, AfterInvites, AfterRoute, AfterAccept,
         AfterFiles
    <3>2. /\ Installing(command') /\ At(command', {"LAUNCH", "UNDO", "WAIT", "ENABLE"})
          /\ ~At(command', {"FILES", "WRITING"}) /\ ~At(command', {"WRITING"})
      BY <2>1, <2>2 DEF Installing, At, AfterInvites, AfterRoute, AfterAccept, AfterFiles,
         Launching
    <3> QED
      BY <1>1, <1>3, <1>4, <2>1, <3>1, <3>2, DeviceFacts, InstallationHas, AfterAcceptHas,
         GoesOnKeeps
  <2>3. CASE ~command.installing
    <3>1. saved.enabled /\ known \in {Absent, saved}
      BY <1>1, <2>3 DEF DeviceInv, CopiesAgree
    <3>2. Launching(command')
      BY <1>4, <2>1, <2>3 DEF Launching, At
    <3> QED
      BY <1>1, <1>3, <1>4, <2>1, <2>3, <3>1, <3>2, DeviceFacts, StartKeeps
  <2> QED
    BY <2>2, <2>3
<1>5. CASE AllStarted(command.i) /\ command.installing
  BY <1>4, <1>5, DeviceFacts DEF launchesNext
<1>6. CASE AllStarted(command.i) /\ ~command.installing
  <2>1. Returns("DONE") /\ UNCHANGED up
    BY <1>6 DEF launchesNext
  <2>2. saved.enabled
    BY <1>1, <1>6 DEF DeviceInv, CopiesAgree
  <2> QED
    BY <1>1, <2>1, <2>2, DeviceFacts, StartKeeps DEF Returns
<1>7. CASE ~AllStarted(command.i)
  <2>1. command.i + 1 \in 0..(LastService + 1) /\ command.i + 1 > 0
    BY <1>7, DeviceFacts DEF AllStarted
  <2>2. \/ Turns("LAUNCH", command.i + 1) /\ UNCHANGED <<known, last>>
        \/ Turns("UNDO", 0) /\ UNCHANGED <<known, last>>
        \/ Fails
    BY <1>7 DEF launchesNext
  <2> QED
    BY <1>1, <1>3, <1>4, <2>1, <2>2, DeviceFacts, FailsKeeps
<1> QED
  BY <1>5, <1>6, <1>7

LEMMA UndoesKeeps == DeviceInv /\ undoes => DeviceInv'
<1> SUFFICES ASSUME DeviceInv, undoes PROVE DeviceInv'
  OBVIOUS
<1>1. /\ Launching(command) /\ UNCHANGED <<saved, coordinator, files>> /\ Fails
      /\ Advances(coordinator') /\ faults' \in 0..MaxFaults
  BY NothingAdvances, FaultIs DEF undoes, Launching, At, Advances, StopsAll, StopFails
<1>2. up' \subseteq 1..LastService
  BY DeviceFacts DEF undoes, StopsAll, StopFails
<1> QED
  BY <1>1, <1>2, DeviceFacts, FailsKeeps

LEMMA WaitsForKeeps == DeviceInv /\ waitsFor => DeviceInv'
<1> SUFFICES ASSUME DeviceInv, waitsFor PROVE DeviceInv'
  OBVIOUS
<1>1. /\ Installing(command) /\ UNCHANGED <<saved, coordinator, files, up>>
      /\ Advances(coordinator') /\ faults' \in 0..MaxFaults
  BY DeviceFacts, AnInstallationIsAt, NothingAdvances, FaultIs DEF waitsFor, Advances
<1>2. /\ known.invites = RecipeStages + 1 /\ known.route /\ coordinator.accepted
      /\ coordinator.qualified /\ \A j \in Index : files[j] = "WHOLE"
  BY AfterAcceptHas DEF waitsFor, AfterAccept, AfterFiles, AfterQualify, At
<1>3. CASE Turns("ENABLE", 0) /\ UNCHANGED <<known, last>>
  <2>1. command' \in Commands /\ command'.at = "ENABLE"
    BY <1>3, DeviceFacts, TurnsIs DEF Places
  <2>2. /\ Installing(command') /\ At(command', {"LAUNCH", "UNDO", "WAIT", "ENABLE"})
        /\ ~At(command', {"FILES", "WRITING"}) /\ ~At(command', {"WRITING"})
    BY <2>1 DEF Installing, At, AfterInvites, AfterRoute, AfterAccept, AfterFiles, Launching
  <2> QED
    BY <1>1, <1>2, <1>3, <2>1, <2>2, DeviceFacts, InstallationHas, GoesOnKeeps
<1>4. CASE Fails
  BY <1>1, <1>4, DeviceFacts, FailsKeeps
<1> QED
  BY <1>3, <1>4 DEF waitsFor

\* A command that ends, but not by a failure that it has cleaned up.
LEMMA EndsKeeps ==
  ASSUME DeviceInv, command' = Idle, known' = Absent,
         UNCHANGED <<saved, coordinator, files, up>>, faults' \in 0..MaxFaults,
         last' \in {"NONE", "DONE", "UNSAVED", "BROKEN"}
  PROVE  DeviceInv'
<1>1. DeviceTypeOK'
  BY DeviceFacts, IdleIs DEF DeviceTypeOK, Commands, Places, Coordinators
<1>2. CopiesAgree'
  BY IdleHasNothing, IdleIs DEF DeviceInv, CopiesAgree
<1>3. DoneBy(saved)' /\ DoneBy(known)'
  BY IdleIs DEF DeviceInv, DoneSoFar, DoneBy, Index
<1>4. DoneSoFar'
  BY <1>3, IdleHasNothing, IdleIs DEF DeviceInv, DoneSoFar
<1>5. CleanedSoFar' /\ EnabledIsComplete' /\ FailedLeavesNothing'
  BY IdleHasNothing DEF DeviceInv, CleanedSoFar, EnabledIsComplete, FailedLeavesNothing
<1> QED
  BY <1>1, <1>2, <1>4, <1>5 DEF DeviceInv

LEMMA EnablesKeeps == DeviceInv /\ enables => DeviceInv'
<1> SUFFICES ASSUME DeviceInv, enables PROVE DeviceInv'
  OBVIOUS
<1>1. /\ Installing(command) /\ UNCHANGED <<coordinator, files, up>>
      /\ faults' \in 0..MaxFaults
  BY DeviceFacts, AnInstallationIsAt, FaultIs DEF enables
<1>2. /\ known.invites = RecipeStages + 1 /\ known.route /\ coordinator.accepted
      /\ coordinator.qualified /\ \A j \in Index : files[j] = "WHOLE"
  BY AfterAcceptHas DEF enables, AfterAccept, AfterFiles, AfterQualify, At
<1>3. CASE saved' = [known EXCEPT !.enabled = TRUE] /\ Returns("DONE")
  <2>1. command' = Idle /\ known' = Absent /\ last' = "DONE"
    BY <1>3 DEF Returns
  <2>2. /\ saved' \in State /\ saved'.enabled /\ saved'.invites = known.invites
        /\ saved'.route /\ saved'.key = known.key
    BY <1>2, <1>3, DeviceFacts DEF State
  <2>3. DeviceTypeOK'
    BY <1>1, <2>1, <2>2, DeviceFacts, IdleIs DEF DeviceTypeOK, Commands, Places, Coordinators
  <2>4. known.key \in coordinator.published /\ coordinator.published \subseteq {saved'.key}
    BY <1>1, <1>2, <2>2, InstallationHas DEF DeviceInv, CopiesAgree
  <2>5. \A i \in Index : coordinator.invited[i] = 1
    <3>1. \A i \in Index : i < known.invites
      BY <1>2, DeviceAssumption DEF Index
    <3> QED
      BY <1>1, <3>1, InstallationHas
  <2>6. CopiesAgree'
    BY <1>1, <2>1, <2>2, <2>4, IdleHasNothing, IdleIs, InstallationHas DEF CopiesAgree
  <2>7. DoneBy(saved)' /\ DoneBy(known)'
    BY <1>1, <2>1, <2>2, <2>4, <2>5, IdleIs DEF DoneBy, Index
  <2>8. DoneSoFar'
    BY <1>1, <2>1, <2>7, IdleHasNothing, IdleIs DEF DeviceInv, DoneSoFar
  <2>9. EnabledIsComplete'
    BY <1>1, <1>2, <2>2, <2>4, <2>5 DEF EnabledIsComplete
  <2>10. CleanedSoFar' /\ FailedLeavesNothing'
    BY <2>1, <2>2, IdleHasNothing DEF CleanedSoFar, FailedLeavesNothing
  <2> QED
    BY <2>3, <2>6, <2>8, <2>9, <2>10 DEF DeviceInv
<1>4. CASE UNCHANGED saved /\ Returns("UNSAVED")
  BY <1>1, <1>4, EndsKeeps DEF Returns
<1> QED
  BY <1>3, <1>4 DEF enables

\* A clean-up, which records nothing but what it has done itself.
LEMMA CleansKeeps ==
  ASSUME DeviceInv, Cleaning(command), UNCHANGED <<saved, known, files, last>>,
         command' \in Commands, At(command', {"PAUSE", "NOTE"}), Advances(coordinator'),
         up' \subseteq 1..LastService, faults' \in 0..MaxFaults, CleanedSoFar'
  PROVE  DeviceInv'
<1>1. DeviceTypeOK'
  BY DeviceFacts DEF DeviceTypeOK, Commands, Places, Coordinators, Advances
<1>2. /\ Cleaning(command') /\ ~At(command', {"IDLE"}) /\ ~Launching(command')
      /\ ~Installing(command') /\ command'.at # "LAUNCH" /\ command'.at # "IDLE"
      /\ ~AfterFiles(command') /\ ~AfterAccept(command') /\ ~AfterRoute(command')
      /\ ~AfterInvites(command') /\ ~AfterQualify(command')
      /\ ~At(command', {"FILES", "WRITING"}) /\ ~At(command', {"WRITING"})
  BY DEF At, Launching, Installing, Cleaning, AfterFiles, AfterAccept, AfterRoute,
     AfterInvites, AfterQualify
<1>3. CopiesAgree'
  BY <1>2 DEF DeviceInv, CopiesAgree, Advances
<1>4. DoneSoFar'
  BY <1>2 DEF DeviceInv, DoneSoFar, DoneBy, Advances
<1>5. EnabledIsComplete' /\ FailedLeavesNothing'
  BY <1>2 DEF DeviceInv, CopiesAgree, EnabledIsComplete, FailedLeavesNothing
<1> QED
  BY <1>1, <1>3, <1>4, <1>5 DEF DeviceInv

LEMMA CleansStepKeeps == DeviceInv /\ cleans => DeviceInv'
<1> SUFFICES ASSUME DeviceInv, cleans PROVE DeviceInv'
  OBVIOUS
<1>1. /\ Cleaning(command) /\ UNCHANGED <<saved, known, coordinator, files, last>>
      /\ Advances(coordinator') /\ faults' \in 0..MaxFaults
  BY NothingAdvances, FaultIs DEF cleans, Cleaning, At, Advances, StopsAll, StopFails
<1>2. up' \subseteq 1..LastService
  BY DeviceFacts DEF cleans, StopsAll, StopFails
<1>3. /\ command' \in Commands /\ command'.at = "PAUSE" /\ command'.i = 0
      /\ command'.clean => up' = {}
  <2>1. CASE StopsAll /\ Turns("PAUSE", 0)
    BY <2>1, DeviceFacts, TurnsIs DEF StopsAll, Places
  <2>2. CASE command' = [command EXCEPT !.at = "PAUSE", !.i = 0, !.clean = FALSE]
    <3>1. 0 \in 0..(LastService + 1) /\ "PAUSE" \in Places
      BY DeviceFacts DEF Places
    <3> QED
      BY <2>2, <3>1, DeviceFacts DEF Commands
  <2> QED
    BY <2>1, <2>2 DEF cleans
<1>4. CleanedSoFar'
  BY <1>1, <1>3, DeviceFacts, DeviceAssumption DEF CleanedSoFar, At, Index
<1> QED
  BY <1>1, <1>2, <1>3, <1>4, CleansKeeps DEF At

LEMMA PausesKeeps == DeviceInv /\ pauses => DeviceInv'
<1> SUFFICES ASSUME DeviceInv, pauses PROVE DeviceInv'
  OBVIOUS
<1>1. /\ Cleaning(command) /\ UNCHANGED <<saved, known, files, up, last>>
      /\ faults' \in 0..MaxFaults
  BY FaultIs DEF pauses, Cleaning, At
<1>2. /\ command.i <= known.invites /\ command.i \in Nat /\ known.invites \in Nat
      /\ known.invites <= RecipeStages + 1
      /\ command.clean =>
           up = {} /\ \A j \in Index : j < command.i => coordinator.desired[j] = "PAUSED"
  BY DeviceFacts, DeviceAssumption DEF pauses, DeviceInv, CleanedSoFar, At
<1>3. CASE command.i >= known.invites
  <2>1. Turns("NOTE", 0) /\ UNCHANGED coordinator
    BY <1>3 DEF pauses
  <2>2. command' \in Commands /\ command'.at = "NOTE" /\ command'.clean = command.clean
    BY <2>1, DeviceFacts, TurnsIs DEF Places
  <2>3. command.i = known.invites
    BY <1>2, <1>3
  <2>4. CleanedSoFar' /\ Advances(coordinator')
    BY <1>1, <1>2, <2>1, <2>2, <2>3, NothingAdvances DEF CleanedSoFar, At, Advances
  <2> QED
    BY <1>1, <2>2, <2>4, DeviceFacts, CleansKeeps DEF At
<1>4. CASE ~(command.i >= known.invites)
  <2> DEFINE paused == [coordinator EXCEPT !.desired[command.i] = "PAUSED"]
  <2>1. command.i \in Index /\ command.i + 1 <= known.invites
        /\ command.i + 1 \in 0..(LastService + 1)
        /\ \A j \in Index : j < command.i + 1 => j < command.i \/ j = command.i
    BY <1>2, <1>4, DeviceFacts, DeviceAssumption DEF Index
  <2>2. Advances(paused) /\ paused.desired[command.i] = "PAUSED"
        /\ \A j \in Index : coordinator.desired[j] = "PAUSED" => paused.desired[j] = "PAUSED"
    BY <2>1, NothingAdvances, DeviceFacts DEF Advances, Coordinators
  <2>3. CASE coordinator' = paused /\ Turns("PAUSE", command.i + 1)
    <3>1. /\ command' \in Commands /\ command'.at = "PAUSE" /\ command'.clean = command.clean
          /\ command'.i = command.i + 1
      BY <2>1, <2>3, DeviceFacts, TurnsIs DEF Places
    <3> HIDE DEF paused
    <3>2. CleanedSoFar'
      BY <1>1, <1>2, <2>1, <2>2, <2>3, <3>1 DEF CleanedSoFar, At
    <3> QED
      BY <1>1, <2>2, <2>3, <3>1, <3>2, DeviceFacts, CleansKeeps DEF At
  <2>4. CASE /\ coordinator' \in {coordinator, paused}
             /\ command' = [command EXCEPT !.i = command.i + 1, !.clean = FALSE]
    <3>1. /\ command' \in Commands /\ command'.at = "PAUSE" /\ ~command'.clean
          /\ command'.i = command.i + 1
      BY <2>1, <2>4, DeviceFacts DEF Commands, pauses
    <3> HIDE DEF paused
    <3>2. CleanedSoFar'
      BY <1>1, <2>1, <3>1 DEF CleanedSoFar, At
    <3> QED
      BY <1>1, <2>2, <2>4, <3>1, <3>2, NothingAdvances, DeviceFacts, CleansKeeps DEF At
  <2> QED
    BY <1>4, <2>3, <2>4 DEF pauses
<1> QED
  BY <1>3, <1>4

LEMMA NotesKeeps == DeviceInv /\ notes => DeviceInv'
<1> SUFFICES ASSUME DeviceInv, notes PROVE DeviceInv'
  OBVIOUS
<1>1. /\ UNCHANGED <<coordinator, files, up>> /\ faults' \in 0..MaxFaults
      /\ saved' \in {saved, known} /\ command' = Idle /\ known' = Absent
      /\ last' = IF command.clean THEN "FAILED" ELSE "BROKEN"
  BY FaultIs DEF notes, Returns
<1>2. /\ known.key # 0 /\ ~known.enabled /\ ~saved.enabled /\ saved.key \in {0, known.key}
      /\ saved.invites <= known.invites
  BY DEF notes, DeviceInv, CopiesAgree, Cleaning, At
<1>3. command.clean =>
        up = {} /\ \A j \in Index : j < known.invites => coordinator.desired[j] = "PAUSED"
  BY DEF notes, DeviceInv, CleanedSoFar, At
<1>4. DeviceTypeOK'
  BY <1>1, DeviceFacts, IdleIs DEF DeviceTypeOK, Commands, Places, Coordinators
<1>5. CopiesAgree'
  <2>1. coordinator.published \subseteq {saved.key} /\ (saved.key = 0 => saved = Absent)
        /\ coordinator.published \subseteq 1..2
    BY DeviceFacts DEF DeviceInv, CopiesAgree, Coordinators
  <2>2. coordinator'.published \subseteq {saved'.key}
    BY <1>1, <1>2, <2>1
  <2> QED
    BY <1>1, <1>2, <2>1, <2>2, IdleHasNothing, IdleIs DEF CopiesAgree
<1>6. DoneSoFar'
  <2>1. DoneBy(saved)' /\ DoneBy(known)'
    <3>1. DoneBy(saved) /\ DoneBy(known)
      BY DEF DeviceInv, DoneSoFar
    <3> QED
      BY <1>1, <3>1, IdleIs DEF DoneBy, Index
  <2> QED
    BY <1>1, <2>1, IdleHasNothing, IdleIs DEF DeviceInv, DoneSoFar
<1>7. CleanedSoFar' /\ EnabledIsComplete'
  BY <1>1, <1>2, IdleHasNothing DEF CleanedSoFar, EnabledIsComplete
<1>8. FailedLeavesNothing'
  <2>1. \A j \in Index : j < saved'.invites => j < known.invites
    BY <1>1, <1>2, DeviceFacts, DeviceAssumption DEF Index
  <2> QED
    BY <1>1, <1>3, <2>1 DEF FailedLeavesNothing
<1> QED
  BY <1>4, <1>5, <1>6, <1>7, <1>8 DEF DeviceInv

LEMMA InstallsKeeps == DeviceInv /\ installs => DeviceInv'
<1> SUFFICES ASSUME DeviceInv, installs PROVE DeviceInv'
  OBVIOUS
<1>1. /\ command = Idle /\ last' = "NONE" /\ UNCHANGED <<coordinator, files, up>>
      /\ faults' \in 0..MaxFaults
  BY FaultIs DEF installs, DeviceInv, CopiesAgree, At
<1>2. ASSUME NEW at \in {"FIRST", "LAUNCH", "CLEAN"}, NEW i \in {0, 1}, Turns(at, i)
      PROVE  /\ command' \in Commands /\ command'.at = at /\ command'.i = i
             /\ ~command'.installing
  <2>1. i \in 0..(LastService + 1) /\ at \in Places
    BY DeviceFacts DEF Places
  <2> QED
    BY <1>1, <1>2, <2>1, DeviceFacts, TurnsIs, IdleIs
<1>3. CASE saved.key # 0 /\ saved.enabled
  <2>1. known' = saved /\ Turns("LAUNCH", 1) /\ UNCHANGED saved
    BY <1>3 DEF installs
  <2>2. command' \in Commands /\ Launching(command') /\ ~command'.installing /\ command'.i = 1
    BY <1>2, <2>1 DEF Launching, At
  <2> QED
    BY <1>1, <1>3, <2>1, <2>2, DeviceFacts, StartKeeps
\* The state that the command goes on with, and that is not enabled.
<1>4. CASE ~(saved.key # 0 /\ saved.enabled)
  <2>1. /\ known' \in State /\ known'.key # 0 /\ ~known'.enabled /\ saved' \in {saved, known'}
        /\ (saved'.key = 0 \/ saved' = known') /\ ~saved.enabled
        /\ \/ command'.at = "FIRST" /\ saved' = known'
           \/ command'.at = "CLEAN"
        /\ command' \in Commands /\ command'.i = 0 /\ ~command'.installing
        /\ \/ known' = saved
           \/ known'.invites = 0 /\ ~known'.route /\ saved = Absent
    <3>1. CASE saved.key = 0
      <4>1. saved = Absent
        BY <3>1 DEF DeviceInv, CopiesAgree
      <4>2. known' = [Absent EXCEPT !.key = FreshKey] /\ FreshKey \in 1..2
        BY <3>1 DEF installs, FreshKey
      <4>3. /\ known' \in State /\ known'.key = FreshKey /\ ~known'.enabled
            /\ known'.invites = 0 /\ ~known'.route
        BY <4>2, IdleIs DEF State
      <4>4. \/ saved' = known' /\ Turns("FIRST", 0)
            \/ UNCHANGED saved /\ Turns("CLEAN", 0)
        BY <3>1 DEF installs
      <4> QED
        BY <1>2, <3>1, <4>1, <4>2, <4>3, <4>4, IdleIs
    <3>2. CASE saved.key # 0
      BY <1>2, <1>4, <3>2, DeviceFacts DEF installs
    <3> QED
      BY <3>1, <3>2
  <2>2. /\ ~At(command', {"IDLE"}) /\ ~Launching(command')
        /\ Installing(command') <=> command'.at = "FIRST"
        /\ Cleaning(command') <=> command'.at = "CLEAN"
        /\ ~AfterFiles(command') /\ ~AfterAccept(command') /\ ~AfterRoute(command')
        /\ ~AfterInvites(command') /\ ~AfterQualify(command') /\ command'.at # "LAUNCH"
        /\ ~At(command', {"FILES", "WRITING"}) /\ ~At(command', {"WRITING"})
        /\ ~At(command', {"PAUSE"}) /\ ~At(command', {"NOTE"})
        /\ ~At(command', {"PAUSE", "NOTE"}) /\ command'.at # "IDLE"
    BY <2>1 DEF At, Launching, Installing, Cleaning, AfterFiles, AfterAccept, AfterRoute,
       AfterInvites, AfterQualify
  <2>3. DeviceTypeOK'
    BY <1>1, <2>1, DeviceFacts DEF DeviceTypeOK, Commands, Places, Coordinators
  <2>4. CopiesAgree'
    <3>1. coordinator.published \subseteq {saved.key} /\ (saved.key = 0 => saved = Absent)
          /\ coordinator.published \subseteq 1..2
      BY DeviceFacts DEF DeviceInv, CopiesAgree, Coordinators
    <3>2. coordinator'.published \subseteq {saved'.key}
      BY <1>1, <2>1, <3>1, IdleIs
    <3>3. saved'.invites <= known'.invites /\ (saved'.route => known'.route)
      <4>1. CASE saved' = known'
        BY <2>1, <4>1, DeviceAssumption DEF State
      <4>2. CASE saved' # known'
        BY <2>1, <3>1, <4>2, IdleIs
      <4> QED
        BY <4>1, <4>2
    <3>4. saved'.key = 0 => saved' = Absent
      BY <2>1, <3>1
    <3> QED
      BY <1>1, <2>1, <2>2, <3>2, <3>3, <3>4 DEF CopiesAgree
  <2>5. DoneSoFar'
    <3>1. DoneBy(saved)
      BY DEF DeviceInv, DoneSoFar
    <3>2. DoneBy(known)'
      <4>1. CASE known' = saved
        BY <1>1, <3>1, <4>1 DEF DoneBy
      <4>2. CASE known'.invites = 0 /\ ~known'.route
        BY <4>2 DEF DoneBy, Index
      <4> QED
        BY <2>1, <4>1, <4>2
    <3>3. DoneBy(saved)'
      BY <1>1, <2>1, <3>1, <3>2 DEF DoneBy
    <3> QED
      BY <1>1, <2>2, <3>2, <3>3 DEF DeviceInv, DoneSoFar
  <2>6. CleanedSoFar' /\ EnabledIsComplete' /\ FailedLeavesNothing'
    BY <2>1, <2>2 DEF CleanedSoFar, EnabledIsComplete, FailedLeavesNothing
  <2> QED
    BY <2>3, <2>4, <2>5, <2>6 DEF DeviceInv
<1> QED
  BY <1>3, <1>4

LEMMA OtherCommandsKeep ==
  DeviceInv /\ (startsEnabled \/ stopsRoute \/ commandDies \/ serviceDies \/ UNCHANGED deviceVars)
    => DeviceInv'
<1> SUFFICES ASSUME DeviceInv PROVE
      (startsEnabled \/ stopsRoute \/ commandDies \/ serviceDies \/ UNCHANGED deviceVars)
        => DeviceInv'
  OBVIOUS
<1>1. CASE startsEnabled
  <2>1. /\ command = Idle /\ known = Absent /\ saved.enabled /\ Turns("LAUNCH", 1)
        /\ UNCHANGED <<saved, known, coordinator, files, up, faults>> /\ last' = "NONE"
    BY <1>1 DEF startsEnabled, Installed, DeviceInv, CopiesAgree, At
  <2>2. 1 \in 0..(LastService + 1) /\ "LAUNCH" \in Places
    BY DeviceFacts DEF Places
  <2>3. /\ command' \in Commands /\ command'.at = "LAUNCH" /\ command'.i = 1
        /\ ~command'.installing
    BY <2>1, <2>2, DeviceFacts, TurnsIs, IdleIs
  <2>4. Launching(command')
    BY <2>3 DEF Launching, At
  <2> QED
    BY <2>1, <2>3, <2>4, DeviceFacts, StartKeeps
\* What ends services only.
<1>2. ASSUME up' \subseteq up, last' \in {"NONE", last}, faults' \in 0..MaxFaults,
             UNCHANGED <<command, saved, known, coordinator, files>>
      PROVE  DeviceInv'
  <2>1. DeviceTypeOK'
    BY <1>2, DeviceFacts DEF DeviceTypeOK, Commands, Places, Coordinators
  <2>2. CopiesAgree' /\ EnabledIsComplete'
    BY <1>2 DEF DeviceInv, CopiesAgree, EnabledIsComplete
  <2>3. DoneSoFar'
    BY <1>2 DEF DeviceInv, DoneSoFar, DoneBy
  <2>4. CleanedSoFar' /\ FailedLeavesNothing'
    BY <1>2 DEF DeviceInv, CleanedSoFar, FailedLeavesNothing
  <2> QED
    BY <2>1, <2>2, <2>3, <2>4 DEF DeviceInv
<1>3. CASE stopsRoute
  BY <1>2, <1>3, FaultIs DEF stopsRoute, StopsAll, StopFails
<1>4. CASE serviceDies
  BY <1>2, <1>4, FaultIs DEF serviceDies
<1>5. CASE UNCHANGED deviceVars
  BY <1>2, <1>5, DeviceFacts DEF deviceVars
<1>6. CASE commandDies
  BY <1>6, FaultIs, EndsKeeps DEF commandDies, Returns
<1> QED
  BY <1>1, <1>3, <1>4, <1>5, <1>6

LEMMA NothingInstalled == DeviceInit => DeviceInv
<1> SUFFICES ASSUME DeviceInit PROVE DeviceInv
  OBVIOUS
<1>1. /\ coordinator \in Coordinators /\ coordinator.published = {}
      /\ \A i \in Index : coordinator.invited[i] = 0
  BY DEF DeviceInit, Coordinators
<1>2. /\ command = Idle /\ saved = Absent /\ known = Absent /\ up = {} /\ last = "NONE"
      /\ files \in [Index -> {"NONE", "PART", "WHOLE"}] /\ faults \in 0..MaxFaults
  BY DeviceAssumption DEF DeviceInit
<1>3. DeviceTypeOK
  BY <1>1, <1>2, DeviceTypesAre, IdleIs
<1>4. DoneBy(saved) /\ DoneBy(known)
  BY <1>2, IdleIs DEF DoneBy, Index
<1>5. CopiesAgree /\ DoneSoFar
  BY <1>1, <1>2, <1>4, IdleHasNothing, IdleIs DEF CopiesAgree, DoneSoFar
<1>6. CleanedSoFar /\ EnabledIsComplete /\ FailedLeavesNothing
  BY <1>2, IdleHasNothing, IdleIs DEF CleanedSoFar, EnabledIsComplete, FailedLeavesNothing
<1> QED
  BY <1>3, <1>5, <1>6 DEF DeviceInv

\* No node twice, and at most one route: what is published has the recorded key.
LEMMA DeviceInvGives ==
  DeviceInv => DeviceTypeOK /\ NothingTwice /\ EnabledIsComplete /\ FailedLeavesNothing
<1> SUFFICES ASSUME DeviceInv PROVE NothingTwice
  BY DEF DeviceInv
<1>1. coordinator.published \subseteq {saved.key} /\ \A i \in Index : coordinator.invited[i] <= 1
  BY DEF DeviceInv, CopiesAgree, DoneSoFar
<1>2. IsFiniteSet({saved.key}) /\ Cardinality({saved.key}) = 1
  BY FS_Singleton
<1>3. /\ Cardinality(coordinator.published) <= Cardinality({saved.key})
  BY <1>1, <1>2, FS_Subset
<1> QED
  BY <1>1, <1>2, <1>3 DEF NothingTwice

\* Through whatever ends a command, loses an answer or ends a service, an installation
\* that is taken up again invites no node twice and publishes no second route, enables
\* only a complete one, and a failure that it could clean up leaves nothing behind.
THEOREM InstallationIsComplete ==
  DeviceSpec => [](DeviceTypeOK /\ NothingTwice /\ EnabledIsComplete /\ FailedLeavesNothing)
<1>1. DeviceInv /\ [DeviceNext]_deviceVars => DeviceInv'
  <2> SUFFICES ASSUME DeviceInv, [DeviceNext]_deviceVars PROVE DeviceInv'
    OBVIOUS
  <2>1. CASE InstallStep
    BY <2>1, StopsFirstKeeps, FindsRoomKeeps, InvitesKeeps, KeepsKeeps, PublishesKeeps,
       AcceptsRouteKeeps, WritesFileKeeps, FileWrittenKeeps, QualifiesRouteKeeps, ReadiesKeeps,
       SaysStartingKeeps, LaunchesNextKeeps, UndoesKeeps, WaitsForKeeps, EnablesKeeps,
       CleansStepKeeps, PausesKeeps, NotesKeeps DEF InstallStep
  <2> QED
    BY <2>1, InstallsKeeps, OtherCommandsKeep DEF DeviceNext
<1> QED
  BY <1>1, NothingInstalled, DeviceInvGives, PTL DEF DeviceSpec

-----------------------------------------------------------------------------
(* The root's cluster.                                                     *)

\* A stop is heard once the workers are launched.
ClusterInv ==
  /\ ClusterTypeOK
  /\ progress = "WORKERS" => ~draining /\ \A c \in Children : child[c] = "NONE"

ChildStates == {"NONE", "RUNS", "TOLD", "LATE", "ENDED"}

\* What a stop does to the children, as they are by then.
LEMMA DrainsIs ==
  ASSUME ClusterTypeOK, NEW ch \in [Children -> ChildStates], Drains(ch),
         \A c \in ClusterWorker : ch[c] # "LATE",
         draining => \A c \in Children : ch[c] # "RUNS"
  PROVE  /\ draining' /\ draining' \in BOOLEAN /\ child' \in [Children -> ChildStates]
         /\ \A c \in Children : child'[c] # "RUNS"
         /\ \A c \in ClusterWorker : child'[c] # "LATE"
<1>1. CASE draining
  BY <1>1 DEF Drains, Children, ChildStates
<1>2. CASE ~draining
  BY <1>2 DEF Drains, ToldOnes, Children, ChildStates
<1> QED
  BY <1>1, <1>2

\* Whatever runs when the cluster is told to stop, or loses a child, is told to end,
\* and only the engine can have started since.  (cluster.mjs 83-115)
THEOREM ClusterTellsAll == ClusterSpec => []ClusterTypeOK
<1>1. ClusterInit => ClusterInv
  BY DEF ClusterInit, ClusterInv, ClusterTypeOK, Children
<1>2. ClusterInv /\ [ClusterNext]_clusterVars => ClusterInv'
  <2> SUFFICES ASSUME ClusterInv, [ClusterNext]_clusterVars PROVE ClusterInv'
    OBVIOUS
  <2>1. /\ ClusterTypeOK /\ child \in [Children -> ChildStates]
        /\ \A c \in ClusterWorker : child[c] # "LATE" /\ c \in Children
        /\ draining => \A c \in Children : child[c] # "RUNS"
        /\ Engine \in Children /\ Engine \notin ClusterWorker
    BY ClusterAssumption DEF ClusterInv, ClusterTypeOK, ChildStates, Children
  <2>2. CASE launchesWorkers
    <3>1. ~draining
      BY <2>2 DEF ClusterInv, launchesWorkers
    <3> QED
      BY <2>1, <2>2, <3>1 DEF launchesWorkers, ClusterInv, ClusterTypeOK, Reaches, ChildStates
  <2>3. CASE waits
    BY <2>3 DEF waits, Kept, ClusterInv, ClusterTypeOK, Reaches
  <2>4. CASE launchesEngine
    <3>1. CASE draining
      BY <2>1, <2>4, <3>1 DEF launchesEngine, ClusterInv, ClusterTypeOK, Reaches, ChildStates
    <3>2. CASE ~draining
      BY <2>1, <2>4, <3>2 DEF launchesEngine, ClusterInv, ClusterTypeOK, Reaches, ChildStates
    <3> QED
      BY <3>1, <3>2
  <2>5. CASE writesStatus
    BY <2>5 DEF writesStatus, ClusterInv, ClusterTypeOK, Reaches
  <2>6. CASE throws
    BY <2>1, <2>6, DrainsIs DEF throws, ClusterInv, ClusterTypeOK, Reaches, ChildStates
  <2>7. CASE clusterEnds \/ clusterKilled
    BY <2>7 DEF clusterEnds, clusterKilled, Kept, ClusterInv, ClusterTypeOK, Reaches
  <2>8. CASE asksStop
    BY <2>1, <2>8, DrainsIs DEF asksStop, ClusterInv, ClusterTypeOK, ChildStates
  <2>9. CASE hostCloses
    BY <2>1, <2>9 DEF hostCloses, ClusterInv, ClusterTypeOK, ChildStates
  <2>10. ASSUME NEW c \in Children, clusterChildEnds(c) PROVE ClusterInv'
    <3> DEFINE ch == [child EXCEPT ![c] = "ENDED"]
    <3>1. /\ ch \in [Children -> ChildStates] /\ \A k \in ClusterWorker : ch[k] # "LATE"
          /\ draining => \A k \in Children : ch[k] # "RUNS"
          /\ UNCHANGED <<progress, report>> /\ progress # "WORKERS"
      BY <2>1, <2>10 DEF ChildStates, clusterChildEnds, Runs, ClusterInv
    <3>2. CASE Hears
      <4>1. Drains(ch)
        BY <2>10, <3>2 DEF clusterChildEnds
      <4> HIDE DEF ch
      <4> QED
        BY <2>1, <3>1, <4>1, DrainsIs DEF ClusterInv, ClusterTypeOK, ChildStates
    <3>3. CASE ~Hears
      <4>1. child' = ch /\ UNCHANGED draining
        BY <2>10, <3>3 DEF clusterChildEnds
      <4> HIDE DEF ch
      <4> QED
        BY <2>1, <3>1, <4>1 DEF ClusterInv, ClusterTypeOK, ChildStates
    <3> QED
      BY <3>2, <3>3
  <2>11. CASE UNCHANGED clusterVars
    BY <2>11 DEF clusterVars, ClusterInv, ClusterTypeOK
  <2> QED
    BY <2>2, <2>3, <2>4, <2>5, <2>6, <2>7, <2>8, <2>9, <2>10, <2>11
       DEF ClusterNext, ClusterStep
<1>3. ClusterInv => ClusterTypeOK
  BY DEF ClusterInv
<1> QED
  BY <1>1, <1>2, <1>3, PTL DEF ClusterSpec

-----------------------------------------------------------------------------
(* The laboratory.                                                         *)

LabPlaces ==
  {"IDLE", "CONFIG", "CREDENTIALS", "ENV", "UP", "BUILD", "MIGRATE", "ASK_BUILD", "LAUNCH",
   "SPAWN", "RECORD", "WAIT", "STOP", "AWAIT"}
LabOrder ==
  [at : LabPlaces, what : {"NONE", "INIT", "FIRST_START", "START", "STOP", "RESTART"},
   names : SUBSET LabService, left : SUBSET LabService, name : LabService \cup {"NONE"},
   pid : Instance \cup {0}]
LabFiles == [config : File, credentials : File, env : File]
Databases == [version : Nat, role : BOOLEAN, admin : BOOLEAN, grants : Nat]

\* The types that the steps rest on.
LabTypes ==
  /\ release \in Nat \ {0} /\ private \in LabFiles /\ database \in Databases
  /\ process \in [LabService -> [Instance -> {"NONE"} \cup Present]]
  /\ registry \in [LabService -> Instance \cup {0}]
  /\ order \in LabOrder

\* The orders that the steps make of an order.
LEMMA RestIs == Rest \in LabOrder /\ Rest.at = "IDLE" /\ Rest.what = "NONE"
  BY DEF Rest, LabOrder, LabPlaces

LEMMA EndedIs == \A how : Ended(how) => order' \in LabOrder /\ order'.at = "IDLE" /\ order' = Rest
  BY RestIs DEF Ended

LEMMA StandsIs ==
  ASSUME order \in LabOrder, NEW at \in LabPlaces, Stands(at)
  PROVE  /\ order' \in LabOrder /\ order'.at = at /\ order'.what = order.what
         /\ order'.names = order.names /\ order'.left = order.left
         /\ order'.name = order.name /\ order'.pid = order.pid
  BY DEF Stands, LabOrder

LEMMA NextNameIs ==
  ASSUME order \in LabOrder, NEW at \in LabPlaces, NextName(at)
  PROVE  /\ order' \in LabOrder /\ order'.at = at /\ order'.what = order.what
         /\ order'.names = order.names /\ order'.left = order.left /\ order'.name = "NONE"
         /\ UNCHANGED outcome
<1>1. 0 \in Instance \cup {0} /\ "NONE" \in LabService \cup {"NONE"}
  OBVIOUS
<1> HIDE DEF Instance
<1> QED
  BY <1>1 DEF NextName, LabOrder

LEMMA TakesUpIs ==
  ASSUME order \in LabOrder, NEW at \in LabPlaces, NEW list, NEW n \in First(list),
         TakesUp(n, at)
  PROVE  /\ order' \in LabOrder /\ order'.at = at /\ order'.what = order.what
         /\ order'.names = order.names /\ order'.left = order.left \ {n}
         /\ order'.name = n /\ order'.pid = order.pid
         /\ n \in LabService /\ n \in order.left /\ UNCHANGED outcome
<1>1. n \in LabService /\ n \in order.left
  BY DEF First, LabOrder
<1> QED
  BY <1>1 DEF TakesUp, LabOrder

LEMMA AsksIs ==
  ASSUME order \in LabOrder, asksService
  PROVE  /\ order' \in LabOrder /\ order'.at \in {"IDLE", "WAIT", "RECORD", "SPAWN"}
         /\ outcome' \in {outcome, "FAILED"}
<1>1. PICK n \in First(StartOrder) :
        \/ TakesUp(n, "WAIT") \/ TakesUp(n, "RECORD") \/ TakesUp(n, "SPAWN") \/ Ended("FAILED")
  BY DEF asksService
<1> QED
  BY <1>1, TakesUpIs, EndedIs DEF Ended, LabPlaces

LEMMA StopsNextIs ==
  ASSUME order \in LabOrder, stopsNext
  PROVE  \E n \in First(StopOrder) :
           /\ n \in LabService /\ n \in order.left
           /\ IF owned(n) THEN Tells(n) ELSE UNCHANGED process
           /\ order' \in LabOrder /\ order'.at = "AWAIT" /\ order'.name = n
           /\ order'.names = order.names /\ order'.left = order.left \ {n}
           /\ order'.what = order.what /\ UNCHANGED outcome
<1>1. PICK n \in First(StopOrder) :
        (IF owned(n) THEN Tells(n) ELSE UNCHANGED process) /\ TakesUp(n, "AWAIT")
  BY DEF stopsNext
<1> QED
  BY <1>1, TakesUpIs DEF LabPlaces

LEMMA OrdersKept == LabTypes /\ [LabNext]_labVars => order' \in LabOrder
<1> SUFFICES ASSUME LabTypes, [LabNext]_labVars PROVE order' \in LabOrder
  OBVIOUS
<1>1. order \in LabOrder
  BY DEF LabTypes
<1>2. \A how : Ended(how) => order' \in LabOrder
  BY EndedIs
<1>3. \A at \in LabPlaces : On(at) => order' \in LabOrder
  BY <1>1, StandsIs DEF On
<1>4. CASE inits \/ startsLab
  <2>1. /\ Rest \in LabOrder /\ "CONFIG" \in LabPlaces /\ "ENV" \in LabPlaces
        /\ "UP" \in LabPlaces
    BY RestIs DEF LabPlaces
  <2>2. ASSUME NEW at \in LabPlaces, NEW what \in {"INIT", "FIRST_START", "START"},
               order' = [Rest EXCEPT !.what = what, !.at = at]
        PROVE  order' \in LabOrder
    BY <2>1, <2>2 DEF LabOrder
  <2>3. \/ \E how : Ended(how)
        \/ \E at \in LabPlaces, what \in {"INIT", "FIRST_START", "START"} :
             order' = [Rest EXCEPT !.what = what, !.at = at]
    BY <1>4, <2>1 DEF inits, startsLab
  <2> QED
    BY <1>2, <2>2, <2>3
<1>5. CASE stops \/ restarts
  <2>1. /\ Rest \in LabOrder /\ "STOP" \in LabPlaces /\ "LAUNCH" \in LabPlaces
    BY RestIs DEF LabPlaces
  <2>2. ASSUME NEW at \in LabPlaces, NEW what \in {"STOP", "RESTART"},
               NEW names \in SUBSET LabService,
               order' = [Rest EXCEPT !.at = at, !.what = what, !.names = names, !.left = names]
        PROVE  order' \in LabOrder
    BY <2>1, <2>2 DEF LabOrder
  <2>3. CASE stops
    <3>1. PICK names \in SUBSET LabService :
            order' = [Rest EXCEPT !.at = "STOP", !.what = "STOP",
                                  !.names = names, !.left = names]
      BY <2>3 DEF stops, CpuServices, Components
    <3> QED
      BY <2>1, <2>2, <3>1
  <2>4. CASE restarts
    <3>1. PICK n \in Components :
            \/ Ended("FAILED")
            \/ order' = [Rest EXCEPT !.at = "LAUNCH", !.what = "RESTART",
                                     !.names = {n}, !.left = {n}]
      BY <2>4 DEF restarts
    <3>2. {n} \in SUBSET LabService
      BY DEF Components
    <3> QED
      BY <1>2, <2>1, <2>2, <3>1, <3>2
  <2> QED
    BY <1>5, <2>3, <2>4
<1>7. CASE writesFiles \/ databaseUp \/ buildsContracts \/ migrates
  BY <1>2, <1>3, <1>7 DEF writesFiles, WritesFile, databaseUp, buildsContracts, Either, migrates,
     LabPlaces
<1>8. CASE buildsLab
  <2>1. "LAUNCH" \in LabPlaces /\ ToStart \in SUBSET LabService
    BY DEF LabPlaces, ToStart
  <2> QED
    BY <1>1, <1>2, <1>8, <2>1 DEF buildsLab, LabOrder
<1>9. CASE asksService \/ launched \/ recordsService \/ stopsNext \/ stopEnds
  <2>1. \A at \in LabPlaces : \A list :
          \A n \in First(list) : TakesUp(n, at) => order' \in LabOrder
    BY <1>1, TakesUpIs
  <2> QED
    BY <1>2, <1>3, <1>9, <2>1
    DEF asksService, launched, recordsService, stopsNext, stopEnds, LabPlaces
<1>10. CASE spawnsService
  <2>1. "WAIT" \in LabPlaces /\ "RECORD" \in LabPlaces
    BY DEF LabPlaces
  <2> QED
    BY <1>1, <1>2, <1>10, <2>1 DEF spawnsService, LabOrder
<1>11. CASE waitLaunched \/ awaitsEnd
  <2>1. "LAUNCH" \in LabPlaces /\ "STOP" \in LabPlaces
    BY DEF LabPlaces
  <2> QED
    BY <1>1, <1>2, <1>11, <2>1, NextNameIs DEF waitLaunched, awaitsEnd
<1>12. CASE \/ \E n \in LabService, k \in Instance :
                 comesUp(n, k) \/ goesAway(n, k) \/ processDies(n, k)
            \/ \E n \in LabService : faultsComponent(n)
  BY <1>1, <1>12 DEF comesUp, goesAway, processDies, faultsComponent, ByProcess
<1>13. CASE labCommandDies
  BY <1>2, <1>13 DEF labCommandDies
<1>14. CASE updates \/ UNCHANGED labVars
  BY <1>1, <1>14 DEF updates, labVars
<1> QED
  BY <1>4, <1>5, <1>7, <1>8, <1>9, <1>10, <1>11, <1>12, <1>13, <1>14 DEF LabNext, LabStep

\* A process of a service changes by one: what a step may do to all of them.
LEMMA ProcessesKept ==
  LabTypes /\ [LabNext]_labVars =>
    /\ process' \in [LabService -> [Instance -> {"NONE"} \cup Present]]
    /\ registry' \in [LabService -> Instance \cup {0}]
<1> SUFFICES ASSUME LabTypes, [LabNext]_labVars
             PROVE  /\ process' \in [LabService -> [Instance -> {"NONE"} \cup Present]]
                    /\ registry' \in [LabService -> Instance \cup {0}]
  OBVIOUS
<1>1. /\ process \in [LabService -> [Instance -> {"NONE"} \cup Present]]
      /\ registry \in [LabService -> Instance \cup {0}] /\ order \in LabOrder
  BY DEF LabTypes
<1>2. ASSUME NEW n, NEW k, NEW s \in {"NONE"} \cup Present,
             process' = [process EXCEPT ![n][k] = s]
      PROVE  process' \in [LabService -> [Instance -> {"NONE"} \cup Present]]
  BY <1>1, <1>2
<1>3. ASSUME NEW n, NEW k \in Instance \cup {0}, registry' = [registry EXCEPT ![n] = k]
      PROVE  registry' \in [LabService -> Instance \cup {0}]
  BY <1>1, <1>3
<1>4. {"NONE", "BORN", "SERVES", "TOLD", "CLOSED"} = {"NONE"} \cup Present
  BY DEF Present
<1>5. \A n : Tells(n) => process' \in [LabService -> [Instance -> {"NONE"} \cup Present]]
  <2> SUFFICES ASSUME NEW n, Tells(n)
               PROVE  process' \in [LabService -> [Instance -> {"NONE"} \cup Present]]
    OBVIOUS
  <2>1. process' = [process EXCEPT ![n][registry[n]] = AfterTold(process[n][registry[n]])]
    BY DEF Tells
  <2>2. AfterTold(process[n][registry[n]]) \in {"NONE"} \cup Present
    BY <1>4 DEF AfterTold
  <2> QED
    BY <1>2, <2>1, <2>2
<1>6. CASE inits \/ startsLab \/ writesFiles \/ databaseUp \/ buildsContracts \/ migrates
           \/ buildsLab \/ asksService \/ launched \/ waitLaunched \/ stops \/ stopEnds
           \/ labCommandDies \/ updates \/ UNCHANGED labVars
  BY <1>1, <1>6 DEF inits, startsLab, writesFiles, WritesFile, databaseUp, buildsContracts,
     migrates, buildsLab, asksService, launched, waitLaunched, stops, stopEnds, labCommandDies,
     updates, labVars, ServicesStay
<1>7. CASE spawnsService
  BY <1>1, <1>2, <1>4, <1>7 DEF spawnsService
<1>8. CASE recordsService
  BY <1>1, <1>3, <1>8 DEF recordsService
<1>9. CASE stopsNext
  BY <1>1, <1>5, <1>9 DEF stopsNext
<1>10. CASE restarts
  BY <1>1, <1>5, <1>10 DEF restarts
<1>11. CASE awaitsEnd
  BY <1>1, <1>3, <1>11 DEF awaitsEnd
<1>12. CASE \E n \in LabService, k \in Instance : goesAway(n, k) \/ processDies(n, k)
  BY <1>1, <1>2, <1>4, <1>12 DEF goesAway, processDies, Becomes, ByProcess
<1>13. CASE \E n \in LabService, k \in Instance : comesUp(n, k)
  BY <1>1, <1>2, <1>4, <1>13 DEF comesUp, Becomes, ByProcess
<1>14. CASE \E n \in LabService : faultsComponent(n)
  BY <1>1, <1>2, <1>4, <1>14 DEF faultsComponent, Becomes, ByProcess
<1> QED
  BY <1>6, <1>7, <1>8, <1>9, <1>10, <1>11, <1>12, <1>13, <1>14 DEF LabNext, LabStep

LEMMA LabTypesKept == LabTypes /\ [LabNext]_labVars => LabTypes'
<1> SUFFICES ASSUME LabTypes, [LabNext]_labVars PROVE LabTypes'
  OBVIOUS
<1>1. order' \in LabOrder
  BY OrdersKept
<1>2. release' \in Nat \ {0}
  <2>1. release' \in {release, release + 1}
    BY DEF LabNext, LabStep, labVars, inits, startsLab, writesFiles, WritesFile, databaseUp,
       buildsContracts, migrates, buildsLab, asksService, launched, waitLaunched, stops, stopEnds,
       labCommandDies, updates, spawnsService, recordsService, stopsNext, restarts, awaitsEnd,
       goesAway, processDies, comesUp, faultsComponent, ByProcess, FilesStay
  <2> QED
    BY <2>1 DEF LabTypes
<1>3. private' \in LabFiles
  <2>1. \/ UNCHANGED private
        \/ \E f \in {"config", "credentials", "env"}, w \in File :
             private' = [private EXCEPT ![f] = w]
    BY DEF LabNext, LabStep, labVars, inits, startsLab, writesFiles, WritesFile, databaseUp,
       buildsContracts, migrates, buildsLab, asksService, launched, waitLaunched, stops, stopEnds,
       labCommandDies, updates, spawnsService, recordsService, stopsNext, restarts, awaitsEnd,
       goesAway, processDies, comesUp, faultsComponent, ByProcess, FilesStay, File
  <2> QED
    BY <2>1 DEF LabTypes, LabFiles
<1>4. database' \in Databases
  <2>1. database' \in {database, Migrated}
    BY DEF LabNext, LabStep, labVars, inits, startsLab, writesFiles, WritesFile, databaseUp,
       buildsContracts, migrates, buildsLab, asksService, launched, waitLaunched, stops, stopEnds,
       labCommandDies, updates, spawnsService, recordsService, stopsNext, restarts, awaitsEnd,
       goesAway, processDies, comesUp, faultsComponent, ByProcess, FilesStay
  <2>2. Migrated \in Databases
    BY DEF LabTypes, Databases, Migrated
  <2> QED
    BY <2>1, <2>2 DEF LabTypes
<1> QED
  BY <1>1, <1>2, <1>3, <1>4, ProcessesKept DEF LabTypes, LabFiles, Databases

LEMMA LabBegins == LabInit => LabTypes
<1> SUFFICES ASSUME LabInit PROVE LabTypes
  OBVIOUS
<1>1. release \in Nat \ {0} /\ private \in LabFiles /\ order \in LabOrder
  BY RestIs DEF LabInit, LabFiles, File
<1>2. database \in Databases
  BY DEF LabInit, Databases
<1>3. /\ process \in [LabService -> [Instance -> {"NONE"} \cup Present]]
      /\ registry \in [LabService -> Instance \cup {0}]
  BY DEF LabInit
<1> QED
  BY <1>1, <1>2, <1>3 DEF LabTypes

\* What makes EveryServiceIsTracked inductive: a service is spawned and recorded only
\* where the registry's process is gone, and given up only when it has been told.
\* (lab.mjs 489-576, 935-1008)
LabTracked ==
  /\ EveryServiceIsTracked
  /\ order.at = "SPAWN" /\ ~windows /\ Named \in LabService => ~owned(Named)
  /\ order.at = "RECORD" /\ windows /\ Named \in LabService => ~owned(Named)
  /\ order.at = "RECORD" /\ ~windows /\ Named \in LabService =>
       ~owned(Named) \/ registry[Named] = order.pid
  /\ order.at = "AWAIT" /\ Named \in LabService /\ registry[Named] # 0 =>
       process[Named][registry[Named]] \notin {"BORN", "SERVES"}

\* Processes only go on to their end.
Fades ==
  \A n \in LabService, k \in Instance :
    /\ process'[n][k] \in Present => process[n][k] \in Present
    /\ process'[n][k] \in {"BORN", "SERVES"} => process[n][k] \in {"BORN", "SERVES"}

LEMMA NothingBegins == UNCHANGED process => Fades
  BY DEF Fades

LEMMA TellsFades ==
  ASSUME LabTypes, NEW n, n \in LabService => owned(n), Tells(n)
  PROVE  /\ Fades
         /\ n \in LabService => process'[n][registry[n]] \notin {"BORN", "SERVES"}
<1>1. process \in [LabService -> [Instance -> {"NONE"} \cup Present]]
  BY DEF LabTypes
<1>2. process' = [process EXCEPT ![n][registry[n]] = AfterTold(process[n][registry[n]])]
  BY DEF Tells
<1>3. AfterTold(process[n][registry[n]]) \in {"TOLD", "CLOSED"}
  BY DEF AfterTold
<1>4. CASE n \in LabService
  <2>1. registry[n] \in Instance /\ process[n][registry[n]] \in Present
    BY <1>4 DEF owned, LabTypes
  <2>2. process'[n][registry[n]] \notin {"BORN", "SERVES"}
    BY <1>1, <1>2, <1>3, <1>4, <2>1
  <2>3. ASSUME NEW m \in LabService, NEW k \in Instance
        PROVE  process'[m][k] = process[m][k] \/ (m = n /\ k = registry[n])
    BY <1>1, <1>2, <1>4, <2>1, <2>3
  <2> QED
    BY <2>1, <2>2, <2>3 DEF Fades
<1>5. CASE n \notin LabService
  <2>1. \A m \in LabService : process'[m] = process[m]
    BY <1>1, <1>2, <1>5
  <2> QED
    BY <1>5, <2>1 DEF Fades
<1> QED
  BY <1>4, <1>5

\* A step that neither spawns nor records.
LEMMA TrackedThrough ==
  ASSUME LabTypes, LabTypes', LabTracked, Fades, UNCHANGED <<windows, registry>>,
         lost \subseteq lost',
         \/ order' = order
         \/ /\ order'.at \notin {"SPAWN", "RECORD", "AWAIT"}
            /\ order.at = "RECORD" /\ ~windows => Named \in lost'
  PROVE  LabTracked'
<1>1. \A n : MustEnd(n)' <=> MustEnd(n)
  BY DEF MustEnd
<1>2. EveryServiceIsTracked'
  <2> SUFFICES ASSUME NEW n \in LabService, NEW k \in Instance,
                      process'[n][k] \in (IF MustEnd(n) THEN Present ELSE {"BORN", "SERVES"}),
                      registry[n] # k
               PROVE  /\ ~windows
                      /\ \/ n \in lost'
                         \/ order'.at = "RECORD" /\ Named' = n /\ order'.pid = k
    BY <1>1 DEF EveryServiceIsTracked
  <2>1. process[n][k] \in (IF MustEnd(n) THEN Present ELSE {"BORN", "SERVES"})
    BY DEF Fades
  <2>2. ~windows /\ (n \in lost \/ (order.at = "RECORD" /\ Named = n /\ order.pid = k))
    BY <2>1 DEF LabTracked, EveryServiceIsTracked
  <2>3. CASE order' = order
    BY <2>2, <2>3 DEF Named
  <2>4. CASE order'.at \notin {"SPAWN", "RECORD", "AWAIT"} /\ order' # order
    BY <2>2, <2>4
  <2> QED
    BY <2>3, <2>4
<1>3. CASE order' = order
  <2>1. Named' = Named
    BY <1>3 DEF Named
  <2>2. Named \in LabService => (owned(Named)' => owned(Named))
    <3>1. ASSUME Named \in LabService, owned(Named)' PROVE owned(Named)
      <4>1. /\ registry[Named] \in Instance /\ registry[Named] # 0
            /\ process'[Named][registry[Named]] \in Present
        BY <2>1, <3>1 DEF owned, LabTypes
      <4>2. process[Named][registry[Named]] \in Present
        BY <3>1, <4>1 DEF Fades
      <4> QED
        BY <4>1, <4>2 DEF owned
    <3> QED
      BY <3>1
  <2>3. Named \in LabService /\ registry[Named] # 0 =>
          registry[Named] \in Instance
    BY DEF LabTypes
  <2> QED
    BY <1>2, <1>3, <2>1, <2>2, <2>3 DEF LabTracked, Fades
<1>4. CASE order'.at \notin {"SPAWN", "RECORD", "AWAIT"}
  BY <1>2, <1>4 DEF LabTracked
<1> QED
  BY <1>3, <1>4

LEMMA AsksTracked == LabTypes /\ LabTypes' /\ LabTracked /\ UNCHANGED windows /\ asksService
                     => LabTracked'
<1> SUFFICES ASSUME LabTypes, LabTypes', LabTracked, UNCHANGED windows, asksService
             PROVE  LabTracked'
  OBVIOUS
<1>1. /\ UNCHANGED <<process, registry, lost>> /\ order.at = "LAUNCH" /\ order \in LabOrder
  BY DEF asksService, LabTypes
<1>2. PICK n \in First(StartOrder) :
        IF owned(n)
        THEN TakesUp(n, "WAIT")
        ELSE IF listening(n) /\ n # "route_rpc_stage" THEN Ended("FAILED")
             ELSE TakesUp(n, IF windows THEN "RECORD" ELSE "SPAWN")
  BY DEF asksService
<1>3. CASE owned(n) \/ Ended("FAILED")
  <2>1. order'.at \in {"WAIT", "IDLE"}
    BY <1>1, <1>2, <1>3, TakesUpIs, EndedIs DEF LabPlaces
  <2> QED
    BY <1>1, <2>1, NothingBegins, TrackedThrough
<1>4. CASE ~owned(n) /\ TakesUp(n, IF windows THEN "RECORD" ELSE "SPAWN")
  <2>1. Named' = n /\ order'.at = IF windows THEN "RECORD" ELSE "SPAWN"
    BY <1>1, <1>4, TakesUpIs DEF LabPlaces, Named
  <2>2. ~owned(Named)'
    BY <1>1, <1>4, <2>1 DEF owned
  <2>3. EveryServiceIsTracked'
    BY <1>1 DEF LabTracked, EveryServiceIsTracked, MustEnd
  <2> QED
    BY <2>1, <2>2, <2>3 DEF LabTracked
<1> QED
  BY <1>2, <1>3, <1>4

LEMMA SpawnsTracked == LabTypes /\ LabTypes' /\ LabTracked /\ UNCHANGED windows /\ spawnsService
                       => LabTracked'
<1> SUFFICES ASSUME LabTypes, LabTypes', LabTracked, UNCHANGED windows, spawnsService
             PROVE  LabTracked'
  OBVIOUS
<1>1. /\ UNCHANGED <<registry, lost>> /\ order.at = "SPAWN" /\ order \in LabOrder
      /\ process \in [LabService -> [Instance -> {"NONE"} \cup Present]]
  BY DEF spawnsService, LabTypes
<1>2. CASE UNCHANGED process /\ Ended("FAILED")
  BY <1>1, <1>2, EndedIs, NothingBegins, TrackedThrough
<1>3. ASSUME NEW k \in Instance,
             IF windows THEN k = registry[Named] ELSE Fresh(Named, k),
             process' = [process EXCEPT ![Named][k] = "BORN"],
             order' = [order EXCEPT !.at = IF windows THEN "WAIT" ELSE "RECORD", !.pid = k]
      PROVE  LabTracked'
  <2>1. /\ order'.name = order.name /\ order'.pid = k
        /\ order'.at = IF windows THEN "WAIT" ELSE "RECORD"
    BY <1>1, <1>3 DEF LabOrder
  <2>2. Named' = Named
    BY <2>1 DEF Named
  <2>3. \A n \in LabService, j \in Instance :
          (n # Named \/ j # k) => process'[n][j] = process[n][j]
    BY <1>1, <1>3
  <2>4. \A n : MustEnd(n)' <=> MustEnd(n)
    BY DEF MustEnd
  <2>5. EveryServiceIsTracked'
    <3> SUFFICES ASSUME NEW n \in LabService, NEW j \in Instance,
                        process'[n][j] \in (IF MustEnd(n) THEN Present ELSE {"BORN", "SERVES"}),
                        registry[n] # j
                 PROVE  /\ ~windows
                        /\ \/ n \in lost
                           \/ order'.at = "RECORD" /\ Named' = n /\ order'.pid = j
      BY <1>1, <2>4 DEF EveryServiceIsTracked
    <3>1. CASE n = Named /\ j = k
      BY <1>3, <2>1, <2>2, <3>1
    <3>2. CASE n # Named \/ j # k
      BY <1>1, <2>3, <3>2 DEF LabTracked, EveryServiceIsTracked
    <3> QED
      BY <3>1, <3>2
  <2>6. ~windows /\ Named \in LabService => ~owned(Named)' \/ registry[Named] = k
    <3> SUFFICES ASSUME ~windows, Named \in LabService, registry[Named] # k
                 PROVE  ~owned(Named)'
      OBVIOUS
    <3>1. registry[Named] = 0 \/ process[Named][registry[Named]] \notin Present
      BY <1>1 DEF LabTracked, owned
    <3>2. registry[Named] # 0 => registry[Named] \in Instance
      BY DEF LabTypes
    <3> QED
      BY <1>1, <2>2, <2>3, <3>1, <3>2 DEF owned
  <2> QED
    BY <1>1, <2>1, <2>2, <2>5, <2>6 DEF LabTracked
<1> QED
  BY <1>2, <1>3 DEF spawnsService

LEMMA RecordsTracked == LabTypes /\ LabTypes' /\ LabTracked /\ UNCHANGED windows
                        /\ recordsService => LabTracked'
<1> SUFFICES ASSUME LabTypes, LabTypes', LabTracked, UNCHANGED windows, recordsService
             PROVE  LabTracked'
  OBVIOUS
<1>1. /\ UNCHANGED process /\ order.at = "RECORD" /\ order \in LabOrder
      /\ registry \in [LabService -> Instance \cup {0}]
  BY DEF recordsService, LabTypes
<1>2. CASE Ended("FAILED") /\ lost' = lost \cup Unrecorded /\ UNCHANGED registry
  <2>1. ~windows => Named \in lost'
    BY <1>1, <1>2 DEF Unrecorded
  <2> QED
    BY <1>1, <1>2, <2>1, EndedIs, NothingBegins, TrackedThrough
<1>3. ASSUME NEW k \in Instance,
             IF windows THEN Fresh(Named, k) ELSE k = order.pid,
             registry' = [registry EXCEPT ![Named] = k],
             On(IF windows THEN "SPAWN" ELSE "WAIT"), UNCHANGED lost
      PROVE  LabTracked'
  <2>1. /\ order'.name = order.name
        /\ order'.at = IF windows THEN "SPAWN" ELSE "WAIT"
    BY <1>1, <1>3, StandsIs DEF On, LabPlaces
  <2>2. \A n : MustEnd(n)' <=> MustEnd(n)
    BY DEF MustEnd
  <2>3. EveryServiceIsTracked'
    <3> SUFFICES ASSUME NEW n \in LabService, NEW j \in Instance,
                        process[n][j] \in (IF MustEnd(n) THEN Present ELSE {"BORN", "SERVES"}),
                        registry'[n] # j
                 PROVE  ~windows /\ n \in lost
      BY <1>1, <1>3, <2>2 DEF EveryServiceIsTracked
    <3>1. process[n][j] \in Present
      BY DEF Present
    <3>2. CASE n # Named
      <4>1. registry[n] # j
        BY <1>1, <1>3, <3>2
      <4> QED
        BY <1>1, <3>2, <4>1 DEF LabTracked, EveryServiceIsTracked
    <3>3. CASE n = Named
      <4>1. registry'[n] = k /\ j # k
        BY <1>1, <1>3, <3>3
      <4>2. registry[n] # j \/ ~windows
        BY <1>1, <3>1, <3>3 DEF LabTracked, owned, Instance
      <4>3. ~windows => registry[n] # j
        <5>1. ASSUME ~windows, registry[n] = j PROVE FALSE
          <6>1. k = order.pid
            BY <1>3, <5>1
          <6> QED
            BY <1>1, <3>1, <3>3, <4>1, <5>1, <6>1 DEF LabTracked, owned, Instance
        <5> QED
          BY <5>1
      <4>4. registry[n] # j
        BY <4>2, <4>3
      <4>5. ~windows /\ (n \in lost \/ order.pid = j)
        BY <4>4 DEF LabTracked, EveryServiceIsTracked
      <4> QED
        BY <1>3, <4>1, <4>5
    <3> QED
      BY <3>2, <3>3
  <2> QED
    BY <2>1, <2>3 DEF LabTracked
<1> QED
  BY <1>2, <1>3 DEF recordsService

LEMMA StopsNextTracked == LabTypes /\ LabTypes' /\ LabTracked /\ UNCHANGED windows /\ stopsNext
                          => LabTracked'
<1> SUFFICES ASSUME LabTypes, LabTypes', LabTracked, UNCHANGED windows, stopsNext
             PROVE  LabTracked'
  OBVIOUS
<1>1. /\ UNCHANGED <<registry, lost>> /\ order.at = "STOP" /\ order \in LabOrder
      /\ registry \in [LabService -> Instance \cup {0}]
  BY DEF stopsNext, LabTypes
<1>2. PICK n \in LabService :
        /\ IF owned(n) THEN Tells(n) ELSE UNCHANGED process
        /\ order'.at = "AWAIT" /\ order'.name = n
  BY <1>1, StopsNextIs
<1>3. Named' = n
  BY <1>2 DEF Named
<1>4. /\ Fades
      /\ registry[n] # 0 => process'[n][registry[n]] \notin {"BORN", "SERVES"}
  <2>1. CASE owned(n)
    BY <1>2, <1>3, <2>1, TellsFades
  <2>2. CASE ~owned(n)
    BY <1>2, <2>2, NothingBegins DEF owned, Present
  <2> QED
    BY <2>1, <2>2
<1>5. EveryServiceIsTracked'
  <2> SUFFICES ASSUME NEW m \in LabService, NEW k \in Instance,
                      process'[m][k] \in (IF MustEnd(m) THEN Present ELSE {"BORN", "SERVES"}),
                      registry[m] # k
               PROVE  ~windows /\ m \in lost
    BY <1>1 DEF EveryServiceIsTracked, MustEnd
  <2>1. process[m][k] \in (IF MustEnd(m) THEN Present ELSE {"BORN", "SERVES"})
    BY <1>4 DEF Fades
  <2> QED
    BY <1>1, <2>1 DEF LabTracked, EveryServiceIsTracked
<1> QED
  BY <1>1, <1>2, <1>3, <1>4, <1>5 DEF LabTracked

LEMMA AwaitsTracked == LabTypes /\ LabTypes' /\ LabTracked /\ UNCHANGED windows /\ awaitsEnd
                       => LabTracked'
<1> SUFFICES ASSUME LabTypes, LabTypes', LabTracked, UNCHANGED windows, awaitsEnd
             PROVE  LabTracked'
  OBVIOUS
<1>1. /\ UNCHANGED <<process, lost>> /\ order.at = "AWAIT" /\ order \in LabOrder
      /\ registry \in [LabService -> Instance \cup {0}]
  BY DEF awaitsEnd, LabTypes
<1>2. CASE Ended("FAILED") /\ UNCHANGED registry
  BY <1>1, <1>2, EndedIs, NothingBegins, TrackedThrough
<1>3. CASE /\ MustEnd(Named) => ~owned(Named)
           /\ registry' = [registry EXCEPT ![Named] = 0] /\ NextName("STOP")
  <2>1. order'.at = "STOP"
    BY <1>1, <1>3, NextNameIs DEF LabPlaces
  <2>2. EveryServiceIsTracked'
    <3> SUFFICES ASSUME NEW n \in LabService, NEW k \in Instance,
                        process[n][k] \in (IF MustEnd(n) THEN Present ELSE {"BORN", "SERVES"}),
                        registry'[n] # k
                 PROVE  ~windows /\ n \in lost
      BY <1>1 DEF EveryServiceIsTracked, MustEnd
    <3>1. registry[n] # k
      <4>1. CASE n # Named
        BY <1>1, <1>3, <4>1
      <4>2. CASE n = Named /\ registry[n] = k
        <5>1. k # 0
          BY DEF Instance
        <5>2. process[n][k] \notin {"BORN", "SERVES"}
          BY <1>1, <4>2, <5>1 DEF LabTracked
        <5>3. MustEnd(n) /\ process[n][k] \in Present
          BY <5>2
        <5> QED
          BY <1>3, <4>2, <5>1, <5>3 DEF owned
      <4> QED
        BY <4>1, <4>2
    <3> QED
      BY <1>1, <3>1 DEF LabTracked, EveryServiceIsTracked
  <2> QED
    BY <2>1, <2>2 DEF LabTracked
<1> QED
  BY <1>2, <1>3 DEF awaitsEnd

LEMMA TrackedBegins == LabInit => LabTypes /\ LabTracked
<1> SUFFICES ASSUME LabInit PROVE LabTracked
  BY LabBegins
<1>1. \A n \in LabService, k \in Instance : process[n][k] = "NONE"
  BY DEF LabInit
<1>2. order.at = "IDLE"
  BY RestIs DEF LabInit
<1> QED
  BY <1>1, <1>2 DEF LabTracked, EveryServiceIsTracked, Present

LEMMA LabTrackedKept == LabTypes /\ LabTracked /\ [LabNext]_labVars => LabTracked'
<1> SUFFICES ASSUME LabTypes, LabTracked, [LabNext]_labVars PROVE LabTracked'
  BY LabTypesKept
<1>1. LabTypes' /\ UNCHANGED windows /\ order \in LabOrder
      /\ process \in [LabService -> [Instance -> {"NONE"} \cup Present]]
  BY LabTypesKept DEF LabNext, labVars, LabTypes
<1>2. CASE asksService \/ spawnsService \/ recordsService \/ stopsNext \/ awaitsEnd
  BY <1>1, <1>2, AsksTracked, SpawnsTracked, RecordsTracked, StopsNextTracked, AwaitsTracked
<1>3. CASE inits \/ startsLab \/ stops
  <2>1. /\ UNCHANGED <<process, registry, lost>> /\ order.at = "IDLE"
    BY <1>3 DEF inits, startsLab, stops, ServicesStay, Given
  <2>2. order'.at \in {"IDLE", "CONFIG", "ENV", "UP", "STOP"}
    BY <1>3, EndedIs, RestIs DEF inits, startsLab, stops, LabOrder
  <2> QED
    BY <1>1, <2>1, <2>2, NothingBegins, TrackedThrough
<1>4. CASE restarts
  <2>1. PICK n \in Components :
          IF registry[n] = 0 \/ (~owned(n) /\ listening(n))
          THEN Ended("FAILED") /\ UNCHANGED process
          ELSE /\ IF owned(n) THEN Tells(n) ELSE UNCHANGED process
               /\ order' = [Rest EXCEPT !.at = "LAUNCH", !.what = "RESTART",
                                         !.names = {n}, !.left = {n}]
    BY <1>4 DEF restarts
  <2>2. Fades
    BY <1>1, <2>1, NothingBegins, TellsFades
  <2>3. order'.at \in {"IDLE", "LAUNCH"}
    BY <2>1, EndedIs, RestIs DEF LabOrder
  <2> QED
    BY <1>1, <1>4, <2>2, <2>3, TrackedThrough DEF restarts, Given
<1>5. CASE writesFiles \/ databaseUp \/ buildsContracts \/ migrates \/ buildsLab
  <2>1. /\ UNCHANGED <<process, registry, lost>> /\ order.at # "RECORD"
    BY <1>5 DEF writesFiles, WritesFile, databaseUp, buildsContracts, migrates, buildsLab,
       ServicesStay
  <2>2. order'.at \notin {"SPAWN", "RECORD", "AWAIT"}
    BY <1>1, <1>5, EndedIs, StandsIs DEF writesFiles, WritesFile, databaseUp,
       buildsContracts, Either, migrates, buildsLab, On, LabPlaces, LabOrder
  <2> QED
    BY <1>1, <2>1, <2>2, NothingBegins, TrackedThrough
<1>6. CASE launched \/ waitLaunched \/ stopEnds
  <2>1. /\ UNCHANGED <<process, registry, lost>> /\ order.at # "RECORD"
    BY <1>6 DEF launched, waitLaunched, stopEnds, ServicesStay
  <2>2. order'.at \in {"IDLE", "LAUNCH"}
    BY <1>1, <1>6, EndedIs, NextNameIs DEF launched, waitLaunched, stopEnds, LabPlaces
  <2> QED
    BY <1>1, <2>1, <2>2, NothingBegins, TrackedThrough
<1>7. ASSUME NEW n \in LabService, NEW k, k \in Instance \/ k = registry[n],
             comesUp(n, k) \/ goesAway(n, k) \/ processDies(n, k)
               \/ (faultsComponent(n) /\ k = registry[n])
      PROVE  LabTracked'
  <2>1. PICK s : process' = [process EXCEPT ![n][k] = s]
                 /\ (s \in Present => process[n][k] \in Present)
                 /\ (s \in {"BORN", "SERVES"} => process[n][k] \in {"BORN", "SERVES"})
    BY <1>7 DEF comesUp, goesAway, processDies, faultsComponent, Becomes, Present
  <2>2. Fades
    BY <1>1, <2>1 DEF Fades
  <2>3. UNCHANGED <<registry, order, lost>>
    BY <1>7 DEF comesUp, goesAway, processDies, faultsComponent, ByProcess
  <2> QED
    BY <1>1, <2>2, <2>3, TrackedThrough
<1>8. CASE labCommandDies
  <2>1. /\ UNCHANGED <<process, registry>> /\ lost' = lost \cup Unrecorded
        /\ order'.at = "IDLE"
    BY <1>8, EndedIs DEF labCommandDies
  <2> QED
    BY <1>1, <2>1, NothingBegins, TrackedThrough DEF Unrecorded
<1>9. CASE updates \/ UNCHANGED labVars
  BY <1>1, <1>9, NothingBegins, TrackedThrough DEF updates, labVars, ServicesStay
<1> QED
  BY <1>2, <1>3, <1>4, <1>5, <1>6, <1>7, <1>8, <1>9 DEF LabNext, LabStep

\* What makes Provisioned and OtherCheckoutKept inductive: how far an initialization has
\* come with its files, and that none goes on beside another checkout's container.
\* (lab.mjs 133-380)
LabProvisioned ==
  /\ Provisioned /\ OtherCheckoutKept
  /\ order.at = "CONFIG" => private.config = "NONE"
  /\ order.at \in {"CREDENTIALS", "ENV", "BUILD", "MIGRATE"} => private.config = "WHOLE"
  /\ order.at = "UP" /\ order.what # "START" => private.config = "WHOLE" /\ private.env = "WHOLE"
  /\ order.at \in {"BUILD", "MIGRATE"} => container = "OURS" /\ private.env = "WHOLE"
  /\ private.config = "WHOLE" =>
       private.credentials = "WHOLE" \/ cutOff \/ order.at = "CREDENTIALS"
  /\ order.at # "IDLE" => outcome # "INITIALIZED"
  /\ container = "OTHERS" => order.at \in {"IDLE", "STOP", "AWAIT"}

\* A step that leaves the files and the database: it may end a process, or start one
\* where the container is this checkout's.
LEMMA ProvisionedThrough ==
  ASSUME LabTypes, LabTypes', LabProvisioned, FilesStay, cutOff => cutOff',
         \/ order' = order /\ outcome' = outcome
         \/ /\ outcome' # "INITIALIZED"
            /\ order'.at \notin {"CONFIG", "CREDENTIALS", "ENV", "UP", "BUILD", "MIGRATE"}
            /\ order.at = "CREDENTIALS" => cutOff'
            /\ container = "OTHERS" => order'.at \in {"IDLE", "STOP", "AWAIT"},
         \A k \in Instance : process'["control"][k] = "SERVES" =>
                               process["control"][k] = "SERVES" \/ database.version > 0,
         container = "OTHERS" =>
           Fades /\ \A n \in LabService : registry'[n] \in {0, registry[n]}
  PROVE  LabProvisioned'
<1>1. UNCHANGED <<private, container, database, release>>
  BY DEF FilesStay
<1>2. Provisioned'
  BY <1>1 DEF LabProvisioned, Provisioned
<1>3. OtherCheckoutKept'
  BY <1>1 DEF LabProvisioned, OtherCheckoutKept, Fades, Untold, Is
<1>4. CASE order' = order /\ outcome' = outcome
  BY <1>1, <1>2, <1>3, <1>4 DEF LabProvisioned
<1>5. CASE /\ outcome' # "INITIALIZED"
           /\ order'.at \notin {"CONFIG", "CREDENTIALS", "ENV", "UP", "BUILD", "MIGRATE"}
           /\ order.at = "CREDENTIALS" => cutOff'
           /\ container = "OTHERS" => order'.at \in {"IDLE", "STOP", "AWAIT"}
  BY <1>1, <1>2, <1>3, <1>5 DEF LabProvisioned
<1> QED
  BY <1>4, <1>5

LEMMA WritesFilesProvisioned ==
  LabTypes /\ LabTypes' /\ LabProvisioned /\ writesFiles => LabProvisioned'
<1> SUFFICES ASSUME LabTypes, LabTypes', LabProvisioned, writesFiles PROVE LabProvisioned'
  OBVIOUS
<1>1. /\ UNCHANGED <<container, database, release, process, registry>>
      /\ order \in LabOrder /\ private \in LabFiles /\ container # "OTHERS"
      /\ order.at \in {"CONFIG", "CREDENTIALS", "ENV"} /\ outcome # "INITIALIZED"
  BY DEF writesFiles, WritesFile, ServicesStay, LabTypes, LabProvisioned
<1>2. OtherCheckoutKept'
  BY <1>1 DEF OtherCheckoutKept
<1>3. CASE Ended("FAILED")
  <2>1. order'.at = "IDLE" /\ outcome' = "FAILED"
    BY <1>3, EndedIs DEF Ended
  <2>2. /\ order.at = "CONFIG" => ~database.admin
        /\ order.at # "CONFIG" => private'.config = private.config /\ private.config = "WHOLE"
        /\ order.at \in {"CONFIG", "CREDENTIALS"} => cutOff'
        /\ order.at = "ENV" => private'.credentials = private.credentials /\ (cutOff => cutOff')
    <3>1. order.at = "CONFIG" => ~database.admin
      BY DEF LabProvisioned, Provisioned
    <3>2. order.at # "CONFIG" => private'.config = private.config /\ private.config = "WHOLE"
      BY <1>1, <1>3, <2>1
      DEF writesFiles, WritesFile, LabFiles, LabProvisioned, On, Stands, LabOrder
    <3>3. order.at \in {"CONFIG", "CREDENTIALS"} => cutOff'
      <4>1. order' # [order EXCEPT !.at = "CREDENTIALS"] /\ order' # [order EXCEPT !.at = "ENV"]
        BY <1>1, <2>1 DEF LabOrder
      <4> QED
        BY <1>1, <4>1 DEF writesFiles, WritesFile, On, Stands
    <3>4. order.at = "ENV" => private'.credentials = private.credentials /\ (cutOff => cutOff')
      BY <1>1, <1>3, <2>1 DEF writesFiles, WritesFile, LabFiles
    <3> QED
      BY <3>1, <3>2, <3>3, <3>4
  <2>3. Provisioned'
    BY <1>1, <2>1, <2>2 DEF LabProvisioned, Provisioned
  <2> QED
    BY <1>1, <1>2, <2>1, <2>2, <2>3 DEF LabProvisioned
<1>4. CASE ~Ended("FAILED")
  <2>1. /\ UNCHANGED <<cutOff, outcome>>
        /\ \/ /\ order.at = "CONFIG" /\ Stands("CREDENTIALS")
              /\ private' = [private EXCEPT !["config"] = "WHOLE"]
           \/ /\ order.at = "CREDENTIALS" /\ Stands("ENV")
              /\ private' = [private EXCEPT !["credentials"] = "WHOLE"]
           \/ /\ order.at = "ENV" /\ Stands("UP")
              /\ private' = [private EXCEPT !["env"] = "WHOLE"]
    BY <1>4 DEF writesFiles, WritesFile, On
  <2>2. \/ /\ order.at = "CONFIG" /\ order'.at = "CREDENTIALS" /\ private'.config = "WHOLE"
        \/ /\ order.at = "CREDENTIALS" /\ order'.at = "ENV" /\ private'.config = private.config
           /\ private'.credentials = "WHOLE"
        \/ /\ order.at = "ENV" /\ order'.at = "UP" /\ private'.config = private.config
           /\ private'.credentials = private.credentials /\ private'.env = "WHOLE"
    BY <1>1, <2>1, StandsIs DEF LabFiles, LabPlaces
  <2>3. Provisioned'
    BY <1>1, <2>1, <2>2 DEF LabProvisioned, Provisioned
  <2> QED
    BY <1>1, <1>2, <2>1, <2>2, <2>3 DEF LabProvisioned
<1> QED
  BY <1>3, <1>4

LEMMA MigratesProvisioned ==
  LabTypes /\ LabTypes' /\ LabProvisioned /\ migrates => LabProvisioned'
<1> SUFFICES ASSUME LabTypes, LabTypes', LabProvisioned, migrates PROVE LabProvisioned'
  OBVIOUS
<1>1. /\ UNCHANGED <<private, container, release, process, registry, cutOff>>
      /\ order \in LabOrder /\ database \in Databases /\ release \in Nat \ {0}
      /\ order.at = "MIGRATE" /\ outcome # "INITIALIZED"
      /\ container = "OURS" /\ private.env = "WHOLE" /\ private.config = "WHOLE"
      /\ private.credentials = "WHOLE" \/ cutOff
  BY DEF migrates, ServicesStay, LabTypes, LabProvisioned
<1>2. OtherCheckoutKept'
  BY <1>1 DEF OtherCheckoutKept
<1>3. database' \in {database, Migrated} /\ order'.at \in {"IDLE", "ASK_BUILD"}
  BY <1>1, EndedIs, StandsIs DEF migrates, On, LabPlaces
<1>4. outcome' = "INITIALIZED" => database' = Migrated
  BY <1>1 DEF migrates, Ended
<1>5. /\ Migrated.version >= release /\ Migrated.version > 0 /\ Migrated.admin /\ Migrated.role
      /\ Migrated.grants = 1
  BY <1>1 DEF Migrated, Bootstraps, LabProvisioned, Provisioned, Databases
<1>6. Provisioned'
  <2>1. CASE database' = Migrated
    BY <1>1, <1>5, <2>1 DEF LabProvisioned, Provisioned
  <2>2. CASE database' = database /\ outcome' # "INITIALIZED"
    BY <1>1, <2>2 DEF LabProvisioned, Provisioned
  <2> QED
    BY <1>3, <1>4, <2>1, <2>2
<1>7. order'.at # "IDLE" => outcome' # "INITIALIZED"
  BY <1>1, EndedIs DEF migrates, On
<1> QED
  BY <1>1, <1>2, <1>3, <1>6, <1>7 DEF LabProvisioned

LEMMA DatabaseUpProvisioned ==
  LabTypes /\ LabTypes' /\ LabProvisioned /\ databaseUp => LabProvisioned'
<1> SUFFICES ASSUME LabTypes, LabTypes', LabProvisioned, databaseUp PROVE LabProvisioned'
  OBVIOUS
<1>1. /\ UNCHANGED <<private, database, release, process, registry, cutOff>>
      /\ order \in LabOrder /\ order.at = "UP" /\ outcome # "INITIALIZED"
      /\ container' \in {container, "OURS"} /\ container # "OTHERS"
  BY DEF databaseUp, ServicesStay, LabTypes, LabProvisioned
<1>2. OtherCheckoutKept' /\ outcome' # "INITIALIZED"
  BY <1>1 DEF OtherCheckoutKept, databaseUp, Ended, On
<1>3. \/ order'.at = "IDLE"
      \/ order'.at = "ASK_BUILD"
      \/ order'.at = "BUILD" /\ container' = "OURS" /\ order.what # "START"
  BY <1>1, EndedIs, StandsIs DEF databaseUp, On, LabPlaces
<1>4. Provisioned'
  BY <1>1, <1>2 DEF LabProvisioned, Provisioned
<1> QED
  BY <1>1, <1>2, <1>3, <1>4 DEF LabProvisioned

LEMMA BeginsProvisioned ==
  LabTypes /\ LabTypes' /\ LabProvisioned /\ (inits \/ startsLab \/ buildsContracts \/ updates)
    => LabProvisioned'
<1> SUFFICES ASSUME LabTypes, LabTypes', LabProvisioned,
                    inits \/ startsLab \/ buildsContracts \/ updates
             PROVE  LabProvisioned'
  OBVIOUS
<1>1. /\ UNCHANGED <<private, container, database, process, registry, cutOff>>
      /\ order \in LabOrder /\ order.at \in {"IDLE", "BUILD"} /\ outcome' # "INITIALIZED"
  BY DEF inits, startsLab, buildsContracts, updates, Given, FilesStay, ServicesStay, Either, Ended,
     On, LabTypes, LabProvisioned
<1>2. OtherCheckoutKept'
  BY <1>1 DEF LabProvisioned, OtherCheckoutKept, Untold, Is
<1>3. Provisioned'
  BY <1>1 DEF LabProvisioned, Provisioned
<1>4. container = "OTHERS" => private.config = "NONE"
  BY DEF LabProvisioned, OtherCheckoutKept
<1>5. \/ order'.at = "IDLE"
      \/ order'.at = "CONFIG" /\ private.config = "NONE" /\ container = "NONE"
      \/ order'.at = "ENV" /\ private.config = "WHOLE" /\ container # "OTHERS"
      \/ order'.at = "UP" /\ order'.what = "START" /\ container # "OTHERS"
      \/ order'.at = "MIGRATE" /\ order.at = "BUILD"
  <2>1. CASE inits
    BY <1>4, <2>1, EndedIs, RestIs DEF inits, MayInit, LabOrder
  <2>2. CASE startsLab
    BY <1>4, <2>2, EndedIs, RestIs DEF startsLab, LabOrder
  <2>3. CASE buildsContracts
    BY <1>1, <2>3, EndedIs, StandsIs DEF buildsContracts, Either, On, LabPlaces
  <2>4. CASE updates
    BY <2>4 DEF updates, Given
  <2> QED
    BY <2>1, <2>2, <2>3, <2>4
<1> QED
  BY <1>1, <1>2, <1>3, <1>5 DEF LabProvisioned

\* However often the laboratory is initialized, and wherever that is cut off, the
\* administrator has the one grant, with the schema and the role, and what says it is
\* initialized is; and beside the container of another checkout nothing is made.
\* (lab.mjs 133-380)
THEOREM LaboratoryIsProvisioned == LabSpec => [](Provisioned /\ OtherCheckoutKept)
<1> DEFINE I == LabTypes /\ LabProvisioned
<1>1. LabInit => I
  <2> SUFFICES ASSUME LabInit PROVE LabProvisioned
    BY LabBegins
  <2>1. /\ order.at = "IDLE" /\ outcome = "NONE" /\ private.config = "NONE"
        /\ database.version = 0 /\ ~database.admin /\ database.grants = 0
        /\ \A n \in LabService : registry[n] = 0
    BY RestIs DEF LabInit
  <2>2. \A n \in LabService, k \in Instance : process[n][k] = "NONE"
    BY DEF LabInit
  <2>3. "control" \in LabService
    BY LabAssumption
  <2>4. Provisioned /\ OtherCheckoutKept
    BY <2>1, <2>2, <2>3 DEF Provisioned, OtherCheckoutKept, Untold, Is
  <2> QED
    BY <2>1, <2>4 DEF LabProvisioned
<1>2. I /\ [LabNext]_labVars => I'
  <2> SUFFICES ASSUME LabTypes, LabProvisioned, [LabNext]_labVars PROVE LabProvisioned'
    BY LabTypesKept
  <2>1. /\ LabTypes' /\ order \in LabOrder /\ "control" \in LabService
        /\ process \in [LabService -> [Instance -> {"NONE"} \cup Present]]
        /\ registry \in [LabService -> Instance \cup {0}]
    BY LabTypesKept, LabAssumption DEF LabTypes
  <2>2. CASE writesFiles \/ databaseUp \/ migrates
    BY <2>1, <2>2, WritesFilesProvisioned, DatabaseUpProvisioned, MigratesProvisioned
  <2>3. CASE inits \/ startsLab \/ buildsContracts \/ updates
    BY <2>1, <2>3, BeginsProvisioned
  <2>4. CASE stops
    <3>1. /\ UNCHANGED <<process, registry, cutOff>> /\ FilesStay /\ outcome' = "NONE"
          /\ order.at = "IDLE" /\ order'.at = "STOP"
      BY <2>4, RestIs DEF stops, Given, LabOrder
    <3> QED
      BY <2>1, <3>1, NothingBegins, ProvisionedThrough
  <2>5. CASE restarts
    <3>1. PICK n \in Components :
            IF registry[n] = 0 \/ (~owned(n) /\ listening(n))
            THEN Ended("FAILED") /\ UNCHANGED process
            ELSE /\ IF owned(n) THEN Tells(n) ELSE UNCHANGED process
                 /\ order' = [Rest EXCEPT !.at = "LAUNCH", !.what = "RESTART",
                                           !.names = {n}, !.left = {n}]
                 /\ outcome' = "NONE"
      BY <2>5 DEF restarts
    <3>2. /\ UNCHANGED <<registry, cutOff>> /\ FilesStay /\ order.at = "IDLE"
      BY <2>5 DEF restarts, Given
    <3>3. CASE Ended("FAILED") /\ UNCHANGED process
      BY <2>1, <3>2, <3>3, EndedIs, NothingBegins, ProvisionedThrough DEF Ended
    <3>4. CASE ~(registry[n] = 0 \/ (~owned(n) /\ listening(n)))
      <4>1. /\ order'.at = "LAUNCH" /\ outcome' = "NONE"
        BY <3>1, <3>4, RestIs DEF LabOrder
      <4>2. container # "OTHERS"
        BY <3>4 DEF LabProvisioned, OtherCheckoutKept, Components
      <4>3. Fades
        BY <2>1, <3>1, <3>4, NothingBegins, TellsFades
      <4>4. \A k \in Instance : process'["control"][k] = "SERVES" =>
                                  process["control"][k] = "SERVES"
        <5>1. CASE owned(n)
          BY <2>1, <3>1, <3>4, <5>1 DEF Tells, AfterTold
        <5>2. CASE ~owned(n)
          BY <3>1, <3>4, <5>2
        <5> QED
          BY <5>1, <5>2
      <4> QED
        BY <2>1, <3>2, <4>1, <4>2, <4>4, ProvisionedThrough
    <3> QED
      BY <3>1, <3>3, <3>4
  <2>6. CASE buildsLab \/ asksService \/ launched \/ waitLaunched \/ stopEnds
    <3>1. /\ UNCHANGED <<process, registry, cutOff>> /\ FilesStay
          /\ order.at \in {"ASK_BUILD", "LAUNCH", "WAIT", "STOP"}
          /\ outcome' # "INITIALIZED"
      BY <2>1, <2>6, AsksIs DEF buildsLab, asksService, launched, waitLaunched, stopEnds,
         ServicesStay, NextName, Ended, LabProvisioned
    <3>2. order'.at \in {"IDLE", "LAUNCH", "WAIT", "SPAWN", "RECORD"}
      BY <2>1, <2>6, EndedIs, AsksIs, NextNameIs DEF buildsLab, launched, waitLaunched,
         stopEnds, LabPlaces, LabOrder
    <3>3. container = "OTHERS" => order'.at = "IDLE"
      BY <2>1, <2>6, EndedIs DEF LabProvisioned, buildsLab, asksService, launched, waitLaunched,
         stopEnds
    <3> QED
      BY <2>1, <3>1, <3>2, <3>3, NothingBegins, ProvisionedThrough
  <2>7. CASE spawnsService \/ recordsService
    <3>1. /\ FilesStay /\ UNCHANGED cutOff /\ container # "OTHERS" /\ outcome' # "INITIALIZED"
          /\ order.at \in {"SPAWN", "RECORD"}
      BY <2>7 DEF spawnsService, recordsService, LabProvisioned, Ended, On
    <3>2. order'.at \in {"IDLE", "WAIT", "RECORD", "SPAWN"}
      BY <2>1, <2>7, EndedIs, StandsIs DEF spawnsService, recordsService, On, LabPlaces, LabOrder
    <3>3. \A k \in Instance : process'["control"][k] = "SERVES" =>
                                process["control"][k] = "SERVES"
      <4>1. \/ UNCHANGED process
            \/ \E k \in Instance : process' = [process EXCEPT ![Named][k] = "BORN"]
        BY <2>7 DEF spawnsService, recordsService
      <4> QED
        BY <2>1, <4>1
    <3> QED
      BY <2>1, <3>1, <3>2, <3>3, ProvisionedThrough
  <2>8. CASE stopsNext \/ awaitsEnd
    <3>1. /\ FilesStay /\ UNCHANGED cutOff /\ outcome' # "INITIALIZED"
          /\ order.at \in {"STOP", "AWAIT"}
          /\ \A n \in LabService : registry'[n] \in {0, registry[n]}
      BY <2>1, <2>8, StopsNextIs
      DEF stopsNext, awaitsEnd, LabProvisioned, Ended, NextName
    <3>2. order'.at \in {"IDLE", "STOP", "AWAIT"}
      BY <2>1, <2>8, EndedIs, StopsNextIs, NextNameIs DEF awaitsEnd, LabPlaces
    <3>3. /\ Fades
          /\ \A k \in Instance : process'["control"][k] = "SERVES" =>
                                   process["control"][k] = "SERVES"
      <4>1. CASE UNCHANGED process
        BY <4>1, NothingBegins
      <4>2. ASSUME NEW n \in LabService, owned(n), Tells(n)
            PROVE  /\ Fades
                   /\ \A k \in Instance : process'["control"][k] = "SERVES" =>
                                            process["control"][k] = "SERVES"
        <5>1. Fades
          BY <2>1, <4>2, TellsFades
        <5>2. \A k \in Instance : process'["control"][k] = "SERVES" =>
                                    process["control"][k] = "SERVES"
          BY <2>1, <4>2 DEF Tells, AfterTold
        <5> QED
          BY <5>1, <5>2
      <4> QED
        BY <2>1, <2>8, <4>1, <4>2, StopsNextIs DEF awaitsEnd
    <3> QED
      BY <2>1, <3>1, <3>2, <3>3, ProvisionedThrough
  <2>9. ASSUME NEW n \in LabService, NEW k, k \in Instance \/ k = registry[n],
               comesUp(n, k) \/ goesAway(n, k) \/ processDies(n, k)
                 \/ (faultsComponent(n) /\ k = registry[n])
        PROVE  LabProvisioned'
    <3>1. PICK s : /\ process' = [process EXCEPT ![n][k] = s]
                   /\ (s \in Present => process[n][k] \in Present)
                   /\ (s \in {"BORN", "SERVES"} => process[n][k] \in {"BORN", "SERVES"})
                   /\ (s = "SERVES" /\ n = "control" => database.version > 0)
      BY <2>9 DEF comesUp, goesAway, processDies, faultsComponent, Becomes, Present, CanServe
    <3>2. Fades
      BY <2>1, <3>1 DEF Fades
    <3>3. /\ UNCHANGED <<registry, order, outcome, cutOff>> /\ FilesStay
      BY <2>9 DEF comesUp, goesAway, processDies, faultsComponent, ByProcess
    <3>4. \A j \in Instance : process'["control"][j] = "SERVES" =>
                                process["control"][j] = "SERVES" \/ database.version > 0
      BY <2>1, <3>1
    <3> QED
      BY <2>1, <3>2, <3>3, <3>4, ProvisionedThrough
  <2>10. CASE labCommandDies
    <3>1. /\ FilesStay /\ UNCHANGED <<process, registry>> /\ (cutOff => cutOff')
          /\ (order.at = "CREDENTIALS" => cutOff') /\ order'.at = "IDLE" /\ outcome' = "KILLED"
      BY <2>10, EndedIs DEF labCommandDies, Ended
    <3> QED
      BY <2>1, <3>1, NothingBegins, ProvisionedThrough
  <2>11. CASE UNCHANGED labVars
    BY <2>1, <2>11, NothingBegins, ProvisionedThrough DEF labVars, FilesStay
  <2> QED
    BY <2>2, <2>3, <2>4, <2>5, <2>6, <2>7, <2>8, <2>9, <2>10, <2>11 DEF LabNext, LabStep
<1>3. I => Provisioned /\ OtherCheckoutKept
  BY DEF LabProvisioned
<1> QED
  BY <1>1, <1>2, <1>3, PTL DEF LabSpec

-----------------------------------------------------------------------------
(* The order of the services.                                              *)

InStart == order.at \in {"LAUNCH", "SPAWN", "RECORD", "WAIT"}
InStop == order.at \in {"STOP", "AWAIT"}
\* What the command has gone through.
Through == order.names \ (order.left \cup {Named})

\* What a command goes through, and how far it has come.  (lab.mjs 602-786, 1010-1250)
LabOrders ==
  /\ order.at = "IDLE" => order = Rest
  /\ outcome # "NONE" => order.at = "IDLE"
  /\ order.left \subseteq order.names
  /\ IF order.at \in {"SPAWN", "RECORD", "WAIT", "AWAIT"}
     THEN Named \in order.names \ order.left ELSE Named = "NONE"
  /\ InStart => order.names = ToStart \/ (order.names \subseteq Components /\ ~calm)
  /\ InStop => order.names \in {LabService, CpuServices} \/ ~calm

\* What makes StoppedIsStopped inductive: a stop has given up every service it has gone
\* through.  (lab.mjs 744-781, 935-1008)
LabGivenUp ==
  /\ InStop => \A n \in Through : registry[n] = 0
  /\ outcome = "STOPPED" => \A n \in LabService : registry[n] = 0

\* What makes RunsWithWhatItUses inductive: what a start has gone through serves, so what
\* it starts next has what it uses; and an answer at its port is its own.
\* (lab.mjs 396-430, 489-562, 602-684)
HasWhatItUses ==
  \A n \in LabService : Untold(n) => \A u \in Uses(n) \cap LabService : Is(u, {"SERVES"})
LabServes ==
  /\ HasWhatItUses
  /\ InStart => \A n \in Through : Is(n, {"SERVES"})
  /\ order.at \in {"SPAWN", "RECORD", "WAIT"} =>
       \A u \in Uses(Named) \cap LabService : Is(u, {"SERVES"})
  /\ order.at = "SPAWN" /\ ~ByIdentity(Named) => ~listening(Named)
  /\ order.at = "SPAWN" /\ windows =>
       registry[Named] # 0 /\ process[Named][registry[Named]] \notin {"BORN", "SERVES"}
  /\ order.at = "RECORD" /\ ~windows =>
       order.pid \in Instance /\ process[Named][order.pid] \in {"BORN", "SERVES"}
  /\ order.at = "WAIT" =>
       registry[Named] # 0 /\ process[Named][registry[Named]] \in {"BORN", "SERVES"}
  /\ \A n \in LabService, k, j \in Instance :
       process[n][k] = "BORN" /\ process[n][j] = "TOLD" => ByIdentity(n)
LabInOrder == calm /\ lost = {} => LabServes

\* What each service uses is started before it and stopped after it.
LEMMA StartPlaces ==
  /\ DOMAIN StartOrder = 1..13
  /\ StartOrder[1] = "control" /\ StartOrder[2] = "node" /\ StartOrder[3] = "gateway"
  /\ StartOrder[4] = "web" /\ StartOrder[5] = "cpu_cluster" /\ StartOrder[6] = "cpu_node"
  /\ StartOrder[7] = "route_control" /\ StartOrder[8] = "route_contributor"
  /\ StartOrder[9] = "route_stage" /\ StartOrder[10] = "route_rpc_stage"
  /\ StartOrder[11] = "route_rpc_root" /\ StartOrder[12] = "route_cluster"
  /\ StartOrder[13] = "route_root"
  BY DEF StartOrder

LEMMA StopPlaces ==
  /\ DOMAIN StopOrder = 1..13
  /\ StopOrder[1] = "web" /\ StopOrder[2] = "gateway" /\ StopOrder[3] = "route_root"
  /\ StopOrder[4] = "cpu_node" /\ StopOrder[5] = "node" /\ StopOrder[6] = "route_cluster"
  /\ StopOrder[7] = "route_rpc_root" /\ StopOrder[8] = "route_contributor"
  /\ StopOrder[9] = "route_control" /\ StopOrder[10] = "route_rpc_stage"
  /\ StopOrder[11] = "route_stage" /\ StopOrder[12] = "cpu_cluster"
  /\ StopOrder[13] = "control"
  BY DEF StopOrder

LEMMA ServicesAre ==
  \A n \in LabService :
    n \in {"control", "node", "gateway", "web", "cpu_cluster", "cpu_node", "route_control",
           "route_contributor", "route_stage", "route_rpc_stage", "route_rpc_root",
           "route_cluster", "route_root"}
<1> SUFFICES ASSUME NEW n \in LabService
             PROVE  n \in {"control", "node", "gateway", "web", "cpu_cluster", "cpu_node",
                           "route_control", "route_contributor", "route_stage",
                           "route_rpc_stage", "route_rpc_root", "route_cluster", "route_root"}
  OBVIOUS
<1>1. PICK i \in 1..13 : n = StartOrder[i]
  BY LabAssumption, StartPlaces
<1>2. i \in {1, 2, 3, 4, 5, 6, 7, 8, 9, 10, 11, 12, 13}
  BY <1>1
<1> HIDE DEF StartOrder
<1> QED
  BY <1>1, <1>2, StartPlaces

\* The pairs of a service and one it uses.
Pairs ==
  {<<"control", "web">>, <<"gateway", "web">>, <<"control", "gateway">>, <<"control", "node">>,
   <<"control", "route_stage">>, <<"control", "route_contributor">>, <<"control", "cpu_node">>,
   <<"cpu_cluster", "cpu_node">>, <<"control", "route_root">>, <<"route_cluster", "route_root">>,
   <<"route_rpc_root", "route_cluster">>, <<"route_contributor", "route_rpc_root">>,
   <<"route_rpc_stage", "route_rpc_root">>, <<"route_stage", "route_rpc_stage">>}

LEMMA UsesArePairs == \A n \in LabService : \A u \in Uses(n) : <<u, n>> \in Pairs
<1> SUFFICES ASSUME NEW n \in LabService, NEW u \in Uses(n) PROVE <<u, n>> \in Pairs
  OBVIOUS
<1>1. \/ n = "web" /\ u \in {"control", "gateway"}
      \/ n \in {"gateway", "node", "route_stage", "route_contributor"} /\ u = "control"
      \/ n = "cpu_node" /\ u \in {"control", "cpu_cluster"}
      \/ n = "route_root" /\ u \in {"control", "route_cluster"}
      \/ n = "route_cluster" /\ u = "route_rpc_root"
      \/ n = "route_rpc_root" /\ u \in {"route_contributor", "route_rpc_stage"}
      \/ n = "route_rpc_stage" /\ u = "route_stage"
  BY DEF Uses
<1> QED
  BY <1>1 DEF Pairs

LEMMA PairsInOrder ==
  ASSUME NEW u, NEW n, <<u, n>> \in Pairs
  PROVE  /\ u # n /\ Precedes(StartOrder, u, n) /\ Precedes(StopOrder, n, u)
         /\ n \in Application => u \in Application
<1>1. ASSUME NEW list, NEW i \in DOMAIN list, NEW j \in DOMAIN list, i < j
      PROVE  Precedes(list, list[i], list[j])
  BY <1>1 DEF Precedes
<1>2. \A i, j \in 1..13 : i < j => /\ Precedes(StartOrder, StartOrder[i], StartOrder[j])
                                  /\ Precedes(StopOrder, StopOrder[i], StopOrder[j])
  BY <1>1, StartPlaces, StopPlaces
<1>3. Precedes(StartOrder, u, n)
  <2>1. /\ Precedes(StartOrder, "control", "web") /\ Precedes(StartOrder, "gateway", "web")
        /\ Precedes(StartOrder, "control", "gateway") /\ Precedes(StartOrder, "control", "node")
    BY <1>2, StartPlaces
  <2>2. /\ Precedes(StartOrder, "control", "route_stage")
        /\ Precedes(StartOrder, "control", "route_contributor")
        /\ Precedes(StartOrder, "control", "cpu_node")
        /\ Precedes(StartOrder, "cpu_cluster", "cpu_node")
        /\ Precedes(StartOrder, "control", "route_root")
    BY <1>2, StartPlaces
  <2>3. /\ Precedes(StartOrder, "route_cluster", "route_root")
        /\ Precedes(StartOrder, "route_rpc_root", "route_cluster")
        /\ Precedes(StartOrder, "route_contributor", "route_rpc_root")
        /\ Precedes(StartOrder, "route_rpc_stage", "route_rpc_root")
        /\ Precedes(StartOrder, "route_stage", "route_rpc_stage")
    BY <1>2, StartPlaces
  <2> QED
    BY <2>1, <2>2, <2>3 DEF Pairs
<1>4. Precedes(StopOrder, n, u)
  <2>1. /\ Precedes(StopOrder, "web", "control") /\ Precedes(StopOrder, "web", "gateway")
        /\ Precedes(StopOrder, "gateway", "control") /\ Precedes(StopOrder, "node", "control")
    BY <1>2, StopPlaces
  <2>2. /\ Precedes(StopOrder, "route_stage", "control")
        /\ Precedes(StopOrder, "route_contributor", "control")
        /\ Precedes(StopOrder, "cpu_node", "control")
        /\ Precedes(StopOrder, "cpu_node", "cpu_cluster")
        /\ Precedes(StopOrder, "route_root", "control")
    BY <1>2, StopPlaces
  <2>3. /\ Precedes(StopOrder, "route_root", "route_cluster")
        /\ Precedes(StopOrder, "route_cluster", "route_rpc_root")
        /\ Precedes(StopOrder, "route_rpc_root", "route_contributor")
        /\ Precedes(StopOrder, "route_rpc_root", "route_rpc_stage")
        /\ Precedes(StopOrder, "route_rpc_stage", "route_stage")
    BY <1>2, StopPlaces
  <2> QED
    BY <2>1, <2>2, <2>3 DEF Pairs
<1>5. u # n /\ (n \in Application => u \in Application)
  BY DEF Pairs, Application
<1> QED
  BY <1>3, <1>4, <1>5

\* The services of a profile have what they use among them.
LEMMA UsesAreStarted ==
  ASSUME profile \in Profile, NEW n \in ToStart, NEW u \in Uses(n) \cap LabService
  PROVE  u \in ToStart
<1>1. profile \in {"NONE", "CPU_CLUSTER", "STAGES", "PORTABLE"}
  BY LabAssumption
<1>2. /\ RouteServices["NONE"] = {}
      /\ RouteServices["CPU_CLUSTER"] = {"cpu_cluster", "cpu_node"}
      /\ RouteServices["STAGES"] = StageServices \cup Guarded
      /\ RouteServices["PORTABLE"] = Portable \cup Guarded
  BY DEF RouteServices
<1>3. u \in Application \cup RouteServices[profile]
  <2>1. \/ n \in Application
        \/ profile = "CPU_CLUSTER" /\ n \in {"cpu_cluster", "cpu_node"}
        \/ profile = "STAGES" /\ n \in StageServices \cup Guarded
        \/ profile = "PORTABLE" /\ n \in Portable \cup Guarded
    BY <1>1, <1>2 DEF ToStart
  <2>2. CASE n \in Application
    BY <2>2 DEF Application, Uses
  <2>3. CASE profile = "CPU_CLUSTER" /\ n \in {"cpu_cluster", "cpu_node"}
    BY <1>2, <2>3 DEF Application, Uses
  <2>4. CASE profile = "STAGES" /\ n \in StageServices \cup Guarded
    BY <1>2, <2>4 DEF Application, Uses, StageServices, Guarded
  <2>5. CASE profile = "PORTABLE" /\ n \in Portable \cup Guarded
    BY <1>2, <2>5 DEF Application, Uses, Portable, Guarded
  <2> QED
    BY <2>1, <2>2, <2>3, <2>4, <2>5
<1> QED
  BY <1>3 DEF ToStart

LEMMA CalmKept ==
  ASSUME [LabNext]_labVars
  PROVE  UNCHANGED <<windows, profile>> /\ (calm' => calm) /\ lost \subseteq lost'
<1>1. CASE UNCHANGED labVars
  BY <1>1 DEF labVars
<1>2. CASE LabNext
  <2>1. UNCHANGED <<windows, profile>>
    BY <1>2 DEF LabNext
  <2>2. lost' \in {lost, lost \cup Unrecorded}
    BY <1>2 DEF LabNext, LabStep, inits, startsLab, stops, restarts, updates, writesFiles,
       WritesFile, databaseUp, buildsContracts, migrates, buildsLab, asksService, launched,
       spawnsService, recordsService, waitLaunched, stopsNext, awaitsEnd, stopEnds,
       labCommandDies, comesUp, goesAway, processDies, faultsComponent, ByProcess, ServicesStay
  <2>3. ASSUME UNCHANGED calm \/ calm' = FALSE PROVE calm' => calm
    BY <2>3
  <2>4. ASSUME stops PROVE calm' => calm
    <3>1. PICK names : calm' = (calm /\ names \in {LabService, CpuServices})
      BY <2>4 DEF stops
    <3> QED
      BY <3>1
  <2>5. ASSUME asksService PROVE calm' => calm
    <3>1. PICK n : calm' = (calm /\ process[n][registry[n]] \in {"BORN", "SERVES"})
                   \/ UNCHANGED calm
      BY <2>5 DEF asksService
    <3> QED
      BY <3>1
  <2>6. ASSUME NEW n, NEW k, comesUp(n, k) PROVE calm' => calm
    BY <2>6 DEF comesUp
  <2>7. \/ UNCHANGED calm \/ calm' = FALSE \/ stops \/ asksService
        \/ \E n, k : comesUp(n, k)
    BY <1>2 DEF LabNext, LabStep, inits, startsLab, restarts, updates, writesFiles,
       WritesFile, databaseUp, buildsContracts, migrates, buildsLab, launched,
       spawnsService, recordsService, waitLaunched, stopsNext, awaitsEnd, stopEnds,
       labCommandDies, goesAway, processDies, faultsComponent, ByProcess, ServicesStay
  <2> QED
    BY <2>1, <2>2, <2>3, <2>4, <2>5, <2>6, <2>7
<1> QED
  BY <1>1, <1>2

LEMMA EndedOrders == ASSUME NEW how, Ended(how) PROVE LabOrders'
<1>1. order' = Rest /\ order'.at = "IDLE"
  BY EndedIs
<1>2. order'.left = {} /\ order'.names = {} /\ order'.name = "NONE"
  BY <1>1 DEF Rest
<1> QED
  BY <1>1, <1>2 DEF LabOrders, InStart, InStop, Named

\* A step of a command that stays with its services.
LEMMA OnOrders ==
  ASSUME LabTypes, LabOrders, calm' => calm, UNCHANGED <<profile, outcome>>,
         order'.at \in LabPlaces, order'.at # "IDLE", order.at # "IDLE",
         order'.names = order.names, order'.left = order.left,
         \/ /\ order'.name = order.name
            /\ order.at \in {"SPAWN", "RECORD", "WAIT", "AWAIT"} <=>
                 order'.at \in {"SPAWN", "RECORD", "WAIT", "AWAIT"}
         \/ order'.name = "NONE" /\ order'.at \notin {"SPAWN", "RECORD", "WAIT", "AWAIT"},
         InStart' => InStart, InStop' => InStop
  PROVE  LabOrders'
<1>1. ToStart' = ToStart
  BY DEF ToStart
<1> QED
  BY <1>1 DEF LabOrders, Named

\* A command takes a service up.
LEMMA TakesUpOrders ==
  ASSUME LabTypes, LabOrders, calm' => calm, UNCHANGED profile, NEW list, NEW n \in First(list),
         NEW at \in {"SPAWN", "RECORD", "WAIT", "AWAIT"}, TakesUp(n, at),
         IF at = "AWAIT" THEN order.at = "STOP" ELSE order.at = "LAUNCH"
  PROVE  LabOrders'
<1>1. ToStart' = ToStart
  BY DEF ToStart
<1>2. /\ order'.at = at /\ order'.names = order.names /\ order'.left = order.left \ {n}
      /\ order'.name = n /\ n \in order.left /\ UNCHANGED outcome
  BY TakesUpIs DEF LabTypes, LabPlaces
<1> QED
  BY <1>1, <1>2 DEF LabOrders, Named, InStart, InStop

\* A command begins with some services.
LEMMA BeginsOrders ==
  ASSUME NEW at \in LabPlaces, NEW names, UNCHANGED profile,
         at \notin {"SPAWN", "RECORD", "WAIT", "AWAIT", "IDLE"},
         order'.at = at, order'.names = names, order'.left = names, order'.name = "NONE",
         outcome' = "NONE",
         at = "LAUNCH" => names = ToStart \/ (names \subseteq Components /\ ~calm'),
         at = "STOP" => names \in {LabService, CpuServices} \/ ~calm'
  PROVE  LabOrders'
<1>1. ToStart' = ToStart
  BY DEF ToStart
<1> QED
  BY <1>1 DEF LabOrders, Named, InStart, InStop

LEMMA LabOrdersKept == LabTypes /\ LabOrders /\ [LabNext]_labVars => LabOrders'
<1> SUFFICES ASSUME LabTypes, LabOrders, [LabNext]_labVars PROVE LabOrders'
  OBVIOUS
<1>1. /\ order \in LabOrder /\ (calm' => calm) /\ UNCHANGED profile
      /\ Rest.names = {} /\ Rest.left = {} /\ Rest.name = "NONE"
  BY CalmKept DEF LabTypes, Rest
<1>2. \A how : Ended(how) => LabOrders'
  BY EndedOrders
<1>3. CASE inits \/ startsLab
  <2>1. \/ \E how : Ended(how)
        \/ \E at \in {"CONFIG", "ENV", "UP"}, what \in {"INIT", "FIRST_START", "START"} :
             order' = [Rest EXCEPT !.what = what, !.at = at] /\ outcome' = "NONE"
    BY <1>3 DEF inits, startsLab
  <2>2. ASSUME NEW at \in {"CONFIG", "ENV", "UP"}, NEW what \in {"INIT", "FIRST_START", "START"},
               order' = [Rest EXCEPT !.what = what, !.at = at], outcome' = "NONE"
        PROVE  LabOrders'
    <3>1. /\ order'.at = at /\ order'.names = {} /\ order'.left = {} /\ order'.name = "NONE"
      BY <2>2 DEF Rest
    <3> QED
      BY <1>1, <2>2, <3>1, BeginsOrders DEF LabPlaces
  <2> QED
    BY <1>2, <2>1, <2>2
<1>4. CASE stops
  <2>1. PICK names :
          /\ order' = [Rest EXCEPT !.at = "STOP", !.what = "STOP",
                                   !.names = names, !.left = names]
          /\ calm' = (calm /\ names \in {LabService, CpuServices})
    BY <1>4 DEF stops
  <2>2. order'.at = "STOP" /\ order'.names = names /\ order'.left = names /\ order'.name = "NONE"
    BY <2>1 DEF Rest
  <2> QED
    BY <1>1, <1>4, <2>1, <2>2, BeginsOrders DEF stops, LabPlaces
<1>5. CASE restarts
  <2>1. PICK n \in Components :
          \/ Ended("FAILED")
          \/ /\ order' = [Rest EXCEPT !.at = "LAUNCH", !.what = "RESTART",
                                      !.names = {n}, !.left = {n}]
             /\ outcome' = "NONE"
    BY <1>5 DEF restarts
  <2>2. CASE order' = [Rest EXCEPT !.at = "LAUNCH", !.what = "RESTART",
                                   !.names = {n}, !.left = {n}] /\ outcome' = "NONE"
    <3>1. order'.at = "LAUNCH" /\ order'.names = {n} /\ order'.left = {n} /\ order'.name = "NONE"
      BY <2>2 DEF Rest
    <3>2. ~calm' /\ {n} \subseteq Components
      BY <1>5 DEF restarts
    <3> QED
      BY <1>1, <2>2, <3>1, <3>2, BeginsOrders DEF LabPlaces
  <2> QED
    BY <1>2, <2>1, <2>2
<1>6. CASE writesFiles \/ databaseUp \/ buildsContracts \/ migrates
  <2>1. /\ order.at \in {"CONFIG", "CREDENTIALS", "ENV", "UP", "BUILD", "MIGRATE"}
        /\ \/ \E how : Ended(how)
           \/ \E at \in {"CREDENTIALS", "ENV", "UP", "BUILD", "MIGRATE", "ASK_BUILD"} : On(at)
    BY <1>6 DEF writesFiles, WritesFile, databaseUp, buildsContracts, migrates, Either
  <2>2. ASSUME NEW at \in {"CREDENTIALS", "ENV", "UP", "BUILD", "MIGRATE", "ASK_BUILD"}, On(at)
        PROVE  LabOrders'
    <3>1. /\ order'.at = at /\ order'.names = order.names /\ order'.left = order.left
          /\ order'.name = order.name /\ UNCHANGED outcome
      BY <1>1, <2>2, StandsIs DEF On, LabPlaces
    <3> QED
      BY <1>1, <2>1, <3>1, OnOrders DEF LabPlaces, InStart, InStop
  <2> QED
    BY <1>2, <2>1, <2>2
<1>7. CASE buildsLab
  <2>1. CASE order' = [order EXCEPT !.at = "LAUNCH", !.names = ToStart, !.left = ToStart]
             /\ UNCHANGED outcome
    <3>1. /\ order'.at = "LAUNCH" /\ order'.names = ToStart /\ order'.left = ToStart
          /\ order'.name = order.name
      BY <1>1, <2>1 DEF LabOrder
    <3>2. order.at = "ASK_BUILD"
      BY <1>7 DEF buildsLab
    <3>3. order.name = "NONE" /\ outcome = "NONE"
      BY <3>2 DEF LabOrders, Named
    <3> QED
      BY <1>1, <2>1, <3>1, <3>3, BeginsOrders DEF LabPlaces
  <2> QED
    BY <1>2, <1>7, <2>1 DEF buildsLab
<1>8. CASE asksService
  <2>1. PICK n \in First(StartOrder) :
          \/ TakesUp(n, "WAIT") \/ TakesUp(n, "RECORD") \/ TakesUp(n, "SPAWN")
          \/ Ended("FAILED")
    BY <1>8 DEF asksService
  <2>2. order.at = "LAUNCH"
    BY <1>8 DEF asksService
  <2> QED
    BY <1>1, <1>2, <2>1, <2>2, TakesUpOrders
<1>9. CASE stopsNext
  <2>1. PICK n \in First(StopOrder) : TakesUp(n, "AWAIT")
    BY <1>9 DEF stopsNext
  <2>2. order.at = "STOP"
    BY <1>9 DEF stopsNext
  <2> QED
    BY <1>1, <2>1, <2>2, TakesUpOrders
<1>10. CASE launched \/ stopEnds \/ labCommandDies
  BY <1>2, <1>10 DEF launched, stopEnds, labCommandDies
<1>11. CASE spawnsService \/ recordsService
  <2>1. /\ order.at \in {"SPAWN", "RECORD"}
        /\ \/ \E how : Ended(how)
           \/ /\ order'.at \in {"WAIT", "RECORD", "SPAWN"} /\ order'.names = order.names
              /\ order'.left = order.left /\ order'.name = order.name /\ UNCHANGED outcome
    <3>1. CASE spawnsService
      BY <1>1, <3>1 DEF spawnsService, LabOrder
    <3>2. CASE recordsService
      <4>1. order.at = "RECORD" /\ (Ended("FAILED") \/ On("SPAWN") \/ On("WAIT"))
        BY <3>2 DEF recordsService
      <4> QED
        BY <1>1, <4>1, StandsIs DEF On, LabPlaces
    <3> QED
      BY <1>11, <3>1, <3>2
  <2> QED
    BY <1>1, <1>2, <2>1, OnOrders DEF LabPlaces, InStart, InStop
<1>12. CASE waitLaunched \/ awaitsEnd
  <2>1. \/ \E how : Ended(how)
        \/ order.at = "WAIT" /\ NextName("LAUNCH")
        \/ order.at = "AWAIT" /\ NextName("STOP")
    BY <1>12 DEF waitLaunched, awaitsEnd
  <2>2. ASSUME NEW at \in {"LAUNCH", "STOP"}, NextName(at),
               order.at = IF at = "LAUNCH" THEN "WAIT" ELSE "AWAIT"
        PROVE  LabOrders'
    <3>1. /\ order'.at = at /\ order'.names = order.names /\ order'.left = order.left
          /\ order'.name = "NONE" /\ UNCHANGED outcome
      BY <1>1, <2>2, NextNameIs DEF LabPlaces
    <3> QED
      BY <1>1, <2>2, <3>1, OnOrders DEF LabPlaces, InStart, InStop
  <2> QED
    BY <1>2, <2>1, <2>2
<1>13. CASE \/ \E n \in LabService, k \in Instance :
                 comesUp(n, k) \/ goesAway(n, k) \/ processDies(n, k)
            \/ \E n \in LabService : faultsComponent(n)
            \/ UNCHANGED labVars
  <2>1. UNCHANGED <<order, outcome>>
    BY <1>13 DEF comesUp, goesAway, processDies, faultsComponent, ByProcess, labVars
  <2>2. ToStart' = ToStart
    BY <1>1 DEF ToStart
  <2> QED
    BY <1>1, <2>1, <2>2 DEF LabOrders, Named, InStart, InStop
<1>14. CASE updates
  <2>1. UNCHANGED order /\ outcome' = "NONE" /\ ToStart' = ToStart
    BY <1>1, <1>14 DEF updates, ToStart
  <2> QED
    BY <1>1, <2>1 DEF LabOrders, Named, InStart, InStop
<1> QED
  BY <1>3, <1>4, <1>5, <1>6, <1>7, <1>8, <1>9, <1>10, <1>11, <1>12, <1>13, <1>14
  DEF LabNext, LabStep

LEMMA GivenUpThrough ==
  ASSUME LabGivenUp, UNCHANGED registry, outcome' # "STOPPED",
         InStop' => InStop /\ Through' \subseteq Through
  PROVE  LabGivenUp'
  BY DEF LabGivenUp

LEMMA LabGivenUpKept ==
  LabTypes /\ LabOrders /\ LabGivenUp /\ [LabNext]_labVars => LabGivenUp'
<1> SUFFICES ASSUME LabTypes, LabOrders, LabGivenUp, [LabNext]_labVars PROVE LabGivenUp'
  OBVIOUS
<1>1. /\ order \in LabOrder /\ registry \in [LabService -> Instance \cup {0}]
      /\ Rest.names = {} /\ Rest.at = "IDLE" /\ "NONE" \notin LabService
  BY ServicesAre DEF LabTypes, Rest
<1>2. ASSUME NEW how, Ended(how), how # "STOPPED" PROVE LabGivenUp'
  <2>1. ~InStop' /\ outcome' # "STOPPED"
    BY <1>2, EndedIs DEF Ended, InStop
  <2> QED
    BY <2>1 DEF LabGivenUp
<1>3. ASSUME order'.at \notin {"STOP", "AWAIT"}, outcome' # "STOPPED" PROVE LabGivenUp'
  BY <1>3 DEF LabGivenUp, InStop
<1>4. order.at # "IDLE" => outcome # "STOPPED"
  BY DEF LabOrders
<1>5. CASE inits \/ startsLab \/ updates
  <2>1. outcome' # "STOPPED" /\ order.at = "IDLE"
    BY <1>5 DEF inits, startsLab, updates, Ended, Given
  <2>2. order'.at \in {"IDLE", "CONFIG", "ENV", "UP"}
    BY <1>5, <2>1, EndedIs, RestIs DEF inits, startsLab, updates, LabOrder
  <2> QED
    BY <1>3, <2>1, <2>2
<1>6. CASE stops
  <2>1. /\ UNCHANGED registry /\ outcome' = "NONE"
        /\ \E names : order' = [Rest EXCEPT !.at = "STOP", !.what = "STOP",
                                            !.names = names, !.left = names]
    BY <1>6 DEF stops
  <2>2. order'.names = order'.left
    BY <2>1 DEF Rest
  <2> QED
    BY <2>1, <2>2 DEF LabGivenUp, Through
<1>7. CASE restarts
  <2>1. order'.at \in {"IDLE", "LAUNCH"} /\ outcome' # "STOPPED"
    BY <1>7, EndedIs, RestIs DEF restarts, Ended, LabOrder
  <2> QED
    BY <1>3, <2>1
<1>8. CASE writesFiles \/ databaseUp \/ buildsContracts \/ migrates \/ buildsLab
           \/ spawnsService \/ recordsService \/ launched \/ waitLaunched \/ asksService
           \/ labCommandDies
  <2>1. order.at # "IDLE"
    BY <1>8 DEF writesFiles, WritesFile, databaseUp, buildsContracts, migrates, buildsLab,
       spawnsService, recordsService, launched, waitLaunched, asksService, labCommandDies
  <2>2. outcome' # "STOPPED"
    BY <1>1, <1>4, <1>8, <2>1, AsksIs DEF writesFiles, WritesFile, databaseUp, buildsContracts,
       Either, migrates, buildsLab, spawnsService, recordsService, launched, waitLaunched,
       labCommandDies, Ended, On, NextName
  <2>3. order'.at \notin {"STOP", "AWAIT"}
    <3>1. CASE writesFiles \/ databaseUp \/ buildsContracts \/ migrates
      BY <1>1, <3>1, EndedIs, StandsIs DEF writesFiles, WritesFile, databaseUp, buildsContracts,
         Either, migrates, On, LabPlaces
    <3>2. CASE buildsLab \/ spawnsService
      BY <1>1, <3>2, EndedIs DEF buildsLab, spawnsService, LabOrder
    <3>3. CASE recordsService
      BY <1>1, <3>3, EndedIs, StandsIs DEF recordsService, On, LabPlaces
    <3>4. CASE launched \/ waitLaunched \/ asksService \/ labCommandDies
      BY <1>1, <3>4, EndedIs, NextNameIs, AsksIs DEF launched, waitLaunched, labCommandDies,
         LabPlaces
    <3> QED
      BY <1>8, <3>1, <3>2, <3>3, <3>4
  <2> QED
    BY <1>3, <2>2, <2>3
<1>9. CASE stopsNext
  <2>1. PICK n : /\ n \in order.left /\ order'.at = "AWAIT" /\ order'.name = n
                 /\ order'.names = order.names /\ order'.left = order.left \ {n}
                 /\ UNCHANGED outcome
    BY <1>1, <1>9, StopsNextIs
  <2>2. UNCHANGED registry /\ order.at = "STOP" /\ order.name = "NONE"
    BY <1>9 DEF stopsNext, LabOrders, Named
  <2>3. Through' \subseteq Through
    BY <1>1, <2>1, <2>2 DEF Through, Named, LabOrder
  <2> QED
    BY <1>4, <2>1, <2>2, <2>3, GivenUpThrough DEF InStop
<1>10. CASE awaitsEnd
  <2>1. CASE registry' = [registry EXCEPT ![Named] = 0] /\ NextName("STOP")
    <3>1. /\ order'.names = order.names /\ order'.left = order.left /\ order'.at = "STOP"
          /\ UNCHANGED outcome
      BY <1>1, <2>1, NextNameIs DEF LabPlaces
    <3>2. order.at = "AWAIT"
      BY <1>10 DEF awaitsEnd
    <3>3. \A n \in Through' : n = Named \/ n \in Through
      BY <3>1 DEF Through
    <3>4. \A n \in LabService : registry'[n] = IF n = Named THEN 0 ELSE registry[n]
      BY <1>1, <2>1
    <3>5. Through' \subseteq LabService
      BY <1>1, <3>1 DEF Through, LabOrder
    <3> QED
      BY <1>4, <3>1, <3>2, <3>3, <3>4, <3>5 DEF LabGivenUp, InStop
  <2> QED
    BY <1>2, <1>10, <2>1 DEF awaitsEnd
<1>11. CASE stopEnds
  <2>1. /\ order.at = "STOP" /\ order.left = {} /\ order.name = "NONE" /\ UNCHANGED registry
        /\ Ended(IF order.names = LabService THEN "STOPPED" ELSE "DONE")
    BY <1>11 DEF stopEnds, ServicesStay, LabOrders, Named
  <2>2. CASE order.names = LabService
    <3>1. Through = LabService
      BY <1>1, <2>1, <2>2 DEF Through, Named
    <3>2. \A n \in LabService : registry'[n] = 0
      BY <2>1, <3>1 DEF LabGivenUp, InStop
    <3>3. ~InStop'
      BY <2>1, EndedIs DEF InStop
    <3> QED
      BY <3>2, <3>3 DEF LabGivenUp
  <2> QED
    BY <1>2, <2>1, <2>2
<1>12. CASE \/ \E n \in LabService, k \in Instance :
                 comesUp(n, k) \/ goesAway(n, k) \/ processDies(n, k)
            \/ \E n \in LabService : faultsComponent(n)
            \/ UNCHANGED labVars
  <2>1. UNCHANGED <<order, outcome, registry>>
    BY <1>12 DEF comesUp, goesAway, processDies, faultsComponent, ByProcess, labVars
  <2> QED
    BY <2>1 DEF LabGivenUp, Through, Named, InStop
<1> QED
  BY <1>5, <1>6, <1>7, <1>8, <1>9, <1>10, <1>11, <1>12 DEF LabNext, LabStep

\* Nothing is told or begins, and what serves goes on to.
Undisturbed ==
  \A n \in LabService, k \in Instance :
    /\ process'[n][k] \in {"BORN", "SERVES"} => process[n][k] \in {"BORN", "SERVES"}
    /\ process'[n][k] = "BORN" => process[n][k] = "BORN"
    /\ process'[n][k] = "TOLD" => process[n][k] = "TOLD"
    /\ process[n][k] = "SERVES" => process'[n][k] = "SERVES"

LEMMA NothingDisturbs == UNCHANGED process => Undisturbed
  BY DEF Undisturbed

\* What does not depend on the command.
LEMMA UndisturbedHas ==
  ASSUME LabServes, Undisturbed, UNCHANGED <<windows, profile>>
  PROVE  /\ HasWhatItUses'
         /\ \A n \in LabService : Is(n, {"SERVES"}) => Is(n, {"SERVES"})'
         /\ \A n : Uses(n)' = Uses(n) /\ (ByIdentity(n)' <=> ByIdentity(n))
         /\ \A n \in LabService, k, j \in Instance :
              process'[n][k] = "BORN" /\ process'[n][j] = "TOLD" => ByIdentity(n)
<1>1. \A n : Uses(n)' = Uses(n) /\ (ByIdentity(n)' <=> ByIdentity(n))
  BY DEF Uses, ByIdentity
<1>2. \A n \in LabService : Is(n, {"SERVES"}) => Is(n, {"SERVES"})'
  BY DEF Is, Undisturbed
<1>3. \A n \in LabService : Untold(n)' => Untold(n)
  BY DEF Untold, Is, Undisturbed
<1> QED
  BY <1>1, <1>2, <1>3 DEF LabServes, HasWhatItUses, Undisturbed

\* A step after which no start is on.
LEMMA ServesOutside ==
  ASSUME LabServes, Undisturbed, UNCHANGED <<windows, profile>>,
         order'.at \notin {"LAUNCH", "SPAWN", "RECORD", "WAIT"}
  PROVE  LabServes'
<1>1. ~InStart'
  BY DEF InStart
<1> QED
  BY <1>1, UndisturbedHas DEF LabServes

\* A laboratory whose services have ended only as a stop has gone through them, and a
\* step that leaves it so.
LabCalm ==
  /\ LabTypes /\ LabOrders /\ LabGivenUp /\ LabTracked /\ LabServes
  /\ profile \in Profile /\ calm /\ lost = {}
StaysCalm == UNCHANGED <<windows, profile>> /\ calm'

LEMMA AsksServes == LabCalm /\ StaysCalm /\ asksService => LabServes'
<1> SUFFICES ASSUME LabTypes, LabOrders, LabServes, UNCHANGED <<windows, profile>>,
                    profile \in Profile, calm, calm', asksService
             PROVE  LabServes'
  BY DEF LabCalm, StaysCalm
<1>1. /\ UNCHANGED <<process, registry>> /\ order.at = "LAUNCH" /\ order \in LabOrder
  BY DEF asksService, LabTypes
<1>2. PICK n \in First(StartOrder) :
        IF owned(n)
        THEN /\ TakesUp(n, "WAIT")
             /\ calm' = (calm /\ process[n][registry[n]] \in {"BORN", "SERVES"})
        ELSE /\ IF listening(n) /\ n # "route_rpc_stage" THEN Ended("FAILED")
                ELSE TakesUp(n, IF windows THEN "RECORD" ELSE "SPAWN")
             /\ UNCHANGED calm
  BY DEF asksService
<1>3. Undisturbed
  BY <1>1, NothingDisturbs
<1>4. CASE Ended("FAILED")
  BY <1>3, <1>4, EndedIs, ServesOutside
<1>5. ASSUME NEW at \in {"WAIT", "RECORD", "SPAWN"}, TakesUp(n, at),
             at = "WAIT" => owned(n) /\ process[n][registry[n]] \in {"BORN", "SERVES"},
             at = "RECORD" => windows,
             at = "SPAWN" => ~windows /\ (~listening(n) \/ n = "route_rpc_stage")
      PROVE  LabServes'
  <2>1. /\ order'.at = at /\ order'.names = order.names /\ order'.left = order.left \ {n}
        /\ order'.name = n /\ n \in order.left /\ n \in LabService
    BY <1>1, <1>5, TakesUpIs DEF LabPlaces
  <2>2. order.name = "NONE" /\ order.names = ToStart /\ order.left \subseteq order.names
    BY <1>1, <1>2 DEF LabOrders, Named, InStart
  <2>3. \A m \in Through' : m \in Through
    BY <1>1, <2>1, <2>2, ServicesAre DEF Through, Named, LabOrder
  <2>4. \A m \in Through : Is(m, {"SERVES"}) /\ m \in LabService
    BY <1>1 DEF LabServes, InStart, Through, LabOrder
  <2>5. \A u \in Uses(n) \cap LabService : Is(u, {"SERVES"})
    <3> SUFFICES ASSUME NEW u \in Uses(n) \cap LabService PROVE u \in Through
      BY <2>4
    <3>1. u # n /\ Precedes(StartOrder, u, n)
      BY <2>1, UsesArePairs, PairsInOrder
    <3>2. u \notin order.left
      BY <1>2, <3>1 DEF First
    <3>3. u \in ToStart /\ u # "NONE"
      BY <2>1, <2>2, UsesAreStarted, ServicesAre
    <3> QED
      BY <2>2, <3>2, <3>3 DEF Through, Named
  <2>6. \A m \in LabService : Is(m, {"SERVES"})' <=> Is(m, {"SERVES"})
    BY <1>1 DEF Is
  <2>7. at = "SPAWN" /\ ~ByIdentity(n) => ~listening(n)'
    BY <1>1, <1>5 DEF ByIdentity, listening, Is
  <2>8. at = "WAIT" => /\ registry'[n] # 0
                       /\ process'[n][registry'[n]] \in {"BORN", "SERVES"}
    BY <1>1, <1>5 DEF owned
  <2>9. \A m \in Through' : Is(m, {"SERVES"})'
    BY <2>3, <2>4, <2>6
  <2>10. Named' = n /\ ByIdentity(n)' = ByIdentity(n) /\ Uses(n)' = Uses(n)
    BY <2>1 DEF Named, ByIdentity, Uses
  <2> QED
    BY <1>3, <1>5, <2>1, <2>5, <2>6, <2>7, <2>8, <2>9, <2>10, UndisturbedHas DEF LabServes
<1> QED
  BY <1>2, <1>4, <1>5


LEMMA SpawnsServes == LabCalm /\ StaysCalm /\ spawnsService => LabServes'
<1> SUFFICES ASSUME LabTypes, LabOrders, LabServes, LabTracked, UNCHANGED <<windows, profile>>,
                    spawnsService
             PROVE  LabServes'
  BY DEF LabCalm, StaysCalm
<1>1. /\ UNCHANGED registry /\ order.at = "SPAWN" /\ order \in LabOrder
      /\ process \in [LabService -> [Instance -> {"NONE"} \cup Present]]
      /\ order.name \in LabService
  BY ServicesAre DEF spawnsService, LabTypes, LabOrders, Named, LabOrder
<1>2. CASE UNCHANGED process /\ Ended("FAILED")
  BY <1>2, EndedIs, NothingDisturbs, ServesOutside
<1>3. ASSUME NEW k \in Instance,
             IF windows THEN k = registry[Named] ELSE Fresh(Named, k),
             process' = [process EXCEPT ![Named][k] = "BORN"],
             order' = [order EXCEPT !.at = IF windows THEN "WAIT" ELSE "RECORD", !.pid = k]
      PROVE  LabServes'
  <2> DEFINE n == order.name
  <2>1. /\ order'.name = n /\ order'.names = order.names /\ order'.left = order.left
        /\ order'.pid = k /\ order'.at = IF windows THEN "WAIT" ELSE "RECORD"
    BY <1>1, <1>3 DEF LabOrder
  <2>2. /\ \A m \in LabService, j \in Instance :
             process'[m][j] = IF m = n /\ j = k THEN "BORN" ELSE process[m][j]
        /\ n \in LabService
    BY <1>1, <1>3 DEF Named
  <2>3. process[n][k] # "SERVES"
    BY <1>1, <1>3 DEF LabServes, Fresh, Named
  <2>4. \A m \in LabService : Is(m, {"SERVES"}) => Is(m, {"SERVES"})'
    BY <2>2, <2>3 DEF Is
  <2>5. \A m : Uses(m)' = Uses(m) /\ (ByIdentity(m)' <=> ByIdentity(m))
    BY DEF Uses, ByIdentity
  <2>6. HasWhatItUses'
    <3> SUFFICES ASSUME NEW m \in LabService, Untold(m)', NEW u \in Uses(m) \cap LabService
                 PROVE  Is(u, {"SERVES"})
      BY <2>4, <2>5 DEF HasWhatItUses
    <3>1. m = n \/ Untold(m)
      BY <2>2 DEF Untold, Is
    <3> QED
      BY <1>1, <3>1 DEF LabServes, HasWhatItUses, Named
  <2>7. Through' = Through /\ Named' = n
    BY <2>1 DEF Through, Named
  <2>8. \A m \in Through : m \in LabService /\ Is(m, {"SERVES"})
    BY <1>1 DEF LabServes, InStart, Through, LabOrder
  <2>9. \A m \in LabService, i, j \in Instance :
          process'[m][i] = "BORN" /\ process'[m][j] = "TOLD" => ByIdentity(m)
    <3> SUFFICES ASSUME NEW m \in LabService, NEW i \in Instance, NEW j \in Instance,
                        process'[m][i] = "BORN", process'[m][j] = "TOLD", ~ByIdentity(m)
                 PROVE  FALSE
      OBVIOUS
    <3>1. process[m][j] = "TOLD"
      BY <2>2
    <3>2. m = n /\ i = k
      BY <2>2, <3>1 DEF LabServes
    <3> QED
      BY <1>1, <3>1, <3>2 DEF LabServes, listening, Is, Named
  <2>10. /\ order'.at = "RECORD" /\ ~windows =>
              order'.pid \in Instance /\ process'[n][order'.pid] = "BORN"
         /\ order'.at = "WAIT" =>
              registry'[n] # 0 /\ process'[n][registry'[n]] = "BORN"
    BY <1>1, <1>3, <2>1, <2>2 DEF Named, Instance
  <2>11. \A u \in Uses(n) \cap LabService : Is(u, {"SERVES"})'
    BY <1>1, <2>4 DEF LabServes, Named
  <2> HIDE DEF n
  <2> QED
    BY <2>1, <2>2, <2>4, <2>5, <2>6, <2>7, <2>8, <2>9, <2>10, <2>11 DEF LabServes
<1> QED
  BY <1>2, <1>3 DEF spawnsService

LEMMA RecordsServes == LabCalm /\ StaysCalm /\ recordsService => LabServes'
<1> SUFFICES ASSUME LabTypes, LabOrders, LabServes, UNCHANGED <<windows, profile>>,
                    recordsService
             PROVE  LabServes'
  BY DEF LabCalm, StaysCalm
<1>1. /\ UNCHANGED process /\ order.at = "RECORD" /\ order \in LabOrder
      /\ registry \in [LabService -> Instance \cup {0}] /\ order.name \in LabService
  BY ServicesAre DEF recordsService, LabTypes, LabOrders, Named, LabOrder
<1>2. CASE Ended("FAILED")
  BY <1>1, <1>2, EndedIs, NothingDisturbs, ServesOutside
<1>3. ASSUME NEW k \in Instance, IF windows THEN Fresh(Named, k) ELSE k = order.pid,
             registry' = [registry EXCEPT ![Named] = k],
             On(IF windows THEN "SPAWN" ELSE "WAIT")
      PROVE  LabServes'
  <2>1. /\ order'.name = order.name /\ order'.names = order.names
        /\ order'.left = order.left /\ order'.at = IF windows THEN "SPAWN" ELSE "WAIT"
    BY <1>1, <1>3, StandsIs DEF On, LabPlaces
  <2>2. Named' = Named /\ Through' = Through /\ Named \in LabService
    BY <1>1, <2>1 DEF Through, Named
  <2>3. /\ registry'[Named] = k /\ k # 0
        /\ windows => process'[Named][k] = "NONE"
        /\ ~windows => process'[Named][k] \in {"BORN", "SERVES"}
    BY <1>1, <1>3, <2>2 DEF Fresh, LabServes, Instance
  <2>4. \A m \in LabService : Is(m, {"SERVES"})' <=> Is(m, {"SERVES"})
    BY <1>1 DEF Is
  <2>5. \A m \in Through : m \in LabService /\ Is(m, {"SERVES"})
    BY <1>1 DEF LabServes, InStart, Through, LabOrder
  <2>6. \A u \in Uses(Named) \cap LabService : Is(u, {"SERVES"})
    BY <1>1 DEF LabServes
  <2>7. windows => ByIdentity(Named)
    BY DEF ByIdentity
  <2> QED
    BY <1>1, <2>1, <2>2, <2>3, <2>4, <2>5, <2>6, <2>7, NothingDisturbs, UndisturbedHas
    DEF LabServes
<1> QED
  BY <1>2, <1>3 DEF recordsService

\* A service answers only when its own process serves.
LEMMA WaitsServes == LabCalm /\ StaysCalm /\ waitLaunched => LabServes'
<1> SUFFICES ASSUME LabTypes, LabOrders, LabServes, UNCHANGED <<windows, profile>>,
                    waitLaunched
             PROVE  LabServes'
  BY DEF LabCalm, StaysCalm
<1>1. /\ UNCHANGED <<process, registry>> /\ order.at = "WAIT" /\ order \in LabOrder
      /\ registry \in [LabService -> Instance \cup {0}] /\ order.name \in LabService
      /\ order.name = Named
  BY ServicesAre DEF waitLaunched, ServicesStay, LabTypes, LabOrders, Named, LabOrder
<1>2. CASE Ended("FAILED")
  BY <1>1, <1>2, EndedIs, NothingDisturbs, ServesOutside
<1>3. CASE Healthy(Named) /\ NextName("LAUNCH")
  <2>1. /\ order'.at = "LAUNCH" /\ order'.names = order.names /\ order'.left = order.left
    BY <1>1, <1>3, NextNameIs DEF LabPlaces
  <2>2. Is(Named, {"SERVES"})
    <3>1. /\ registry[Named] \in Instance
          /\ process[Named][registry[Named]] \in {"BORN", "SERVES"}
      BY <1>1 DEF LabServes
    <3>2. CASE ByIdentity(Named)
      BY <1>3, <3>1, <3>2 DEF Healthy, Is
    <3>3. CASE ~ByIdentity(Named)
      <4>1. PICK j \in Instance : process[Named][j] \in {"SERVES", "TOLD"}
        BY <1>3, <3>3 DEF Healthy, listening, Is
      <4> QED
        BY <1>1, <3>1, <3>3, <4>1 DEF LabServes, Is
    <3> QED
      BY <3>2, <3>3
  <2>3. \A m \in Through' : m = Named \/ m \in Through
    BY <2>1 DEF Through
  <2>4. \A m \in Through' : Is(m, {"SERVES"})
    BY <1>1, <2>2, <2>3 DEF LabServes, InStart
  <2>5. \A m : Is(m, {"SERVES"})' <=> Is(m, {"SERVES"})
    BY <1>1 DEF Is
  <2> QED
    BY <1>1, <2>1, <2>4, <2>5, NothingDisturbs, UndisturbedHas DEF LabServes
<1> QED
  BY <1>2, <1>3 DEF waitLaunched

\* What a stop tells to end is not used by anything that has not been told.
LEMMA StopsServes == LabCalm /\ StaysCalm /\ stopsNext => LabServes'
<1> SUFFICES ASSUME LabTypes, LabOrders, LabGivenUp, LabTracked, LabServes, calm, lost = {},
                    UNCHANGED <<windows, profile>>, stopsNext
             PROVE  LabServes'
  BY DEF LabCalm, StaysCalm
<1>1. /\ UNCHANGED registry /\ order.at = "STOP" /\ order \in LabOrder
      /\ process \in [LabService -> [Instance -> {"NONE"} \cup Present]]
      /\ registry \in [LabService -> Instance \cup {0}]
  BY DEF stopsNext, LabTypes
<1>2. PICK n \in First(StopOrder) :
        /\ n \in LabService /\ n \in order.left /\ order'.at = "AWAIT"
        /\ IF owned(n) THEN Tells(n) ELSE UNCHANGED process
  BY <1>1, StopsNextIs
<1>3. CASE UNCHANGED process
  BY <1>2, <1>3, NothingDisturbs, ServesOutside
<1>4. CASE owned(n) /\ Tells(n)
  <2> DEFINE r == registry[n]
  <2>1. r \in Instance /\ process[n][r] \in Present
    BY <1>1, <1>2, <1>4 DEF owned
  <2>2. \A m \in LabService, j \in Instance :
          process'[m][j] = IF m = n /\ j = r THEN AfterTold(process[n][r]) ELSE process[m][j]
    BY <1>1, <1>2, <1>4, <2>1 DEF Tells
  <2>3. AfterTold(process[n][r]) \in {"TOLD", "CLOSED"}
        /\ (AfterTold(process[n][r]) = "TOLD" => process[n][r] \in {"SERVES", "TOLD"})
    BY DEF AfterTold
  <2>4. ASSUME NEW m \in LabService, NEW j \in Instance,
               process[m][j] \in {"BORN", "SERVES"}
        PROVE  registry[m] = j
    BY <1>1, <2>4 DEF LabTracked, EveryServiceIsTracked, Present
  <2>5. ASSUME NEW m \in LabService, n \in Uses(m) PROVE ~Untold(m)
    <3>1. /\ m # n /\ Precedes(StopOrder, m, n) /\ (m \in Application => n \in Application)
      BY <2>5, UsesArePairs, PairsInOrder
    <3>2. m \notin order.left
      BY <1>2, <3>1 DEF First
    <3>3. order.names \in {LabService, CpuServices} /\ order.name = "NONE"
      BY <1>1 DEF LabOrders, InStop, Named
    <3>4. n \in order.names
      BY <1>2 DEF LabOrders
    <3>5. m \in order.names
      BY <3>1, <3>3, <3>4 DEF CpuServices
    <3>6. m # "NONE"
      BY ServicesAre
    <3>7. registry[m] = 0
      BY <1>1, <3>2, <3>3, <3>5, <3>6 DEF LabGivenUp, InStop, Through, Named
    <3>8. 0 \notin Instance
      BY DEF Instance
    <3> QED
      BY <2>4, <3>7, <3>8 DEF Untold, Is
  <2>6. \A m : Uses(m)' = Uses(m) /\ (ByIdentity(m)' <=> ByIdentity(m))
    BY DEF Uses, ByIdentity
  <2>7. HasWhatItUses'
    <3> SUFFICES ASSUME NEW m \in LabService, Untold(m)', NEW u \in Uses(m) \cap LabService
                 PROVE  Is(u, {"SERVES"})'
      BY <2>6 DEF HasWhatItUses
    <3>1. Untold(m)
      BY <2>2, <2>3 DEF Untold, Is
    <3>2. u # n
      BY <2>5, <3>1
    <3>3. Is(u, {"SERVES"})
      BY <3>1 DEF LabServes, HasWhatItUses
    <3> QED
      BY <2>2, <3>2, <3>3 DEF Is
  <2>8. \A m \in LabService, i, j \in Instance :
          process'[m][i] = "BORN" /\ process'[m][j] = "TOLD" => ByIdentity(m)
    <3> SUFFICES ASSUME NEW m \in LabService, NEW i \in Instance, NEW j \in Instance,
                        process'[m][i] = "BORN", process'[m][j] = "TOLD"
                 PROVE  ByIdentity(m)
      OBVIOUS
    <3>1. process[m][i] = "BORN" /\ (process[m][j] = "TOLD" \/ process[m][j] = "SERVES")
      BY <2>2, <2>3
    <3>2. CASE process[m][j] = "SERVES"
      BY <2>4, <3>1, <3>2
    <3> QED
      BY <3>1, <3>2 DEF LabServes
  <2>9. ~InStart'
    BY <1>2 DEF InStart
  <2> QED
    BY <1>2, <2>6, <2>7, <2>8, <2>9 DEF LabServes
<1> QED
  BY <1>2, <1>3, <1>4

\* A service begins to serve, or goes away when it has been told.
LEMMA ProcessServes ==
  ASSUME LabTypes, LabServes, Undisturbed, UNCHANGED <<windows, profile, registry, order>>,
         \A n \in LabService, k \in Instance :
           process[n][k] \in {"BORN", "SERVES"} => process'[n][k] \in {"BORN", "SERVES"},
         order.at = "SPAWN" /\ ~ByIdentity(Named) => ~listening(Named)',
         LabOrders
  PROVE  LabServes'
<1>1. Named' = Named /\ Through' = Through /\ (InStart' <=> InStart) /\ order' = order
  BY DEF Named, Through, InStart
<1>2. \A m \in Through : m \in LabService
  BY DEF Through, LabTypes, LabOrder
<1>3. order.at \in {"SPAWN", "RECORD", "WAIT"} =>
        Named \in LabService /\ registry[Named] \in Instance \cup {0}
  BY DEF LabTypes, LabOrder, LabOrders, Named
<1>4. \A m : Uses(m)' = Uses(m) /\ (ByIdentity(m)' <=> ByIdentity(m))
  BY UndisturbedHas
<1>5. InStart' => \A m \in Through' : Is(m, {"SERVES"})'
  BY <1>1, <1>2, UndisturbedHas DEF LabServes
<1>6. order'.at \in {"SPAWN", "RECORD", "WAIT"} =>
        \A u \in Uses(Named)' \cap LabService : Is(u, {"SERVES"})'
  BY <1>1, <1>4, UndisturbedHas DEF LabServes
<1>7. order'.at = "SPAWN" /\ windows' =>
        registry'[Named'] # 0 /\ process'[Named'][registry'[Named']] \notin {"BORN", "SERVES"}
  BY <1>1, <1>3 DEF LabServes, Undisturbed
<1>8. order'.at = "RECORD" /\ ~windows' =>
        order'.pid \in Instance /\ process'[Named'][order'.pid] \in {"BORN", "SERVES"}
  BY <1>1, <1>3 DEF LabServes
<1>9. order'.at = "WAIT" =>
        registry'[Named'] # 0 /\ process'[Named'][registry'[Named']] \in {"BORN", "SERVES"}
  BY <1>1, <1>3 DEF LabServes
<1>10. order'.at = "SPAWN" /\ ~ByIdentity(Named)' => ~listening(Named)'
  BY <1>1 DEF ByIdentity
<1>11. /\ HasWhatItUses'
       /\ \A n \in LabService, k, j \in Instance :
            process'[n][k] = "BORN" /\ process'[n][j] = "TOLD" => ByIdentity(n)'
  BY <1>4, UndisturbedHas
<1> QED
  BY <1>1, <1>5, <1>6, <1>7, <1>8, <1>9, <1>10, <1>11 DEF LabServes

LEMMA ComesUpServes ==
  ASSUME LabCalm, StaysCalm, NEW n \in LabService, NEW k \in Instance, comesUp(n, k)
  PROVE  LabServes'
<1>1. /\ LabTypes /\ LabOrders /\ LabTracked /\ LabServes /\ lost = {}
      /\ UNCHANGED <<windows, profile, registry, order>>
  BY DEF LabCalm, StaysCalm, comesUp, ByProcess
<1>2. CanServe(n, k)
  BY DEF StaysCalm, comesUp
<1>3. process[n][k] = "BORN" /\ process' = [process EXCEPT ![n][k] = "SERVES"]
  BY <1>2 DEF comesUp, Becomes
<1>4. process \in [LabService -> [Instance -> {"NONE"} \cup Present]]
  BY <1>1 DEF LabTypes
<1>5. \A m \in LabService, j \in Instance :
        process'[m][j] = IF m = n /\ j = k THEN "SERVES" ELSE process[m][j]
  BY <1>3, <1>4
<1>6. Undisturbed
  BY <1>3, <1>5 DEF Undisturbed
<1>7. ASSUME order.at = "SPAWN", ~ByIdentity(Named) PROVE ~listening(Named)'
  <2>1. ~windows /\ Named \in LabService
    BY <1>1, <1>7 DEF ByIdentity, LabOrders, LabTypes, LabOrder
  <2>2. ~owned(Named) /\ ~listening(Named)
    BY <1>1, <1>7, <2>1 DEF LabTracked, LabServes
  <2>3. ASSUME Named = n PROVE FALSE
    <3>1. registry[n] = k
      BY <1>1, <1>3, <1>7 DEF LabTracked, EveryServiceIsTracked, Present
    <3> QED
      BY <1>3, <2>2, <2>3, <3>1 DEF owned, Present, Instance
  <2>4. Named' = Named
    BY <1>1 DEF Named
  <2> QED
    BY <1>5, <2>1, <2>2, <2>3, <2>4 DEF listening, Is
<1> QED
  BY <1>1, <1>5, <1>6, <1>7, ProcessServes

LEMMA GoesAwayServes ==
  ASSUME LabCalm, StaysCalm, NEW n \in LabService, NEW k \in Instance, goesAway(n, k)
  PROVE  LabServes'
<1>1. /\ LabTypes /\ LabOrders /\ LabServes
      /\ UNCHANGED <<windows, profile, registry, order>>
  BY DEF LabCalm, StaysCalm, goesAway, ByProcess
<1>2. PICK s \in {"CLOSED", "NONE"} :
        process[n][k] \in {"TOLD", "CLOSED"} /\ process' = [process EXCEPT ![n][k] = s]
  BY DEF goesAway, Becomes
<1>3. process \in [LabService -> [Instance -> {"NONE"} \cup Present]]
  BY <1>1 DEF LabTypes
<1>4. \A m \in LabService, j \in Instance :
        process'[m][j] = IF m = n /\ j = k THEN s ELSE process[m][j]
  BY <1>2, <1>3
<1>5. Undisturbed
  BY <1>2, <1>4 DEF Undisturbed
<1>6. ASSUME order.at = "SPAWN", ~ByIdentity(Named) PROVE ~listening(Named)'
  <2>1. Named \in LabService /\ Named' = Named /\ ~listening(Named)
    BY <1>1, <1>6 DEF LabOrders, LabTypes, LabOrder, LabServes, Named
  <2> QED
    BY <1>4, <2>1 DEF listening, Is
<1> QED
  BY <1>1, <1>2, <1>4, <1>5, <1>6, ProcessServes

\* The steps that leave the processes alone.
LEMMA OthersServe ==
  ASSUME LabCalm, StaysCalm,
         \/ inits \/ startsLab \/ stops \/ updates \/ writesFiles \/ databaseUp
         \/ buildsContracts \/ migrates \/ buildsLab \/ launched \/ awaitsEnd \/ stopEnds
         \/ labCommandDies \/ UNCHANGED labVars
  PROVE  LabServes'
<1>1. /\ LabTypes /\ LabOrders /\ LabServes /\ order \in LabOrder
      /\ UNCHANGED <<windows, profile>>
  BY DEF LabCalm, StaysCalm, LabTypes
<1>2. UNCHANGED process /\ Undisturbed
  <2>1. UNCHANGED process
    BY DEF inits, startsLab, stops, updates, writesFiles, WritesFile, databaseUp,
       buildsContracts, migrates, buildsLab, launched, awaitsEnd, stopEnds, labCommandDies,
       labVars, ServicesStay
  <2> QED
    BY <2>1, NothingDisturbs
<1>3. ASSUME NEW how, Ended(how) PROVE LabServes'
  BY <1>1, <1>2, <1>3, EndedIs, ServesOutside
<1>4. CASE inits \/ startsLab \/ stops
  <2>1. \/ \E how : Ended(how)
        \/ order'.at \in {"CONFIG", "ENV", "UP", "STOP"}
    BY <1>4 DEF inits, startsLab, stops, Rest
  <2> QED
    BY <1>1, <1>2, <1>3, <2>1, ServesOutside
<1>5. CASE updates \/ UNCHANGED labVars
  <2>1. UNCHANGED <<registry, order>>
    BY <1>5 DEF updates, labVars, ServicesStay
  <2>2. order.at = "SPAWN" /\ ~ByIdentity(Named) => ~listening(Named)'
    BY <1>1, <1>2, <2>1 DEF LabServes, listening, Is, Named
  <2> QED
    BY <1>1, <1>2, <2>1, <2>2, ProcessServes
<1>6. CASE writesFiles \/ databaseUp \/ buildsContracts \/ migrates
  <2>1. \/ \E how : Ended(how)
        \/ \E at \in {"CREDENTIALS", "ENV", "UP", "BUILD", "MIGRATE", "ASK_BUILD"} : On(at)
    BY <1>6 DEF writesFiles, WritesFile, databaseUp, buildsContracts, migrates, Either
  <2>2. ASSUME NEW at \in {"CREDENTIALS", "ENV", "UP", "BUILD", "MIGRATE", "ASK_BUILD"}, On(at)
        PROVE  LabServes'
    <3>1. order'.at = at
      BY <1>1, <2>2, StandsIs DEF On, LabPlaces
    <3> QED
      BY <1>1, <1>2, <3>1, ServesOutside
  <2> QED
    BY <1>3, <2>1, <2>2
<1>7. CASE awaitsEnd
  <2>1. Ended("FAILED") \/ NextName("STOP")
    BY <1>7 DEF awaitsEnd
  <2>2. ASSUME NextName("STOP") PROVE LabServes'
    BY <1>1, <1>2, <2>2, NextNameIs, ServesOutside DEF LabPlaces
  <2> QED
    BY <1>3, <2>1, <2>2
<1>8. CASE launched \/ stopEnds \/ labCommandDies
  BY <1>3, <1>8 DEF launched, stopEnds, labCommandDies
<1>9. CASE buildsLab
  <2>1. CASE order' = [order EXCEPT !.at = "LAUNCH", !.names = ToStart, !.left = ToStart]
    <3>1. order'.at = "LAUNCH" /\ order'.names = order'.left
      BY <1>1, <2>1 DEF LabOrder
    <3>2. Through' = {}
      BY <3>1 DEF Through
    <3> QED
      BY <1>1, <1>2, <3>1, <3>2, UndisturbedHas DEF LabServes
  <2> QED
    BY <1>3, <1>9, <2>1 DEF buildsLab
<1> QED
  BY <1>4, <1>5, <1>6, <1>7, <1>8, <1>9

LEMMA LabInOrderKept ==
  /\ LabTypes /\ LabOrders /\ LabGivenUp /\ LabTracked /\ LabInOrder
  /\ profile \in Profile /\ [LabNext]_labVars
  => LabInOrder'
<1> SUFFICES ASSUME LabTypes, LabOrders, LabGivenUp, LabTracked, LabInOrder,
                    profile \in Profile, [LabNext]_labVars, calm', lost' = {}
             PROVE  LabServes'
  BY DEF LabInOrder
<1>1. LabCalm /\ StaysCalm
  BY CalmKept DEF LabCalm, StaysCalm, LabInOrder
<1>2. ~restarts /\ \A n, k : ~processDies(n, k) /\ ~faultsComponent(n)
  BY DEF restarts, processDies, faultsComponent
<1> QED
  BY <1>1, <1>2, AsksServes, SpawnsServes, RecordsServes, WaitsServes, StopsServes,
     ComesUpServes, GoesAwayServes, OthersServe
  DEF LabNext, LabStep

LEMMA InOrderBegins == LabInit => LabOrders /\ LabGivenUp /\ LabInOrder
<1> SUFFICES ASSUME LabInit PROVE LabOrders /\ LabGivenUp /\ LabServes
  BY DEF LabInOrder
<1>1. /\ order = Rest /\ order.at = "IDLE" /\ order.left = {} /\ order.names = {}
      /\ order.name = "NONE" /\ outcome = "NONE"
  BY DEF LabInit, Rest
<1>2. \A n \in LabService, k \in Instance : process[n][k] = "NONE"
  BY DEF LabInit
<1> QED
  BY <1>1, <1>2
  DEF LabOrders, LabGivenUp, LabServes, HasWhatItUses, Untold, Is, InStart, InStop, Named

\* What LabTypeOK says beside LabTypes.
LabBounds ==
  /\ windows \in BOOLEAN /\ profile \in Profile /\ release <= MaxRelease
  /\ container \in {"NONE", "OURS", "OTHERS"} /\ database.version <= MaxRelease
  /\ outcome \in {"NONE", "INITIALIZED", "STARTED", "STOPPED", "DONE", "FAILED", "KILLED"}
  /\ orders \in 0..MaxOrders /\ mishaps \in 0..MaxMishaps
  /\ lost \subseteq LabService /\ calm \in BOOLEAN /\ cutOff \in BOOLEAN

LEMMA BoundsBegin == LabInit => LabBounds
<1> SUFFICES ASSUME LabInit PROVE LabBounds
  OBVIOUS
<1>1. release <= MaxRelease /\ orders \in 0..MaxOrders /\ mishaps \in 0..MaxMishaps
  BY LabAssumption DEF LabInit
<1>2. database.version <= MaxRelease
  BY LabAssumption DEF LabInit
<1> QED
  BY <1>1, <1>2 DEF LabInit, LabBounds

LEMMA LabBoundsKept == LabTypes /\ LabOrders /\ LabBounds /\ [LabNext]_labVars => LabBounds'
<1> SUFFICES ASSUME LabTypes, LabOrders, LabBounds, [LabNext]_labVars PROVE LabBounds'
  OBVIOUS
<1>1. windows' \in BOOLEAN /\ profile' \in Profile
  BY CalmKept DEF LabBounds
<1>2. release' <= MaxRelease
  <2>1. release' = release \/ (release < MaxRelease /\ release' = release + 1)
    BY DEF LabNext, LabStep, labVars, inits, startsLab, writesFiles, WritesFile, databaseUp,
       buildsContracts, migrates, buildsLab, asksService, launched, waitLaunched, stops, stopEnds,
       labCommandDies, updates, spawnsService, recordsService, stopsNext, restarts, awaitsEnd,
       goesAway, processDies, comesUp, faultsComponent, ByProcess, FilesStay
  <2> QED
    BY <2>1, LabAssumption DEF LabBounds, LabTypes
<1>3. container' \in {"NONE", "OURS", "OTHERS"}
  <2>1. container' \in {container, "OURS"}
    BY DEF LabNext, LabStep, labVars, inits, startsLab, writesFiles, WritesFile, databaseUp,
       buildsContracts, migrates, buildsLab, asksService, launched, waitLaunched, stops, stopEnds,
       labCommandDies, updates, spawnsService, recordsService, stopsNext, restarts, awaitsEnd,
       goesAway, processDies, comesUp, faultsComponent, ByProcess, FilesStay
  <2> QED
    BY <2>1 DEF LabBounds
<1>4. database'.version <= MaxRelease
  <2>1. database' \in {database, Migrated}
    BY DEF LabNext, LabStep, labVars, inits, startsLab, writesFiles, WritesFile, databaseUp,
       buildsContracts, migrates, buildsLab, asksService, launched, waitLaunched, stops, stopEnds,
       labCommandDies, updates, spawnsService, recordsService, stopsNext, restarts, awaitsEnd,
       goesAway, processDies, comesUp, faultsComponent, ByProcess, FilesStay
  <2>2. Migrated.version \in {release, database.version}
    BY DEF Migrated
  <2> QED
    BY <2>1, <2>2 DEF LabBounds
<1>5. outcome' \in {"NONE", "INITIALIZED", "STARTED", "STOPPED", "DONE", "FAILED", "KILLED"}
  <2>1. outcome' \in {outcome, "NONE", "INITIALIZED", "STARTED", "STOPPED", "DONE", "FAILED",
                      "KILLED"}
    <3>1. CASE asksService \/ stopsNext
      BY <3>1, AsksIs, StopsNextIs DEF LabTypes
    <3>2. CASE ~(asksService \/ stopsNext)
      BY <3>2 DEF LabNext, LabStep, labVars, inits, startsLab, writesFiles, WritesFile,
         databaseUp, buildsContracts, migrates, buildsLab, launched, waitLaunched, stops, stopEnds,
         labCommandDies, updates, spawnsService, recordsService, restarts, awaitsEnd, goesAway,
         processDies, comesUp, faultsComponent, ByProcess, Ended, On, Either, NextName
    <3> QED
      BY <3>1, <3>2
  <2> QED
    BY <2>1 DEF LabBounds
<1>6. orders' \in 0..MaxOrders
  <2>1. UNCHANGED orders \/ (orders < MaxOrders /\ orders' = orders + 1)
    BY DEF LabNext, labVars, inits, startsLab, stops, restarts, updates, Given
  <2> QED
    BY <2>1, LabAssumption DEF LabBounds
<1>7. mishaps' \in 0..MaxMishaps
  <2>1. NoMishap \/ Mishap
    BY DEF LabNext, LabStep, labVars, inits, startsLab, writesFiles, WritesFile, databaseUp,
       buildsContracts, migrates, buildsLab, asksService, launched, waitLaunched, stops, stopEnds,
       labCommandDies, updates, spawnsService, recordsService, stopsNext, restarts, awaitsEnd,
       goesAway, processDies, comesUp, faultsComponent, Either, NoMishap
  <2> QED
    BY <2>1, LabAssumption DEF LabBounds, NoMishap, Mishap
<1>8. lost' \subseteq LabService
  <2>1. lost' \in {lost, lost \cup Unrecorded}
    BY DEF LabNext, LabStep, labVars, inits, startsLab, stops, restarts, updates, writesFiles,
       WritesFile, databaseUp, buildsContracts, migrates, buildsLab, asksService, launched,
       spawnsService, recordsService, waitLaunched, stopsNext, awaitsEnd, stopEnds,
       labCommandDies, comesUp, goesAway, processDies, faultsComponent, ByProcess, ServicesStay
  <2>2. order.at = "RECORD" => Named \in LabService
    BY DEF LabOrders, LabTypes, LabOrder
  <2> QED
    BY <2>1, <2>2 DEF LabBounds, Unrecorded
<1>9. calm' \in BOOLEAN
  <2>1. ASSUME NEW b, calm' = (calm /\ b) PROVE calm' \in BOOLEAN
    BY <2>1
  <2>2. UNCHANGED calm \/ calm' = FALSE \/ \E b : calm' = (calm /\ b)
    BY DEF LabNext, LabStep, labVars, inits, startsLab, stops, restarts, updates, writesFiles,
       WritesFile, databaseUp, buildsContracts, migrates, buildsLab, asksService, launched,
       spawnsService, recordsService, waitLaunched, stopsNext, awaitsEnd, stopEnds,
       labCommandDies, comesUp, goesAway, processDies, faultsComponent, ByProcess, ServicesStay
  <2> QED
    BY <2>1, <2>2 DEF LabBounds
<1>10. cutOff' \in BOOLEAN
  <2>1. ASSUME NEW b, cutOff' = (cutOff \/ b) PROVE cutOff' \in BOOLEAN
    BY <2>1
  <2>2. UNCHANGED cutOff \/ \E b : cutOff' = (cutOff \/ b)
    BY DEF LabNext, LabStep, labVars, inits, startsLab, stops, restarts, updates, writesFiles,
       WritesFile, databaseUp, buildsContracts, migrates, buildsLab, asksService, launched,
       spawnsService, recordsService, waitLaunched, stopsNext, awaitsEnd, stopEnds,
       labCommandDies, comesUp, goesAway, processDies, faultsComponent, ByProcess
  <2> QED
    BY <2>1, <2>2 DEF LabBounds
<1> QED
  BY <1>1, <1>2, <1>3, <1>4, <1>5, <1>6, <1>7, <1>8, <1>9, <1>10 DEF LabBounds

LEMMA LabTypeIs == LabTypes /\ LabOrders /\ LabBounds => LabTypeOK
<1> SUFFICES ASSUME LabTypes, LabOrders, LabBounds PROVE LabTypeOK
  OBVIOUS
<1>1. release \in 1..MaxRelease
  BY LabAssumption DEF LabTypes, LabBounds
<1>2. database \in [version : 0..MaxRelease, role : BOOLEAN, admin : BOOLEAN, grants : Nat]
  <2>1. database \in Databases /\ database.version \in 0..MaxRelease
    BY LabAssumption DEF LabTypes, LabBounds, Databases
  <2> QED
    BY <2>1 DEF Databases
<1>3. /\ order.what \in {"NONE", "INIT", "FIRST_START", "START", "STOP", "RESTART"}
      /\ order.at \in LabPlaces /\ order.names \subseteq LabService
      /\ order.name \in LabService \cup {"NONE"} /\ order.pid \in Instance \cup {0}
  BY DEF LabTypes, LabOrder
<1>4. private \in [config : File, credentials : File, env : File]
  BY DEF LabTypes, LabFiles
<1>5. order.left \subseteq order.names
  BY DEF LabOrders
<1> QED
  BY <1>1, <1>2, <1>3, <1>4, <1>5 DEF LabTypeOK, LabTypes, LabBounds, LabPlaces

\* "Enumerate only this lab's tracked and path-bound identities": wherever a command is
\* cut off, a stop finds every process there is, and the registry keeps what must be
\* awaited until it has ended, but for what was spawned and never recorded; whatever runs
\* and has not been told to end has what it uses; and what has been stopped is stopped.
\* (lab.mjs 489-576, 602-684, 744-781, 935-1008, 1010-1203)
THEOREM LaboratoryIsInOrder ==
  LabSpec => [](LabTypeOK /\ EveryServiceIsTracked /\ RunsWithWhatItUses /\ StoppedIsStopped)
<1> DEFINE I == /\ LabTypes /\ LabTracked /\ LabBounds
                /\ LabOrders /\ LabGivenUp /\ LabInOrder
<1>1. LabInit => I
  BY TrackedBegins, BoundsBegin, InOrderBegins
<1>2. I /\ [LabNext]_labVars => I'
  <2> SUFFICES ASSUME I, [LabNext]_labVars PROVE I'
    OBVIOUS
  <2>1. profile \in Profile
    BY DEF LabBounds
  <2> QED
    BY <2>1, LabTypesKept, LabTrackedKept, LabBoundsKept, LabOrdersKept, LabGivenUpKept,
       LabInOrderKept
<1>3. I => LabTypeOK /\ EveryServiceIsTracked /\ RunsWithWhatItUses /\ StoppedIsStopped
  <2> SUFFICES ASSUME I
               PROVE  LabTypeOK /\ EveryServiceIsTracked /\ RunsWithWhatItUses /\ StoppedIsStopped
    OBVIOUS
  <2>1. LabTypeOK /\ EveryServiceIsTracked
    BY LabTypeIs DEF LabTracked
  <2>2. RunsWithWhatItUses
    BY DEF LabInOrder, LabServes, HasWhatItUses, RunsWithWhatItUses
  <2>3. StoppedIsStopped
    <3> SUFFICES ASSUME outcome = "STOPPED", NEW n \in LabService
                 PROVE  registry[n] = 0 /\ (Untold(n) => n \in lost)
      BY DEF StoppedIsStopped
    <3>1. registry[n] = 0 /\ order.at = "IDLE"
      BY DEF LabGivenUp, LabOrders
    <3>2. ASSUME NEW k \in Instance, process[n][k] \in {"BORN", "SERVES"} PROVE n \in lost
      BY <3>1, <3>2 DEF LabTracked, EveryServiceIsTracked, Present, Instance
    <3> QED
      BY <3>1, <3>2 DEF Untold, Is
  <2> QED
    BY <2>1, <2>2, <2>3
<1> QED
  BY <1>1, <1>2, <1>3, PTL DEF LabSpec

-----------------------------------------------------------------------------
(* The host.                                                               *)

\* Whatever is installed on a host holds, wherever its commands are cut off: a route for
\* any number of stages, a cluster of any workers, a laboratory of any of its services
\* and a model's file (device-route.mjs, cluster.mjs, lab.mjs, artifacts.mjs).
THEOREM InstallationStands ==
  DeviceSpec /\ ClusterSpec /\ LabSpec /\ ArtifactsSpec => []InstallationHolds
BY InstallationIsComplete, ClusterTellsAll, LaboratoryIsInOrder, LaboratoryIsProvisioned,
   FilesAreWhole, PTL DEF InstallationHolds
=============================================================================
