# Network AI: a verification development

TLA+ models of the private laboratory of Network AI: a coordinator that lends
inference capacity of contributed machines to consumers, accounts for it in a
double-entry book of laboratory credits and settles every request from receipts;
the gateway and the node processes around it; the funded availability contracts
and cooperative pools beside it; and the processes and links of the contributors'
machines.  TLC checks small instances of the models; TLAPS proves what matters
most for every value of the constants.

Every path below is relative to `src/`; `control-api` stands for
`apps/control-api/src`, `contributor` for `packages/contributor/src`.

- [Inventory](#inventory)
- [How the parts interact](#how-the-parts-interact)
- [The modules](#the-modules)
- [What the runs check](#what-the-runs-check)
- [Fairness](#fairness)
- [What is proved](#what-is-proved)
- [What is only model-checked](#what-is-only-model-checked)
- [What is left out](#what-is-left-out)
- [Not modelled](#not-modelled)
- [Where the code and its documents disagree](#where-the-code-and-its-documents-disagree)
- [Plan](#plan)

## Inventory

Components in the order of their weight in the system, with the modules that model
them.

| Component | State it keeps | Operations | Correct when | Modules |
|---|---|---|---|---|
| Inference sessions (`control-api/sessions.ts`) | a row per request: state, billing, offer, frozen epochs, claims, receipts, deadlines | create, admit, authorize, claim, stageClaim, receipt, stageReceipt, cancel, fail, reap | every request ends, once; every hold is settled, once; a charge needs complete evidence of the admitted processes; slots and turns are respected | `Sessions` |
| Elastic quota (`control-api/capacity.ts`) | none | capacity: how many requests an account may have open | the quota is what the admission can serve | `Sessions` (`Pack`, `Quota`) |
| Ledger (`control-api/ledger.ts`, migration 001) | balances, and postings by business key | post | lines sum to zero, nobody but the issuer is overdrawn, a key is posted once | `Ledger` |
| Node records (`control-api/nodes.ts`, `market.ts` nodeState) | epoch, boot identity, state, desired state, last seen, nonces | signed, register, resume, heartbeat, nodeState | an epoch names one process; a signed request is handled once; a revocation is for good | `Fleet`, `Registration` |
| Charge arithmetic (`packages/contracts`) | none | chargeFor, quoteMaximum, splitByBps | the charge stays within the quote; a split is exact | `Payout`, `Metering` |
| Execution routes (`control-api/routes.ts`, migration 005) | routes, acceptances | publish, accept, withdraw, qualify | one open route per root; consent of every provider; a withdrawal is for good | `Offers`, `Routes` |
| Leases of nodes and of routes (`availability.ts`, `route-availability.ts`, migrations 003, 006) | leases, parts of members, domain claims, escrows | offer, accept, cancel, reconcile | the escrow is paid out or returned to the last unit; nobody is paid twice, past the window or across a restart; the accepted window stands | `Leases`, `FundedContract` |
| Cooperative pools (`control-api/cooperative.ts`, migration 007) | contributions, windows, parts of settlements, samples | fund, manage, offer, accept, cancel, recycle, refund, sample | the pool's accounts are what its rows say; a request keeps its cover; floor and reserve come first | `Cooperative`, `Pools` |
| Renewals and mandates (`control-api/renewals.ts`, migrations 008, 009) | authorities, mandates, their counters, attempts | authorize, mandate, revoke, attempt, reconcile | permissions are never stretched or reopened; what may be renewed is renewed | `Renewals`, `Pools` |
| Economics (`control-api/economics.ts`, migration 009) | parties, affiliations, supports | affiliate, support, revoke; the judgement of demand | related parties do not count as demand; an expansion takes nothing from essential capacity | `Economics`, `Pools` |
| Node process (`crates/node`) | one permit with its reservation, running sessions, cancellation tokens, a durable outbox | prepare, release, execute, run, heartbeat, flush_outbox, start | it runs only what it has claimed; the permit returns; no receipt is lost | `Delivery`, `Registration` |
| Gateway process (`crates/gateway`) | a task per request | chat, dispatch, cleanup | what the consumer is told agrees with what it is charged | `Delivery` for offers of one node |
| Stage readiness (`control-api/readiness.ts`) | none: a signed declaration from the root's last heartbeat | stage | the declaration dies with the root's silence within seconds | `Readiness` |
| Stage agent (`contributor/stage.mjs`, `rpc-memory.mjs`) | connection, declaration, preparation, one active job, receipts on disk, lent memory | prepare, authorize, start, compute commands, finish, deliver, heartbeat; allocate, free | commands are claimed and counted; evidence outlives the process; the contributor keeps its reserve | `Stage`, `RpcMemory` |
| Supervisor and guardian (`contributor/supervisor.mjs`, `state.mjs`, `guardian.mjs`, `crates/contributor-guardian`) | lock, stop request, status file, children, the job that contains them | start, observe, stop | children run only contained; a worker that ended holds nothing; its last word stays | `Worker` |
| Device link (`crates/link`) | permits, streams, tunnels and their counters | proxy, serve, forward, close | a cut response is not taken for a whole; permits return; one tunnel at a time | `PrivateLink`, `RpcTunnel` |
| Service host (`scripts/service-*.mjs`) | registry of processes, boots, stop requests | start, stop | one supervised process of a service, which the registry names; a stop is final | `Services` |
| Laboratory (`scripts/lab.mjs`) | private files, the database's container, `processes.json`, the running services | init, start, stop, restart, fault | every process is found by a later stop; services run with what they use; the administrator is made once; another checkout's container is left alone | `Lab` |
| Acquisition of a model (`scripts/artifacts.mjs`) | the file, a partial file, a lock file | fetch, verify | the file's name is only given to the manifest's bytes | `Artifacts` |
| Installation of a route (`scripts/device-route.mjs`) | checkpoint, private files, services | install, resume, start, stop | an interrupted installation is resumed without doing anything twice | `DeviceRoute` |
| Root's cluster (`scripts/cluster.mjs`) | its children, a status file | start, drain | any end ends all | `Cluster` |
| Market (`control-api/market.ts`) | models, quotes, keys, invitations, domains | qualify, quote, invite, nodeState | quotes bound charges; an invitation is used once | `Routes`, `Metering`, `Registration`, `Fleet`; keys left out |
| Everything else | – | see [Not modelled](#not-modelled) | – | – |

The hard behaviours of this system, each listed with its line under `hazards` in
`PROJECT.json`:

- **Interleaving and order.** Seven handlers can end a session, called by four
  parties that do not wait for each other: a cancellation races the receipts of a
  running route, and these arrive in any order.  Within a process, every `await` of
  the stage agent and of the supervisor lets a stop, a heartbeat or a broken
  connection in between.
- **Restarts.** A node that restarts between admission and receipt must not be paid
  for the attempt of the process before it, nor for the readiness of the interval
  it was away, yet the receipt on its disk must not be lost.  Starts overlap: an agent
  is told its epoch before it binds its port.
- **Unreliable calls.** The answer to a claim or to a receipt may be lost after it
  was served; the caller then acts on less than the coordinator knows.  Signed
  requests arrive twice and late; connections break in the middle of a response.
- **Timeouts.** Queue and execution deadlines, reservations of 15 seconds,
  declarations of seconds, offers of 5 minutes, and the reaper that must settle what
  all others have left.
- **Stale state.** The readiness a heartbeat computed before its call is stored after
  it; a batch of renewals outlives the permissions it was made from; a capability
  outlives the facts it was derived from.
- **Partial failure.** A write, a stop or a call fails between two steps of an
  installation, of a drain, of the delivery of a receipt.
- **Shared capacity and shared money.** Routes and single nodes share machines;
  essential windows, expansions, refunds and requests share a pool's accounts.
- **Arithmetic at the edges.** Rounding of charges and shares, a clock set back.

## How the parts interact

The coordinator is one process over one PostgreSQL database.  Every handler is one
`SERIALIZABLE` transaction with retries (`db.ts`), so a handler is atomic and what
interleaves is whole handlers; a handler that throws leaves everything as it was,
which is a stuttering step.  That is why the coordinator's modules have one action
per handler, and why `Delivery`, which models processes that talk to it, has one
action per *call* with the handler inside.  Handlers that use two statements outside
a transaction (a heartbeat, a signed request) are two actions.

A request goes round like this.  The gateway creates the session, which moves the
quoted maximum to the consumer's held balance, and polls for admission.  Admission
picks the account served least recently, the oldest session in it, and an offer
with a free slot in all its domains; it freezes the epoch of every participant.
The gateway has the node reserve its permit (`prepare`), authorizes the session,
and asks the node to execute.  The stages of a route and then the root claim the
attempt; claims are single-use and bound to the frozen epochs.  The node streams to
the consumer, writes a signed receipt to its outbox and sends it.  The coordinator
checks the usage, charges at most the hold, pays the providers by the shares of the
route and returns the rest.  Any party may cancel or fail on the way, and the reaper
ends what is past its deadline or whose participants restarted.

Nodes heartbeat every two seconds; what they may do and which of their sessions have
been cancelled comes back as the answer.  Availability contracts run beside all
this: the reconciliation observes every active lease every two seconds and pays the
members for intervals between two ready observations of the same process.  A pool
funds such windows; a request that is admitted under one is settled into the pool,
by priority: floor, reserve, working capital, and the rest is burned.

A contributor's machine runs a supervisor, contained by a guardian, with three
children: the worker of the engine and two links.  The stage agent in the supervisor
answers the root's calls over the control link, asks the coordinator for a
declaration with every heartbeat, and lets compute commands through the RPC link only
under a claimed job.  The root's machine runs its services under service hosts, one of
which is the cluster with the engine.

## The modules

| Module | Models | Notes |
|---|---|---|
| `Ledger` | `ledger.ts`, the triggers of migration 001 | `Post`, `PostBoth`; a repeated key changes nothing |
| `Fleet` | `nodes.ts`, `market.ts` nodeState | the epoch is the fencing token |
| `Registration` | `nodes.ts` signed, register, resume; the start of both agents; the nonces | where the epochs of `Fleet` come from |
| `Payout` | `packages/contracts` arithmetic | pure operators |
| `Offers` | offers of a node or of a route, migration 005 | extended by all that follow |
| `Sessions` | `sessions.ts`, `capacity.ts` | over `Ledger`, `Fleet`, `Offers`, `Payout` |
| `Routes` | `routes.ts`, qualification of a model | over `Offers`, `Fleet` |
| `FundedContract` | what every funded contract promises | abstract |
| `Leases` | `availability.ts`, `route-availability.ts`, migration 006 | composes `Routes`, `Fleet`, `Ledger`; implements `FundedContract` |
| `Metering` | quote, usage, charge, split of one request | where the charges of `Sessions` come from |
| `Delivery` | `crates/node`, `crates/gateway` | composes both processes with `Sessions`; implements `Sessions` |
| `Cooperative` | `cooperative.ts` | over `Ledger`; its windows are leases |
| `Economics` | `economics.ts` | over `Cooperative` |
| `Renewals` | `renewals.ts`, triggers of migrations 008, 009 | over `Economics` |
| `Pools` | – | the composition of the three, with what the whole promises; its windows implement `FundedContract` |
| `Readiness` | `readiness.ts` and the heartbeat of `stage.mjs` | over `Routes`, `Fleet` |
| `Stage` | `stage.mjs` | over `Readiness`, so that jobs meet declarations and connections |
| `RpcMemory` | `rpc-memory.mjs` | one connection |
| `Worker` | `supervisor.mjs`, `state.mjs`, `guardian.mjs`, the guardian | a process per start |
| `Services` | `service-manager.mjs`, `service-process.mjs`, `service-host.mjs` | a host per boot of one service |
| `Lab` | `lab.mjs` | the commands one after the other, over files, container, registry and services |
| `Artifacts` | `artifacts.mjs` | processes that fetch or verify one file |
| `PrivateLink`, `RpcTunnel` | `crates/link` `lib.rs`, `rpc.rs` | four parties per call; two sides per tunnel |
| `DeviceRoute` | `device-route.mjs` | one installation with its coordinator, files and services |
| `Cluster` | `cluster.mjs` | the root's engine and workers |
| `Installation` | – | `DeviceRoute`, `Cluster`, `Lab` and `Artifacts` side by side, and what must hold of each |
| `Contributor` | – | the contributor's parts side by side, their specifications and what must hold of each |
| `PayoutProofs`, `RoutesProofs`, `SessionsProofs`, `LeasesProofs`, `DeliveryProofs`, `PoolsProofs`, `HostProofs`, `ContributorProofs` | – | theorems |
| `MCSessions`, `MCRegistration`, `MCParts`, `MCLeases`, `MCDelivery`, `MCPools`, `MCStage` | – | small instances for TLC |

An operator whose name carries an underscore (`Takes_AnyAnswer`) is a plausible bug of
the definition after it.  No specification uses it: it is there so that one can see
each property fail when the code is wrong in that way.

**Sessions.**  `row` is the `sessions` table joined with its participants, domains and
receipts; `overdue` is the set of sessions whose deadline has passed, set by `Expire`
at any time; `created` and `served` are the two orders admission reads, as ordinals.
`listed` is what routes and models make of an offer; `Relist` changes it.  One action
per handler: `create`, `admit` (with `admitLate` for the expired session), `authorize`,
`stageClaim`, `claim`, `receipt` (with `lateReceipt` for one that is late or past its
session's end), `stageReceipt`, `cancel`, `fail`, `reap`.  `finalize` and `settleRoute`
are the helpers they share in the code.  A session is named by its account and
idempotency key, so a repeated `create` finds the row and stutters.

**Registration.**  `agent[p]` is how far the start of process `p` has come, `record` the
node's row and its invitation.  A request is valid while `left` is within the window;
its nonce ages until `forgets` (the reaper) drops it.  `signed` checks and `resume`
handles, in two steps; answers are taken from `granted`, late or never.

**Routes.**  A route is named by its terms (its hash in the code): republication under
other terms is another route.  Its state, the acceptances and withdrawals, the
qualification of the model, and what the view `ready_execution_offers` makes of them.

**Leases.**  `lease` holds both lease tables with their members' parts, `claimant` the
registry of domains that the triggers of migration 006 keep in step with every change
of state.  `reconcile` is one row of a run: the observation, the projection that the
code refuses when it goes down or over the maximum, the payment, and at the end the
refund, all in one transaction and so in one action.  `recent` and `due` are what the
5-second freshness and the 5-minute offer deadline say now.

**Metering.**  `quote` reserves; `settle` takes any usage the coordinator finds
plausible and says what it costs and who gets what.

**Delivery.**  `gate[s]` is the call the gateway's task for `s` makes next, `local[s]`
what the node process holds for `s`, `outbox[s]` the receipt on disk, `loop[n]` where
the background loop is, `told[s]` the closing event the consumer has been sent.  A
remote call is refused or lost, served and heard, or served with its answer lost.  A
call that lands after its caller has given up is the third case with other steps in
between, as the caller then knows nothing of it: it needs no action of its own because
the caller may also be slow to give up.  A consumer may leave during any call, and a
stop of the gateway is that for all of them.  `crash` and `start` are the node's;
the outbox outlives them.  A heartbeat is served in two statements outside any
transaction, and so in two actions; the heartbeat a node sends before it serves
requests is taken for one of its loop.

**Pools.**  `window` holds the pool's route leases, `request` the requests they cover with
the parts their charges were divided into, `pool` what the samples say.  A window's
payments come from its escrow in any order of parts, which is what `FundedContract`
promises of a lease; `WindowContract` maps each window, with the group it is offered to,
to such a contract.  `attempt` is one transaction: the authority, the money, the
choice of a route and of a mandate of each provider, the window and its acceptance,
and all counters; `batch` is the list that `reconcile` read outside of it.  A permission
or a support is told apart from its expiry only as far as a guard does.

**Readiness and Stage.**  `clock` is the agent's monotonic clock and `behind` how far its
wall clock was set back; `link` is the guarded connection, `declared` the declaration.
`prepared`, `active`, `claiming`, `command`, `finishing` and `outbox` are what the agent
keeps of jobs; what awaits is two actions.  `over`, `late`, `granted` and `filed` are the
coordinator's view of a session.

**Worker and Services.**  `wk[b].at` is where the start of boot `b` has come to and
`wk[b].stop` where its stop has; `writes[b]` is the queue of status writes.  The guardian's
job is `HELD` while it lives; when it goes, so do the children, by the operating system.
In `Services` a command holds the registry's mutex for a transaction, and what it asks
about processes may be old when it writes.

**PrivateLink and RpcTunnel.**  A call is a consumer, a pump with a bounded channel, a
serving task and a target, each with its own end; a tunnel is a task on each side, the
root's TCP connection and the stage's guard.

**DeviceRoute and Cluster.**  Each request, file and checkpoint of an installation is a
step at which the command may die; `saved` survives, `known` is its copy in memory.  A
request whose answer is lost was served or not by the time of the next command.  A
cluster's child has been told to end, or started too late to be told.  Whether the disk
has room for an installation is found out again by each command (`findsRoom`).

**Lab and Artifacts.**  `order` is the command that runs, how far it has come (`at`) and the
services it goes through (`names`) and has still to go through (`left`); of those it takes
up the first in the order of a start or of a stop (`StartOrder`, `StopOrder`, as the code
writes them down).  A failure or a kill ends it wherever it is, and the next one finds
`private`, `container`, `database`, `process` and `registry` as it was left.  A service that is started is reserved in the registry and then
spawned on Windows, and spawned and then recorded elsewhere, so that these are steps of
their own.  `lost`, `calm` and `cutOff` remember what has gone wrong, for the properties.
In `Artifacts`, `fetcher[a]` is where a run has come to between its lock and the end of it,
`part` what of the file has arrived, and whether those bytes are the manifest's.


## What the runs check

| Run | Instance | Question |
|---|---|---|
| `sessions_plain` (`MCRegistration`) | two nodes on a machine with one slot, three requests of two accounts, one of which can pay only from what its node earned; and, in turn with it, two starts of one agent under signed requests | Is the book always what the rows say, is every hold posted and settled once, is admission fair and in order, are slots respected? Is a request handled once, and does an epoch name one process? |
| `parts` (`MCParts`) | in turn: a request over a route of two machines with restarts and revocations; the charge of a request; a contributor's worker; a service; a call; a tunnel; an installation; a cluster; each under its fairness; the laboratory under three commands; the acquisition of a file | Does a charge rest on complete evidence of the admitted processes and stay within its quote, does every request end, once? Does whatever is stopped or cut off end, and what it held come back? Is an interrupted installation resumed to its end without doing anything twice? Does the laboratory find and stop what it has started, whatever fails? |
| `sessions_disputed` | the request of `parts` | Violated: a disputed session is not always failed (see below) |
| `leases_node` | two leases of one node, restarts, a clock that moves both ways | Does the book match the leases, does each implement `FundedContract`, is nobody paid across a restart or past the window? |
| `leases_shared` | a node lease and a route lease over one machine, with withdrawals, revocations and shares that do not divide evenly | Is a machine claimed and paid once, does an accepted window stand, does a leaver lose only the future? |
| `leases_live` | one route lease, restarts and silence, under fairness | Does every lease close? |
| `delivery_one` | one request, restarts, all orders of the owner, failing disk | Does the node run only what it claimed, is a receipt kept until its session has ended, is one who was told of a failure never charged? |
| `delivery_live` | one request after a failed one, or two receipts left by a stopped process, under fairness | Does the permit come back, does the outbox drain? |
| `delivery_disk` | two requests, failing disk | Violated: a write failure does not always block new admissions (see below) |
| `pools` | one group with two routes, in five situations: settlements and refunds; one window with one request and all that may happen to them; renewals under permissions that fade; an expansion of a healthy pool; declarations | Are the accounts what the rows say, do requests keep their cover, are permissions never stretched, does money go where it must first, is what may be renewed renewed? |
| `stage` | a root with two routes and the stage of one of them, in eleven situations: terms; declarations that fade; jobs that are claimed, on a connection that stays; one job while connections come and go; a full disk; lent memory; a worker's start and its restart; a service; calls; tunnels | Does readiness fade with its root, are jobs started at most once and under their claim, does evidence outlive crashes and disks? Do guarded processes, links and tunnels hold what they promise? |
| `stage_relinked` | the same | Violated: a job is not always started on the connection it was prepared for (see below) |

A property in a run may be a conjunction, so that one run answers one question; its
parts are defined, each with its comment, in the module of the component:

| Property | Parts |
|---|---|
| `SessionsInv` | `SessionsTypeOK`, `PostedExactlyOnce`, `RowsConsistent` (from which `StartedMeansAllClaimed`) |
| `AdmissionInTurn` | `FifoWithinAccount`, `AccountsTakeTurns` |
| `EndsByEvidence` | `EndIsFinal`, `ClaimedEndsByEvidence`, `CancelledIsFree` |
| `PartsEnd` | `RequestedStopEnds`, `NoOrphans` (`Worker`), `RequestedServiceEnds` (`Services`), `PermitsReturn` (`PrivateLink`), `EitherEndEndsBoth` (`RpcTunnel`), `OneEndsAll` (`Cluster`) |
| `InstallationHolds` | `DeviceTypeOK`, `NothingTwice`, `EnabledIsComplete`, `FailedLeavesNothing` (`DeviceRoute`); `ClusterTypeOK`; `LabTypeOK`, `EveryServiceIsTracked`, `RunsWithWhatItUses`, `StoppedIsStopped`, `Provisioned`, `OtherCheckoutKept` (`Lab`); `ArtifactsTypeOK`, `OneFetches`, `VerifiedIsWhole` (`Artifacts`) |
| `LeasesInv` | `LeasesTypeOK`, `BooksMatchLeases`, `CreditWithinWindow` (of which `CreditInTime`) |
| `BeliefsAreTrue` | `DeliveryTypeOK`, `OnlyClaimedRuns`, `ToldFailureIsFree` |
| `NothingStaysBehind` | `PermitReturns`, `OutboxDrains` |
| `PoolsInv`, `WindowsHold` | `PoolsTypeOK`, `PoolBooks`; `OneWindowForEach`, `CoverOutlastsRequest` |
| `PermissionsHold` | `AuthorityBounds`, `MandatesCoverWindow`, `ExpansionBacked`, `EssentialGoesFirst` |
| `MoneyInOrder`, `ExpansionYields` | `FloorFirst`, `ReserveProtected`, `WindowsAreContracts`; `ExpansionKeepsFloor`, `ClosedStaysClosed`, `GapEndsHealth` |
| `RoutesHold` | `OneOpenRoutePerRoot`, `QualifiedWasAccepted` |
| `EvidenceHolds` | `StageTypeOK`, `CommandsAreClaimed`, `ReceiptsAddUp`, `ReceiptNotForgotten` |
| `StartsAreLawful` | `StartedOnce`, `FreeOnlyBeforeReady`, `StorageFailureStopsStarts`, `ClaimedEndsWithReceipt` |
| `LendsWithinTerms` | `BudgetHolds`, `ToldIsGranted` |
| `ProcessesHold` | `WorkerTypeOK`, `EndedHoldsNothing`, `ChildrenContained`, `StopIsBound`; `OneSupervised`, `ServiceIsRegistered` |
| `LinksHold` | `LinkTypeOK`, `EndIsWholeIfTaken`; `TunnelTypeOK`, `OneTunnel`, `CountersAgree`, `FreedIsFree` |
| `FinalStays` | `WithdrawnNeverReopens`, `FinalStatusStays`, `StopIsFinal`, `ReserveKept` |

Every property of a passing run has a mutant in `PROJECT.json`: a change of a mapped
definition, as a plausible bug would make it, under which TLC finds the property
violated in the same run.

**Bounds, and why they are enough.**

- *Situations.*  `scene` is the part or the situation a behaviour is about; it is chosen
  in the initial state and never changes, so a run searches its situations one beside
  the other and not their product.  Parts that share no state lose nothing by that.
  The situations of one part (those of `Pools` and `Stage`) are cut so that the handlers
  which interact are together in one of them.
- *Actors.*  Two accounts are needed for turns, three sessions for order within an
  account and between accounts; a root and one stage for every rule about "all stages";
  two starts of an agent, a worker or a service for every race of one with the next.
  No rule of the code counts beyond these.
- `MaxEpoch` is 1 or 2 (registration and one restart): a rule about epochs compares a
  frozen epoch with the present one, so one change shows it.  `FewChanges`: of the two nodes
  of the route in `parts` one restarts at most, and one is revoked at most; the handlers
  ask of each node by itself, so either one shows what both would.
- `Orders` is what owners ask of nodes, `Reports` which unsuccessful reports nodes send,
  `Movable` which offers change their listing.  `INVALID` stands for a completed report
  with implausible usage; in `parts` it is the only unsuccessful report, the other ones
  end a session by the same branch.
- `MaxLive`, `MaxOpen`, `Slots`, `MaxGap`, `Second`, `Rate`, `Duration` replace the numbers of the
  code (4 live sessions, 4 open leases, 6 seconds, 1000 milliseconds) by small ones at
  which the limits bite.
- `MaxClock` ends time: a lease is accepted only if its window fits.  `Wavering` is the set
  of nodes whose records change, `Amended` and `SetBack` switch the changes of routes and
  the clock that is set back.  `Restarted` are nodes that have used up their restarts.
- `MaxStarts` bounds the starts of one agent, `Skew` is how far its clock may be ahead or
  behind, `Retention` how long a nonce is kept, in units of the 30 seconds for which a
  request is valid; the code has 10 units, and 2 are the least that will do.
- `Charge` is the set of costs `chargeFor` may return; `Metering` has the arithmetic, with
  `SmallManifest` (rates that round at denominators 3 and 1000, one quote over the limit),
  uneven `SmallAllocation`, `MaxUsage` tokens and `MaxQuote` as bounds.
- `DiskFails` lets a receipt fail to be written; `Directory` is the order in which the node
  lists its outbox.
- `Pools`: `Cast` says what each situation has (who gives, which events happen, which
  limits are written), `FloorTime`, `WorkingTime`, `ReserveTime` scale the horizons of the
  code down with their order kept, `MaxWindows` windows are offered in all.  A deadline or
  a term is `LONG`, `SHORT` or `LAPSED`, which is all that guards ask of one.
- `Readiness` and `Stage`: a declaration lasts `LeaseSpan` 1 and at most `RootSpan` 2 after the
  root was seen, a call `Wait` 1, time ends at `MaxTick` 3, so every one of them ends before
  and after every other; `MaxLinks` 2 connections (one where the clocks
  differ); the wall clock falls back by `MaxBehind` 2; a job computes `MaxCommands` 1 commands, and `MaxPrepares` 2 preparations are
  made (after a restart of `links`, one).  `RpcMemory`: `Budget` 5, `Reserve` 1, `Installed` 7 and
  `MaxBuffers` 2 are units in which budget, reserve and number of buffers each bite first.
- `Worker`, `Services`, `PrivateLink`, `RpcTunnel`: two boots, commands, calls and tunnels for
  safety, one of each for liveness.  In `restart` one of the two boots fails at most; tunnels
  are opened in order and one side is closed at a time.  `Room` pieces fit a channel, a
  response has `MaxPieces`.
- `DeviceRoute`: `RecipeStages` 1 (a root and a stage, two invitations and services of each),
  `MaxFaults` 3 deaths, losses and failures over all commands.  One command runs at a time.
- `Lab`: `LabService` are the coordinator, a route's cluster and its root, which uses the other
  two; a stop must await the cluster, and outside Windows not the others.  `MaxRelease` is 2 (one update of the checkout), `MaxOrders` 3 commands (one
  to set up, one that is cut off, one that finds what it has left), `MaxMishaps` 1.  Of a
  service there are two processes at most, one that is ending and one that starts.
- `Artifacts`: one process that is started to fetch and one that is started to verify may
  each do either; `ArtifactSize` 2 pieces, so that a file is cut off in the middle;
  `Attempts` 2, the first and the last.
- `MCInit` and `LaterInit` start leases, pools, stages and deliveries after what others
  have set up (nodes registered, routes qualified, a window that runs, a worker that
  serves, a process stopped over two receipts).  All are states the full
  specifications reach.
- `Alike` is the symmetry of two requests that differ only in their order of creation,
  which is state.

`CHECK_DEADLOCK FALSE` everywhere: when all requests and contracts of a bounded instance
have ended, time has run out and restarts and faults are used up, the system rightly
stops.

## Fairness

- `Sessions`: `Expire` (the deadlines are wall-clock times) and `reap` (a timer every two
  seconds, `main.ts:163-178`).  No request, node or consumer is assumed to do anything.
- `Leases`: `Tick`, `Lapse` and `reconcile`, by the same timers.  A reconciliation that
  throws skips the rows after it in that round only.  With a clock that is set back for
  ever nothing closes, so `leases_live` has `SetBack = FALSE`.
- `Pools`: the loop that reconciles renewals, with the attempts of its batch.  Nothing is
  assumed of managers, providers or consumers.
- `Delivery`: the timers of `Sessions`; each execution step, because calls end in 5
  seconds, an execution at its time limit, and a reservation after 15 seconds; and each
  step of the loop, which sleeps for 2 seconds.  The last send to a consumer
  (`tx.send(...).await`) has no timeout of its own: the model assumes that a consumer
  reads or leaves.  `DeliverySucceeds` is strong fairness of a delivery that the
  coordinator would take and that the loop tries every round: an assumption on the
  network.  The gateway is given no fairness at all: it may stop at any point.
- `Worker`: the steps of a start and of a stop, each awaited with a deadline or local; a
  child that was told to end, or killed; and the guardian, which waits on its parent.
  The operator is not assumed to stop anything.
- `Services`: the steps of a host, which polls, and the guardian that closes its job.
- `PrivateLink`: the local ends of a call, by its deadlines; the failure of a serving task
  whose connection is gone; a target's handler, which the operating system ends with its
  socket.  `RpcTunnel`: tasks whose connection has ended and a closing that has begun.
- `DeviceRoute`: an operator who issues the command again (`ResumeConverges` is about
  that), and the steps of a command.
- `Cluster`: its own steps, children that were told, and the job of its service host, which
  closes when it dies.

## What is proved

TLAPS checks every theorem for all values of the constants that satisfy the named
assumptions of the modules (`LedgerAssumption`, `FleetAssumption`, `OffersAssumption`,
`SessionsAssumption`, ...): that limits are natural numbers, that nodes, users, calls and
buffers are finitely many, that the funds are what the book says they are, that shares
add up to the whole, and that a name which stands for nobody names nobody.  No
assumption bounds how many there are of anything.

**Sums** (`PayoutProofs`).  The models add up with the folds of the community modules.  A
fold is a recursive function, chosen by its equation, so before anything can be said of
a sum there must *be* such a function: `SumsExist` builds it from the least set for which
there is none (strict inclusion of finite sets is well founded), and `SumsAgree` shows in
the same way that any two are equal.  From these follow what the other proofs cite:
`SumStep`, `SumInsert`, `SumChange` (one summand changes, the sum changes by as much), `SumAdds`,
`SumRenamed`, `SumMonotone`, and `SumTelescopes`.  `SplitExact` is about `splitByBps`: each part is a
difference of two rounded boundaries, the last boundary is the amount itself, so the
parts add up to it.

**Sessions** (`SessionsProofs`).  The inductive invariant is
`SessionsInv == SessionsTypeOK /\ PostedExactlyOnce /\ RowsConsistent`.  None of the three
is inductive by itself: that `finalize` may post the settlement rests on its key being
unused, which follows from the state of the row; what a receipt adds to a row is
complete only because a started row has all claims, which `Consistent` carries from
`authorize` on; and the type of the balances rests on the book refusing overdrafts
(`PostPreservesBook`).  `RowMovesOn` and `RowEnds` say that writing a row keeps the
invariant when the new row is consistent and, when it ends, has been posted; each
handler's lemma then shows just that about its row.  `Invariance` is the result; from it
follow `TypeCorrect`, `PostedOnce`, `RowsStayConsistent`, `Started` and `ChargedOnEvidence`.

The action properties and the bound on slots rest on one further lemma, `StepMoves`: a
step changes the row of at most one session, and each change of a row is one of a few
*moves* (created, admitted, written on, ended by evidence, ended for free) whose
conditions are stated once.  `FinalEnd`, `OneEpoch`, `ClaimedByEvidence`, `CancelledFree`,
`SlotsBound`, `Fifo` and `Turns` are each a short argument over the moves, and `EndsEarned`
and `InTurn` put them together.

The book rests on the moves too.  `BookOf(u)` says what an account should hold: what it
began with, less its holds that stand and its charges, more what it earned.  `MoveBook`
shows that each move posts exactly the change it makes in these sums, and `BooksMatch`
follows: no handler, in whatever order, makes or loses a unit.

**Leases** (`LeasesProofs`).  `Registry` (the state and the window of a lease, and who
claims which domain) is kept by every *lawful* step: a step that rewrites one lease
through `Write`, and takes a lease to an open state only if its domains are free.
`NextLawful` shows that all handlers are lawful; `RegistryIsExact` and `WindowIsKept`
follow.  So no physical domain is in two paid windows, for any leases of both kinds.

**Credit** (`LeasesProofs`).  The same shape again: every handler writes at most one row,
and the row is *sound*.  `Timed` is the strengthening: it adds to `CreditInTime` the fields
and types the row needs and that nothing is sampled before the window opens, so that the
first sample starts from no credit.  `SampledForward` shows that an observation never goes
back nor past the end, on a clock that may be set back; `SampleSound` that it credits a
member with no more than the time between two observations, and a changed process with
nothing.  `CreditFitsWindow` and `ProcessEarnsItsOwn` follow.

**Books of leases** (`LeasesProofs`).  `MoneyInv` strengthens `LeasesInv`: what a row has paid is
the sum of its members' parts, and a part is what its credit has earned (`Owed`); no part
passes its maximum (`Within`); the journal has a key exactly when its posting was made,
and no key of a payment is ahead of its row (`Keys`), which is why a payment is never
refused as posted before; and an escrow holds the budget of its open lease less what
was paid (`EscrowsHold`).  Each handler makes one of three *money moves* of a row, and
`MoneyStepKeeps` carries the invariant over them.  `LeasesHold` is `LeasesInv`, the book
included; `LeaversKeepTheirEarnings` and the refinement `LeasesImplementContracts` follow:
every lease of a node or of a route takes the steps of `FundedContract` and no others.
`NoOverlappingPayment` needs the order of windows (`Intervals`): of two leases that share a
domain, one was sampled for the last time before the other began.  It holds while the
clock is not set back, as the property says; the books hold whatever the clock does.

**Routes** (`RoutesProofs`).  What is open depends on the nodes, the model and the consents,
and is not inductive.  `RoutesInv` speaks of what is qualified instead: two routes of one
root never are (`OneQualified`), a qualified route was accepted by all, and only a route's
providers have a say in it.  `OneRouteOfEach` follows, and, as a withdrawn consent stays
withdrawn (`WithdrawalStays`), `WithdrawalIsFinal`.  Both are theorems of `RoutesSpec`, the routes
over all nodes' records.

**Metering** (`SessionsProofs`).  `chargeFor` rounds up, and so does `quoteMaximum`;
division that rounds up is monotone (`DivMonotone`, `ChargeMonotone`), so usage the
coordinator accepts never costs more than the quote: `QuoteCoversUsage`.  `DivisionIsExact`
says that fee and shares add up to the charge.

**Delivery** (`DeliveryProofs`).  `DeliveryInv` adds to `SessionsInv` and `DeliveryTypeOK` what
the processes know of each session (`Keeping`): what a node holds was made for an
admitted session and by the process that was admitted (`Admitted`, `Bound`, `Confirmed`), a
receipt on disk is one the node may send and goes with the report on record
(`Written`, `Unwritten`, `Evident`, `Unreported`), the loop removes a receipt before the
execution does only when the session has ended (`Kept`), and whoever was told of a
failure has a receipt that can no longer be charged (`Freed`).  The three properties
follow from the parts, which need each other: that a failure is free when the receipt
cannot be written rests on no report being on record while the execution runs, and
that on who may send one.  Two lemmas carry the proof: a step that brings no evidence
(`Quiet`) and moves the processes in one of a few ways keeps all parts (`StepsKeep`),
and so does a receipt that is taken (`TakesEnds`, `EndsKeep`).  One lemma per process
then shows what its steps are.  With it comes the refinement, `DeliveryIsSessions`: under
lost calls, late answers, crashes and restarts every behaviour of the processes is a
behaviour of `Sessions`, so that every theorem about `Sessions` holds of them.
`OnlyClaimed`, `ToldFree` and `DeliveryTypes`, together `Believed`, and `ReceiptKept` are the
properties of `delivery_one`, for any number of sessions and nodes.

**Pools** (`PoolsProofs`).  The theorems are about `PoolsSpec`, which starts from an empty pool
whose users have what they have; the situations of `pools` begin later, in states that
satisfy the same invariants (TLC checked each of them on that run before it was proved).
Every step is *quiet* or renews one window (`Steps`), and either way it writes at most one
window's row, which was blank and is opened, or was open and goes on (`Opening`, `Going`),
and makes a request run only under a window that does (`Moves`).  `TypeInv`, with the names
that rows must have (`RowsNamed`, `RequestsNamed`, `PermissionsNamed`), is kept by that:
`PoolsAreTyped`.  `PoolWindowsHold` needs nothing else.

`PermissionsAreNotStretched` needs what permissions keep (`AuthorityKept`, `MandateKept`) and
what a renewal takes (`AuthorityUsed`, `MandateTaken`), and one strengthening: no provider has
two active mandates for one route and kind (`NoRivals`), without which a window could
consume two mandates of one provider.  The counters are sums over the windows renewed, so
one window more is its budget more (`CountsGrow`), and no other step touches them
(`CountsStay`).  That a batch never tries an expansion before what is essential rests on
the kind of an authority being fixed once it is given.

The books rest on the keys of the journal (`KeysInv`): no posting that a row has still to
make was made, in particular no payment beyond what the row has paid.  So every posting
that a handler asks for is really made, and each step is one of six *money steps*
(`MoneySteps`): a gift, a window opened, one that goes on, a settlement, a refund, or a step
that moves nothing.  `Books` states `PoolBooks` with sums over all windows and requests, where a
step changes one term; `BooksKept` follows form by form, and `PoolAccountsMatchRows` with it.
`MoneyKeepsItsOrder` reads the order of a charge off `PartsAre`, what `recycle` computes
for any amounts, and that only a settlement settles; that a step of a window's money is one
of a funded contract it has from the refinement below.  `ExpansionsYield` reads what an
expansion leaves off the money step of the renewal and its conditions.  That a charge
which overfills the floor is bounded by the gap of working capital needs the floor to be
no higher than that target: `CooperativeAssumption` says `FloorTime <= WorkingTime`, six hours
and one day in the code.

`WindowsImplementContracts` is the refinement of `FundedContract`, the one that `Leases` implements
too.  A contract is a window with the group it is offered to, its price is the group's
budget, and what it holds is the balance of its escrow in the ledger, so the refinement
speaks of postings that were made and not of what rows say.  `ContractStep` reads a step of
the contract off how a window moves (`Opening`, `Going`) and off `Books`, before and after: what
an escrow holds is the budget less what was paid while the window is open, and nothing
otherwise.  The run `pools` checks the steps (`WindowsAreContracts`); one of its situations
begins with a window that is open, which is not how a contract begins, so that windows
begin as contracts do is in the theorem only.

**Registration** (`HostProofs`).  `EpochsApart`: however many starts overlap, and
whichever answers are lost, late or repeated, no two processes are told one epoch.
The strengthening is `EpochsGranted`: the epochs granted to different processes are
apart and none is above the record's, the record's belongs to the boot it names, and
a process has been told only what it was granted.  `RequestsHandledOnce`: a signed
request passes the check once.  Its strengthening, `NoncesKept`, relates what is left of a
request's window to the age of its nonce: as long as the request could pass again, its
nonce has not been forgotten.  A request is valid for 30 seconds before and after its
time, so a retention of twice that is enough (`RegistrationAssumption`); the code has ten
times.

**Installation** (`HostProofs`).  What is promised when a route is enabled, and when an
installation has failed, rests on what the command knows at every step in between.
`DeviceInv` says it in three parts.  `CopiesAgree`: the command's copy of the checkpoint and
the file differ only by what has just been done, and both are under the key of the one
route that was published.  `DoneSoFar`: what a copy says has been done was done (`DoneBy`),
and each place of an installation has behind it what comes before it.  `CleanedSoFar`: the
same for a clean-up.  `Advances` is what a request may do to the coordinator, whether its
answer arrives or is lost, so each request is treated once; one lemma per step of the
command shows the rest.  `InstallationIsComplete` holds for any number of stages and
faults.

**Cluster** (`HostProofs`).  `ClusterTellsAll`: no child runs that a stop has not told, but for
the engine when it starts too late.  It needs that no stop is heard before the workers are
launched (`ClusterInv`).

**Laboratory** (`HostProofs`).  `LaboratoryIsInOrder` has three parts besides the types, each with
its strengthening.

- *Every process is tracked*: it is one the registry names, or has been told to end, or is
  one whose start was cut off between its spawn and its record; on Windows there are none
  of these.  `LabTracked` adds that a start spawns and records only where the registry's
  process is gone, and that a stop gives an entry up only when its process has been told.
- *What is stopped is stopped.*  `LabOrders` says what a command goes through and that the
  service in hand is none of those that are left; `LabGivenUp`, that what a stop has gone
  through has no entry in the registry.  With every process tracked, one that is neither
  named nor told is one that was cut off.
- *What runs has what it uses.*  `LabServes` says that what a start has gone through serves,
  and so does what the service in hand uses, up to the answer of its own process: an
  address that anyone may answer is answered by it alone.  The rest is about the two
  orders: what a service uses comes before it in `StartOrder` and after it in `StopOrder`
  (`PairsInOrder`), for each service and each profile.  So when a start takes a service up,
  what it uses was gone through, or is not started at all; and when a stop takes one up,
  what uses it was.

`LaboratoryIsProvisioned` is `Provisioned` and `OtherCheckoutKept`; `LabProvisioned` adds how far an
initialization has come with its files, and that none goes on beside another checkout's
container.  Both theorems hold for any of the services, and for any profiles, releases,
commands and mishaps.  TLC checked all these invariants, on the laboratory of `parts` with
two services more, before they were proved.

`InstallationStands` puts the parts of a host together: it is `InstallationHolds` of the run
`parts`, for every value of the constants.

**Artifacts** (`HostProofs`).  `FilesAreWhole`: for any number of processes, one at a time is
behind the lock, and it appends where it asked from, so what is renamed is what was
digested.  The conjunction of the three properties is inductive.

**Processes** (`ContributorProofs`).  The five parts of the contributor's side that share no state
have an invariant each.  `ServicesInv`: one launcher has the mutex, a boot is one
launcher's, and a boot that the registry does not name is *out of play* (it has no
process and nobody will spawn one, its process has ended, or it will still look for the
stop that was requested), whence one host at most is supervised and the registry
names it.  `WorkerInv` says of each boot, by itself, what its place in the start and in
the stop says of its children, its job and the queue of its status writes; the lock and
the file on disk tie the boots together.  `MemoryInv` is the sum of the buffers held;
`LinkInv` says of each call what frames can be under way, given what its pump and its
target have done, so that a body that ended cleanly was cut nowhere unless its reader
was that far behind; `TunnelInv` counts, for each side, the tasks that hold its slot.
`ProcessesAreHeld`, `LendingIsWithinTerms`, `LinksAreHeld` are the properties of `stage`, for any number
of boots, commands, buffers, calls and tunnels; `StopsAreFinal`, `FinalStatusIsLast`,
`ReserveIsKept` and, with `WithdrawalIsFinal` of the routes, `WhatIsFinalStays` are what no step undoes.

**Stage** (`ContributorProofs`).  `StageSpec` is the agent with all of the market around it: anything may
happen to the other nodes, to the routes and to the root at any time, and to its own
record whatever is not its own doing.  `ReadyInv` bounds each step of a declaration's way
by two clocks the model keeps, when the coordinator would last have signed and when it
had last seen the root: a request is given up in time (`CallInTime`), what was signed is
not newer than the first and ends a root's span after the second (`SignedInTime`), and
what the agent keeps ends a request later at most (`DeclaredInTime`).  It needs, besides,
that the startup budget is closed before the coordinator can have seen the process
ready (`OpenBeforeReady`).  `WorkInv` says what else there can be of a job in each state of
its lease: authorization, claim, commands, receipts.  TLC checked both invariants on
the situations of `stage` before they were proved.  `ReadinessIsBorrowed`, `EvidenceIsKept` and
`StartsAreOnce` follow.

## What is only model-checked

- Everything under fairness: `EveryoneIsReleased`, `EveryLeaseCloses`, `NothingStaysBehind`,
  `RenewalHappens`, `PartsEnd`, `ResumeConverges`.  The prover does not reach liveness or
  `ENABLED`.

Every other property that a passing run checks is stated by a theorem, for every value of the
constants that the assumptions allow.

## What is left out

- *Signatures, hashes, tokens.*  A signed request comes from whom it says; that it comes
  once, and in time, is modelled.
- *Disabled accounts* (`users.disabled`), which appear as one more condition in several
  views and handlers.
- *One book for all.*  A settlement for pooled capacity is divided among the pool's funds
  (`recycleSettlement`) instead of being paid to providers.  `Sessions` settles unpooled
  requests and `Cooperative` pooled ones; the two handlers are one function in the code
  and are not composed in one module, nor are the pools with the payments of `Leases`: a
  pool's window pays its escrow out as `FundedContract` allows.
- *The stages of a route in the gateway*, which starts and finishes them as one task:
  `Delivery` has offers of a single node, `Stage` takes the calls in any order, and the
  handlers on the coordinator are in `Sessions`.
- *Wording*, event logs, listings, rate limits of the HTTP surface, presentation.
- *A node that is known but has never been observed* is taken for one that is not ready.
- *A pool's* set of groups, recipes and parties is fixed from its creation on, as it is in
  the code for the first two.

## Not modelled

- *Authentication* (`auth.ts`, `security.ts`): logins, sessions of the web and API keys are
  single statements over rows that nothing else changes.
- *Transactions* (`db.ts`): the isolation is PostgreSQL's; it is the assumption under which
  a handler is one action.
- *HTTP surface and startup* (`main.ts`, `controller.ts`): routing.  Its timers are the fairness
  of the reaper and of the reconciliations.
- *Runtime core* (`crates/runtime-core`): configuration, capabilities and parsing, all pure,
  and one atomic write that `Delivery` takes for a step that happens or fails.
- *Transport bench*, *Benchmarks*: measuring tools outside of the service.
- *Web application*: presentation over the coordinator's API, without state of the system.
- *Tooling* among the scripts: acceptance tests, qualification of models, reports, packing
  and configuration drive the system from outside or write files once.

None of these has a protocol state of its own; what remains to be modelled is in how
the modelled parts are composed (see *What is left out*).

## Where the code and its documents disagree

1. `docs/implementation/ACCOUNTING.md:24` says "Inconsistent usage creates `DISPUTED`
   billing, zero charge and a failed terminal outcome."  When the consumer has
   cancelled first, a completed receipt with inconsistent usage ends the session as
   `CANCELLED` with billing `DISPUTED` (`control-api/sessions.ts:952`).  Run
   `sessions_disputed`.
2. `docs/implementation/OPERATIONS.md:99` says "A write failure blocks new admissions in that
   process until correction and restart."  A heartbeat computes its readiness before
   it awaits the coordinator and stores it afterwards; a write that fails in between
   is forgotten, and one session may be admitted before the next heartbeat, two
   seconds later (`crates/node/src/main.rs:184-200`, `237`, `439-440`).  Run
   `delivery_disk`.
3. `docs/implementation/PORTABLE_CONTRIBUTORS.md:46` says "RPC disconnect clears prepared work
   and readiness; a new connection cannot reuse the old generation's declaration", and
   `packages/contributor/README.md:81` "A new RPC connection invalidates readiness and any
   prepared work from the old connection."  A failed connection clears the preparation
   and then awaits the delivery of a receipt before it is forgotten; a heartbeat in
   between declares it ready again, a job is prepared on it, and started on the next one
   (`contributor/stage.mjs:573-574`, `611-628`).  Run `stage_relinked`.

Remarks without a run, met while modelling:

- A session that is being cancelled ends as `INTERRUPTED`, not `CANCELLED`, when its receipt
  arrives after the deadline and before the reaper does.
- `crates/link/src/lib.rs:135-136` says that "a broken link cannot manufacture successful
  completion".  The error of a broken response is offered, without waiting, to a channel
  that is full when the consumer is slow (`415-416`); it is then dropped, and the body
  ends like a complete one.  `EndIsWholeIfTaken` excepts a consumer who is that far behind.
- `scripts/device-route.mjs:623-625`: when the checkpoint that enables a route cannot be
  written, the clean-up that `docs/implementation/HETEROGENEOUS_CONTRIBUTORS.md:120` describes
  is skipped, because the route counts as enabled in memory.
- `scripts/device-route.mjs:401`: nothing keeps two installations of one route apart.
- `scripts/lab.mjs:156-166`: `init` asks once whether a coordinator listens, before a build of
  minutes; one that is still coming up then is running when the schema changes.
- `scripts/lab.mjs:536-573`: outside Windows, a start that is cut off between the spawn of a
  service and its record leaves a process that no later stop finds (`lost` in `Lab`).
- `scripts/lab.mjs:494-507`: a start, or a restart, right after a stop that did not come to its
  end takes a service that is about to end for one that serves, and succeeds.
- `scripts/lab.mjs:204-219`, `602-604`: an initialization cut off once `config.json` is written is
  not taken up by `start`, which goes by that file, and `credentials.txt` is never written;
  an empty `config.json` waits for a person.  When another checkout is initialized in
  between, a start of the first gives the shared container its own credentials.
- `scripts/artifacts.mjs:117-118`: an acquisition, or a verification, that is killed leaves its
  lock, and every later one fails until a person removes it; so does the start of the
  cluster that verifies its model (`scripts/cluster.mjs:55`, `device-route.mjs:160`).
- `contributor/supervisor.mjs:67-83`: two starts that both find the lock of a dead worker may
  both remove a lock and take it, and a stop (`137`) removes whoever's lock is there.  It
  takes three boots; the runs have two.
- `contributor/supervisor.mjs:181`: a start removes the stop request it finds, also one that
  was written for it after it took the lock; `RequestedStopEnds` allows for that.  `241-243`:
  when the worker stops during the first publication, its timer is created after it was
  to be cleared.
- `scripts/cluster.mjs:208`: the engine is started after a stop that came during the last
  probe, and is then ended by the job it is in.
- An agent resumes before it binds its port (`crates/node/src/main.rs:523-574`), so a second
  start by mistake fences the first, which serves on under an epoch that is not accepted.
- `crates/runtime-core/src/lib.rs:99`: a temporary file left by a process that died blocks later
  writes of that path until it is removed.
- `control-api/market.ts:165` counts API keys and inserts one in two statements: concurrent
  calls pass the limit of twenty.

## Plan

The order follows the money, and then the machines it pays for.

1. *Done.*  `Sessions` with `Ledger`, `Fleet`, `Offers`, `Payout`: the life and settlement of a
   request; its invariant and its action properties proved.
2. *Done.*  `Routes`, `Leases` over it, with `FundedContract` as its abstract specification;
   the registry and the accepted window proved.
3. *Done.*  `Metering`, with the bound of the charge proved.
4. *Done for single nodes.*  `Delivery`: gateway and node composed with the coordinator; its
   safety properties and the refinement of `Sessions` proved.
5. *Done.*  `Registration`, with its epochs and its nonces proved.
6. *Done.*  `Cooperative`, `Economics`, `Renewals`, composed in `Pools`; their accounts, windows,
   permissions and the order of their money proved, and that their windows are funded
   contracts.
7. *Done.*  `Readiness` and `Stage`; `RpcMemory`, `Worker`, `Services`, `PrivateLink`, `RpcTunnel`,
   `DeviceRoute`, `Cluster`, `Lab`, `Artifacts`; the invariants of all of them proved.
8. The task of a route in the gateway, composed with `Stage` and `Sessions`; one book for
   `Sessions`, `Leases` and `Pools`.

Theorems to come: whatever the modules of point 8 promise.
