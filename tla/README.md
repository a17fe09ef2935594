# A TLA+ model of argmin

argmin is an S3-compatible object store that runs on several hosts. Objects are
placed in placement groups (PGs); each PG has an acting set of storage nodes and
one primary that orders its metadata. A replicated control plane (openraft)
decides acting sets and primaries and leases the right to serve. Everything that
serves does so under a time-bounded lease, on hosts whose clocks agree only
within a skew budget. This project models that core: who may serve, until when,
and what happens when leaders, nodes, maps and clocks change in between; how a
metadata command reaches the nodes of a PG when several frontends work on it; how
a bucket is deleted while others write to it; and what the journal of the
single-process authority holds after a crash.

All source paths below are relative to `src/crates/storage/src/` unless they
start with `src/`.

## Inventory

| Part | State it keeps | Operations | Hard behaviour | What makes it correct |
| --- | --- | --- | --- | --- |
| Lease arithmetic (`control_plane_lease.rs`) | none | bind, renew, fence, establish and rebind a horizon | boundaries, skew on both sides | consumer deadline and successor fence never overlap |
| Control-plane state machine (`control_plane.rs`) | cluster epoch, node records with lease deadlines, PG records with state, primary, previous primary lease; timestamp high-water; lease-grant horizon | one replicated command per operation | sequences of commands while old leases are still out | every permit is known or bounded by committed state |
| Raft leader (`control_plane_raft.rs`, `control_plane_raft_host.rs`) | volatile heartbeat overlay per (term, applied entry) | volatile heartbeat, command submission, snapshot for a reply | loss of the overlay; reads that race an apply | acknowledged renewals survive every command and, through the horizon, a leader change |
| Authority clock (`control_plane/authority_clock.rs`) | clock generation, high-water, health latch | observe, re-establish, bind to a term | wall-clock steps, restarts | authority time never runs back, unhealthy clock grants nothing |
| Storage node (`storage_node_server/`) | runtime map with a bound deadline, incarnation, admission gate | heartbeat, install reply, restart, admit | late replies, restart during a heartbeat | serves only under a map it may still use |
| Frontend routes (`cluster/route_admission.rs`, `cluster/runtime_map.rs`) | installed generation, list of generations, gate, permits, pending replacement | admit, renew, publish, expire, retained read and repair, body wait | requests racing publication, failed publication, waiting | a permit always refers to the installed map; publication ends |
| Consumer clocks (`clock.rs`, `control_plane_lease.rs`) | process-wide clock-health observer, bound leases | sample, observe, bind, judge | samples of several threads out of order, wall clock set | no bound lease outlives its authority deadline plus skew |
| Storage-node admission (`storage_node_server/`) | gate, active frames, per-PG command locks with waiters, locks kept by sessions | receive, admit, lock, apply, reply, disconnect, install a map | an installation drains frames that wait for locks held by sessions it shuts out | a frame works under the installed map; installations end |
| Metadata command log (`pg_store/command_log.rs`, `cluster/request_ops/metadata_commands.rs`, `cluster/metadata_operations.rs`) | per node a log; on the primary a pending slot with a publication-start marker | install, mark, apply, abandon, reissue, remove | several owners of one command, lost answers, late requests | all nodes copy one stream; a payload is applied once |
| Bucket reservations and drain (`pg_store/metadata/`, `cluster/request_ops/bucket_delete.rs`) | reservation rows, drain row, attempt row with phase and cursor | acquire, heartbeat, begin and adopt a drain, two passes over the PGs, mark | leases that run out under their owner; deletions that share a drain | no write lands in a deleted bucket; a drain ends |
| Single-process authority (`control_plane/single_authority.rs`, `durable_journal.rs`) | snapshot, prepared snapshot, hash-chained journal; durability state in memory | open, load, commit, checkpoint | crash or loss of power between any two file operations, failed syncs | every crash image recovers to what clients were told |
| Live PG transfer (`live_pg_transfer.rs`) | transfer attempt | fence, export, import, cut over | long protocol with many failures | one source of truth at all times |
| Payload staging, scavenger, reclaim | SQL rows and files | stage, publish, abandon, delete | crash between file and row | no referenced payload is deleted |
| HTTP front end, auth, XML, erasure coding, checksums, RPC codecs | none or per request | | sequential | out of scope |

Interaction. Storage nodes call the control plane (heartbeat) and install what
it answers; frontends poll the control plane for a map status and fetch a full
map when it changed; requests go from a frontend through its installed map to
the primary of a PG. The only shared state between hosts is the replicated
control-plane state; inside a frontend the request threads, the body waits of the
HTTP server and the refresh worker share one route handle.

`PROJECT.json` lists every component, with what is left out and why, and the
hazards of the code at the lines where they bite.

## Modules

| Module | What it is |
| --- | --- |
| `LeaseRules` | the arithmetic of leases as operators |
| `PrimaryLease` | authority, overlay, storage nodes and one PG |
| `PrimaryLease_proofs` | TLAPS proofs about `PrimaryLease` |
| `MCPrimaryLease` | its instances for TLC |
| `RouteAdmission` | route-map generations of one frontend |
| `RouteAdmission_proofs` | TLAPS proofs about `RouteAdmission` |
| `MCRouteAdmission` | its instances for TLC |
| `ConsumerBinding` | clock samples, the clock-health observer and bound leases of one process; uses `LeaseRules` |
| `NodeAdmission` | sessions, frames, gate and command locks of one storage node |
| `CommandLog` | abstract: a stream of decided entries that the nodes copy |
| `CommandPublication` | frontends, the primary's slot and the logs of one acting set; implements `CommandLog` |
| `BucketDelete` | writers and deletions of one bucket |
| `AuthorityStore` | the files, the commit path and the checkpoint thread of the single-process authority |
| `..._proofs` | TLAPS proofs about these five modules, in a module each |
| `MC...` | the instances of these modules for TLC |

Operators marked `Variant:` are plausible bugs of the definition that follows
them. No action uses them; `PROJECT.json` names, for every property, the variant
that breaks it.

### PrimaryLease

State. `lease`, `inc`, `healthy`, `observed`, `peered`, `acting`, `pgState`,
`primary`, `prev`, `transfer`, `epoch`, `ts` and `hz` are fields of
`ClusterControlSnapshot`; `live` is the same lease deadlines in the leader's
overlay; `authority` stands for the pair (Raft term, clock generation) that a
horizon is bound to. `process`, `map`, `pending` and `reply` are the storage
nodes: their running incarnation, the bound map, the heartbeat that is being
answered and the reply on its way.

Time. `now` is true time. Any wall-clock sample, in any process, is off by at
most `Offset`, which is at most the budget `Skew` the code assumes
(`CONTROL_PLANE_CLOCK_SKEW_BUDGET_MS`); a handler may hold its sample for `Lag`
before its command commits; monotonic clocks advance with true time. This is the
promise of the clock-health checks; `ConsumerBinding` models those of a consumer.

Actions. `RecordNodeHeartbeat`, `ExpireNodeHeartbeatLeases`,
`PromoteNodeHeartbeatLeases`, `CompletePgPeering`, `SetPgActingSet`,
`SetPgActingSetWithMetadataTransfer`, `FencePgForMetadataTransfer` and
`BeginUnavailablePgPlacementTransition` are the replicated commands of the same
name. `VolatileHeartbeat` is `try_apply_volatile_heartbeat`; `Reply` is the rest
of `refresh_node_heartbeat`, answered from the overlay or, when a command is
applied between the two reads of `current_control_plane_snapshot`, from committed
leases. `InstallRuntimeMap` and `Restart` are the storage node. `LeaderChange`
and `ReestablishClock` give a new authority without the overlay.
`BumpForOtherPg` is any command about another PG that advances the epoch.

Abstractions. One PG; Raft is one committed state with leaders that succeed each
other (its log, elections and read index are openraft's); a reply's map is
reduced to what it says about this PG; operator input, placement and transfer
progress are nondeterministic.

### RouteAdmission

State. `installed`, `listed` and `replacing` are the fields of
`StorageClusterRouteHandle`; `active` and `transition` those of the admission
gate; `content` and `left` describe each `StorageCluster` object, `issuers` the
allocation lifetimes of its stores. `worker`, `status` and `candidate` are the
refresh worker; `pc`, `cluster`, `due`, `timer`, `notified` and `fresh` the
requests. `publication_generation` is represented by `fresh`, the repair fences
captured since the last publication ended. `granted` is a history variable: the
longest lease the control plane has granted for each map.

A deadline is the time left until it, so `Tick` needs no bound and the state
space is finite without one. A digest stands for the pair (content digest,
authority incarnation). The map source may answer with a map of an older epoch,
since the code guards against it. A request may keep a valid admission as long as
it likes.

Abstractions. One refresh worker, as in the processes this repository builds. The
issuers of all embedded stores are one. The conversion of a wall-clock deadline
to a monotonic one is `BindDeadline` of `LeaseRules`; here only the time left
after binding appears. `admit_current_route` captures the generation, its lease
and checks it in one step after `acquire`: with the permit held, nothing can be
installed in between, and a later failure of the check is the first step of
`Finish`. `RetainRead` captures the repair fence in the step that gives the
admission back.

### CommandPublication and CommandLog

State. `log` is the applied and abandoned commands of each node (contiguous, as
`metadata_command_acceptance` enforces); `slot` and `started` the primary's pending
slot and its publication-start marker; `section` the frontend whose session holds
the PG's command lock on the primary; `late` requests to replicas whose frontend no
longer waits; `op` the stage of each frontend and its
`MetadataCommandApplyProgress`. `issued` and `acked` are history.

Actions. `Install`, `Adopt`, `CheckAbandoned`, `EnterApply`, `Mark`, `ApplyAt`,
`RefusedAt`, `ApplyLost` and `Converge` are
`apply_metadata_command_to_acting_set_once` and its callers; `EnterAbandon` to
`AbandonDone` the abandonment; `Reissue` and `Reload` the move to another index;
`RemoveSlot` the removal. `AttemptFaults`, `Leave`, `LoseSection`, `ExecuteLate` and
`DropLate` are the faults. Reconstruction may hear from any subset of the nodes.

Abstractions. One PG and one acting set, no change of either; a command is its
payload and index; the acting set answers a read in one step; a request to the
primary takes effect while its session holds the section or not at all, as the
server executes it under the session's guard. A reservation that is gone is a
nondeterministic refusal (`BucketDelete` models it).

Refinement. `CommandLog` is an append-only stream `decided`, in which a payload is
applied at most once, and nodes that copy prefixes of it. `ImplementsStream` maps
`decided` to the primary's log followed by the marked command of the slot: marking
a slot, or recording a tombstone on the primary, decides an entry, and everything
else copies decided ones. `MarkMayVanish` says whether a mark may be lost with its
session (see `unmarked_apply`).

### BucketDelete

State. `drain`, `attempt` and `reservation` are rows on the bucket's PG; `slot` its
pending command (a change of configuration or the mark); `commit` the pending
command of each object PG with how far its publication is; `objects` the PGs with
visible data; `op` the phase of each deletion; `current` the deletions whose copy
of the drain row has its present deadline, which a heartbeat compares.

Actions. A writer acquires, installs, validates, starts, applies or abandons.
`Delete(d)` is one step of `begin_bucket_delete_if_current_with_route_validation`:
begin, adopt or clear a drain, resume from the attempt row, first pass over the
object PGs, stream cleanup, wait for the reservations, second pass, emptiness scan,
authorization and installation of the mark, its application.

Abstractions. The six flags that a resumption reads from the attempt row are read
in one step, and updates of that row (read, modify, write under the PG's lock) are
atomic. Probes run in chunks of 8 PGs; a chunk here is one PG. A heartbeat of a
reservation only keeps it live, so it is a stutter; expiry is nondeterministic.
Streams are left out, and the cleanup of abandoned ones is only its effect on the
attempt row. Recording an attempt is best effort and may be skipped. A bucket is
not created again. `DrainEnds` excludes a drain of an older generation of the
bucket: see the last section on divergences.

### AuthorityStore

State. `disk` is the files as a running process sees them, `survivors` the images a
loss of power may leave, `mem` the durability state of the process and its durable
snapshot, `apc` and `cpc` the authority and the checkpoint thread, `exposed` the
last snapshot a client has seen.

A snapshot is the sequence of commands and restarts applied to reach it, so that
losing, repeating or reordering one shows. Digests are injective and a frame has
length 1. An append may leave a torn header or a torn frame. A crash of the process
keeps `disk`; a loss of power chooses any image of `survivors`, which holds, until
the sync that ends it, each state an operation can leave. A failed write or sync
latches the store (`MaxFaults`). With `WritesAreOrdered`, bytes an earlier process
left unsynced reach the disk no later than the next sync of their directory, as
ordered journaling file systems do. The identity and clock-checkpoint files are
left out.

### NodeAdmission

A session handles one frame after the other: it is received, admitted at the gate
(`active_frames`, and the map it is given), waits for the PG's command lock behind
the tickets before it or times out, applies, and replies. Locks can be kept by the
session from one frame to the next, with the binding they were taken under, and are
dropped with it. `BeginTransition`, `Drain` and `Publish` are an installation,
`Renew` the renewal of the installed map in place. Frames are reduced to four
kinds: acquire, mutate, mark (publication start, which needs a lock of the exact
binding) and release, the only one that is admitted while the gate drains.

### ConsumerBinding

A thread reads wall, monotonic and health clock one after the other, then brings
its sample to the observer, in any order with other threads, and binds the map it
holds or judges the installed lease. `now` is the authority's time and that of the
monotonic clocks; `off` is what the wall clock is off by. Maps may be delayed: a
thread binds a map issued at any earlier time. Assumptions: the wall clock is
within the budget when the process starts, and the first lease is bound before
other threads use one, as process start-up does. `MaxFaults` counts steps of the
wall clock and failed reads, `MaxGap` is how long a sample may take. With
`MaxGap` 1 and no faults all three properties hold too; a step together with a
slow sample, or a second step, breaks `ServesBeforeSuccessor` (see the section on
divergences).

## Runs

| Run | Shows | Bounds |
| --- | --- | --- |
| `skewed_clocks` | with clocks at both ends of the budget, at most one process serves as primary, activation waits for every earlier permit, and the committed horizon covers every permit, also of an earlier incarnation | 2 nodes with up to 2 incarnations, 1 authority, skew and offset 1, `MaxTime` 3, `MaxEpoch` 3 |
| `reconfigure` | acting-set changes, transfer fences and placement transitions never forget a permit, take back an acknowledged renewal or leave an active PG without a lease | all commands, 2 authorities, a command one unit behind its clock sample (`Lag` 1), `MaxTime` 2, `MaxEpoch` 3 |
| `short_lease` | **violation**: see below | leases of 1 where the maximum is 2, `MaxTime` 4, `MaxEpoch` 3 |
| `admission` | permits refer to the installed generation; the installed generation is renewable; a failed replacement is remembered; leases stay within what was granted for the same map; installation moves forward | 2 requests, 4 objects, 2 epochs, 2 digests |
| `renewal` | body waits are frozen at admission; a retired map is not renewed; every publication ends | leases of 1 and 2, so that a renewed deadline differs from the admitted one; 1 request, since these properties concern one request and the worker |
| `clock_steps` | no lease is used after its successor's fence, and a steady clock does not latch the observer | 2 threads, one fault, wall clock off by up to 3 where the budget is 1, 3 units of time |
| `node_frames` | frames work under the installed map, locks and tickets are accounted for, a publication starts only in a section of its own binding, installations end | 2 sessions, one PG, 3 epochs, one renewal |
| `publication` | the nodes copy one stream; what is acknowledged is on primary and witness; requests that may still be executed are settled | 2 nodes, 3 frontends, 1 payload, indexes up to 2 |
| `unmarked_apply` | **violation**: see below | 3 nodes, 2 frontends, 2 payloads, marks that may vanish |
| `bucket_delete` | a marked bucket is empty for good, its drain stays, a recorded phase is evidence, a drain ends | 1 writer, 1 deletion in up to 2 calls, 2 drains, 2 PGs, one change of configuration |
| `shared_cursor` | **violation**: see below | 2 deletions, 1 writer, 1 PG |
| `recovery` | every crash image recovers to at least what clients were told, commands are applied once, memory matches the files, only faults latch the store, the journal is checkpointed | 3 commands, 4 starts, 2 faults |

Time in `PrimaryLease` is counted in leases: with `MaxLease` 1, a bound of 3 lets a
lease be granted, run out and be succeeded by another. `reconfigure` sets the skew
to 0 to spend its states on commands, and only it replaces leaders; the proofs
cover every skew together with every other parameter. `publication` needs three
frontends for `Reload`: one abandons the command, a second reissues it, and a third
that had checked it before finds it moved. Its one payload is then two commands, at
two indexes. The properties of `publication` also hold (310202 states, no error)
for the constants of `UnmarkedApply.cfg` with `MarkMayVanish = FALSE`: a third node,
which is neither primary nor witness, and a second payload, at the price of a
frontend. In `bucket_delete`
two PGs make the order of commit and cursor matter, and two calls on two drains the
resumption on an own and on a replaced one; two deletions at once violate
`DeletingIsEmpty`, which is `shared_cursor`.

`CHECK_DEADLOCK FALSE` stands where the system may stop: time is bounded in
`PrimaryLease`, payloads and attempts are used up in `CommandPublication` and
`BucketDelete`. The other runs check deadlock. `Symmetry` permutes nodes, requests,
objects, frontends, payloads and threads where nothing distinguishes them; the runs
with a liveness property use none. `admission` uses a view that leaves out objects
nothing refers to.

Fairness, always weak:

- `RouteAdmission`: of `Tick` (time passes), of the worker (a thread that loops for
  ever; its RPCs return or fail), and of the steps by which a request does bounded
  work: completing its admission, ending once its check fails, the first poll and
  the wake-up of a body wait, its timeout, and the end of a repair loop. There is
  none on a request with a valid admission: that publication still ends is what
  freezing at the admission deadline is for.
- `BucketDelete`: of the expiry of a drain that nobody heartbeats, of the writers
  that wait for a drain and clear an expired one, and of the recovery that finishes
  a pending command of the bucket's PG. Nobody has to call DeleteBucket again.
- `AuthorityStore`: of the checkpoint loop and of the sync of an append, which
  return or fail. `JournalIsCheckpointed` excludes a latched store.
- `NodeAdmission`: of the threads of the node (`Admit`, `Dispatch`, `Apply`,
  `Reply`, `Drain`, `Publish`) and of the lock timeout. None on `Take`, and none on
  peers: a session may hold a lock for ever.

### What `short_lease` shows

`current_control_plane_snapshot` (`control_plane_raft.rs:4941`) reads the durable
snapshot and the Raft status one after the other, without the heartbeat-update
gate, and falls back to the durable snapshot when they disagree. If a command is
applied in between, the reply to a heartbeat that was just renewed in the overlay
is built from committed leases. When the committed lease of the primary is over,
the reply still names it the Active primary, with the fallback validity of
`MAX_HEARTBEAT_LEASE_MS` (10 s, `control_plane.rs:122`), although the lease it was
granted has the requested duration (2 s by default). The storage node keeps no
other deadline, so it serves past the point at which a successor is activated.
`src/guides/control-plane-clock-and-lease-model.md` lines 89 to 97 describe the
read as taken under the gate and never falling back to an older durable snapshot,
and line 235 says that an old permit cannot overlap successor activation. When
the requested lease is the maximum, the fallback validity is not longer than the
lease and the property holds: this is what the passing runs and the theorems
assume.

### What `unmarked_apply` shows

Before the first apply leaves, the frontend marks the slot, so that a later owner
of the section neither abandons nor reissues the command. If the answer to the mark
is lost, the frontend goes on to `PublicationUnconfirmed` and retries; the retry
skips reconstruction and mark, which are done only while the progress is
`Abortable` (`cluster/request_ops/metadata_commands.rs:1580` and `:1842`). If the
mark itself was lost with its session, the slot is not marked, the command goes to
the witness, and another owner finds nothing that forbids abandoning it: an apply
under way is not settled, and when it is executed the witness holds the command and
the primary its tombstone (`LogsAgree` is violated too under these constants).
`src/guides/metadata-command-stream.md:232-236` says the marker "closes the interval
in which a witness RPC has been accepted by the server but has not committed yet".
`AckedIsDurable` is not affected.

### What `shared_cursor` shows

A deletion adopts a live drain of another (`cluster/request_ops/bucket_delete.rs`
lines 1284 to 1313) and shares its attempt row, with the cursor of the pass over
the object PGs. The cursor that one records for its first pass lands after the
other has reset it for the second, which then starts at the end, visits no PG and
marks the bucket while a commit whose reservation ran out is still under way.
`src/guides/bucket-write-drain.md:189-190` requires the second pass: "A writer that
already held a reservation can publish or partially apply after the first drain".

## Further divergences

Seen while modelling and not kept as runs. Each can be reproduced with the
constants named.

- `AuthorityStore` with `WritesAreOrdered = FALSE` (1 command, 3 starts, no fault)
  violates `EveryCrashImageRecovers`: `load` publishes a prepared snapshot
  (`control_plane/single_authority.rs:1937`) because it has read the snapshot's
  anchor, which the process before it may not have synced; a loss of power leaves
  the snapshot without its anchor. `src/guides/durable-storage.md:36-37`: "A
  successful write or close without the required sync is not evidence of
  power-loss durability".
- `CommandPublication`: a command is reissued at the index after a tombstone that
  only the primary has recorded (`cluster/metadata_operations.rs:1815`), while
  `src/guides/metadata-command-stream.md:949-953` asks for the tombstone to be
  finished first. The stream is not harmed (`ImplementsStream`).
- `BucketDelete` without the exclusion in `DrainEnds`: a change of configuration
  that was pending when the drain began raises the bucket's generation, and neither
  the waiting writers (`pg_store/metadata/metadata_store.rs:626`) nor the queued
  retry clear the drain until a client deletes the bucket again;
  `cluster/request_ops/bucket_delete.rs:1219-1221` says that writers recover it.
- `ConsumerBinding` with `MaxFaults = 2`: a sample taken while the wall clock was
  set back reaches the observer after the clock was put right. It is not judged, a
  fresh one is (`control_plane_lease.rs:157`), and the lease is bound with the
  set-back wall time; `src/guides/control-plane-clock-and-lease-model.md:51-56`
  says that drift beyond the budget prohibits a new binding.
- `ConsumerBinding` with `MaxGap = 1`: the wall clock is read before the monotonic
  clock (`cluster/runtime_map.rs:828-829`), so a delay between the reads lengthens
  the lease, while `control_plane_lease.rs:240-241` says that delays only shorten
  it. Within the budget the skew margin makes up for it.

## Proofs

`PrimaryLease_proofs` proves, for every set of nodes and every value of the other
constants that satisfies the assumptions of `PrimaryLease`:

| Theorem | Property | Assumes |
| --- | --- | --- |
| `TypeCorrect` | `TypeOK` | |
| `AcknowledgedLeasesCorrect` | `AcknowledgedLeasesHold` | |
| `ActivePrimaryHoldsLeaseCorrect` | `ActivePrimaryHoldsLease` | |
| `PermitsAccountedForCorrect` | `PermitsAccountedFor` | `FullLease` |
| `HorizonCoversEveryPermitCorrect` | `HorizonCoversEveryPermit` | `FullLease` |
| `ActivationFencedCorrect` | `ActivationFenced` | `FullLease` |
| `AtMostOneServingPrimaryCorrect` | `AtMostOneServingPrimary` | `FullLease` |

`FullLease` says `Requests = {MaxLease}`: nodes request leases of the maximum
duration. It is a hypothesis of the four theorems, not the default configuration;
`short_lease` shows that they fail without it.

The argument. The safety properties are not inductive. `BaseInv` adds to the type
invariant what ties the clocks together (`ClockInv`: committed time is at most
`Offset` ahead of true time, and deadlines at most one horizon ahead of committed
time), what ties overlay and committed leases together (`LeaseInv`), and what a
fenced lease can be (`PrevInv`). `PermitInv` then adds `PendingInv`: a heartbeat
that is still being answered will get no permit beyond what `Promised` allows;
without it, the reply of a heartbeat recorded before a reconfiguration could
appear after it out of nothing. With `PermitsAccountedFor`, a serving process has
a permit that is covered by the active lease or by the fenced one, and
`CompletePgPeering` waits until the fenced deadline plus skew has passed on the
authority's clock, hence until the deadline has passed on every clock. Each of the
two invariants has one lemma or step per action, and under it one per conjunct the
action can disturb.

`RouteAdmission_proofs` proves, for every finite set of requests and every set of
objects, digests, lease lengths and bound on the epoch:

| Theorem | Property |
| --- | --- |
| `AdmissionTypeCorrect` | `TypeOK` |
| `HeldGenerationInstalledCorrect` | `HeldGenerationInstalled` |
| `InstalledIsListedCorrect` | `InstalledIsListed` |
| `RetirementRememberedCorrect` | `RetirementRemembered` |
| `InstalledMovesForwardCorrect` | `InstalledMovesForward` |
| `RetiredNotRenewedCorrect` | `RetiredNotRenewed` |
| `LeaseWithinGrantCorrect` | `LeaseWithinGrant` |
| `BodyWaitFrozenCorrect` | `BodyWaitFrozen` |

The argument. `CountInv` says that `active` is the number of requests that own a
permit, so that a drain that sees 0 has seen the last of them; `GateInv` ties the
state of the gate to where the worker is and says that no permit exists while it
publishes; `FenceInv` and `RepairInv` say that a repair fence of the current
publication generation belongs to a read of the installed map and that repairs run
only under one, which is why a repair that starts after a publication cannot meet
an old map. `IssuerInv`, `CandidateInv` and `AcceptedInv` record what the worker
has established between the checks of an installation and its publish closure. The
two action properties follow from this invariant. `LeaseWithinGrant` needs
`StatusInv` besides: a status that waits to be applied carries a lease granted for
the map it names; `BodyWaitFrozen` needs `WaitInv`: a wait that was shortened fires
by the deadline of its admission, and while the gate is not open every other wait
has been notified. Finiteness of `Requests` is what counting needs; nothing is
assumed of the number of objects.

`NodeAdmission_proofs` proves, for every finite set of sessions, every set of PGs
and every bound on epochs and renewals:

| Theorem | Property |
| --- | --- |
| `TypeCorrect` | `TypeOK` |
| `FramesSeeInstalledMapCorrect` | `FramesSeeInstalledMap` |
| `SectionsAccountedForCorrect` | `SectionsAccountedFor` |
| `StartsInCurrentSectionCorrect` | `StartsInCurrentSection` |
| `TicketsAreLiveCorrect` | `TicketsAreLive` |

The argument. `GateInv` says that `activeFrames` counts the permits and that none
is out while a map is published, so that the count an installation drains is the
right one. `LockInv` says that a lock is held exactly when a session or a frame
owns it and that nobody shares one; `FrameInv` what a frame has established at
each stage: one that waits for a lock does not hold it, and one that is about to
start a publication holds the section of its exact binding. That binding is
compared with the map the frame was admitted under, so `StartsInCurrentSection`
also rests on `FramesSeeInstalledMap`.

`CommandPublication_proofs` proves, for every finite set of nodes and every set of
frontends, payloads and bound on indexes:

| Theorem | Property | Assumes |
| --- | --- | --- |
| `TypeCorrect` | `TypeOK` | |
| `LogsAgreeCorrect` | `LogsAgree` | `~MarkMayVanish` |
| `RequestsAreSettledCorrect` | `RequestsAreSettled` | `~MarkMayVanish` |
| `AckedIsDurableCorrect` | `AckedIsDurable` | `~MarkMayVanish` |
| `StreamRefinement` | `ImplementsStream` | `~MarkMayVanish` |

`~MarkMayVanish` says that a mark whose answer is lost has been written.
`unmarked_apply` shows what happens otherwise, and under its constants TLC also
finds `LogsAgree` violated, so the hypothesis is needed.

The argument. The stream is the primary's log followed by the marked command of
its slot; an entry is settled when it is in the stream. `Prefixes` says that every
node has a prefix of the stream, from which `LogsAgree` follows. `SlotInv` says
that a marked slot is settled, and that the payload of an unmarked one is not yet
applied at any index, so that marking it adds it once. `LateInv` says that every
request that may still be executed is settled. `WitnessFirst` says that the
primary applies only what the witness has. `OpInv` says of every frontend that its
progress is never more than has happened: past `Abortable` its command is settled,
a `Published` one is on primary and witness, a node it has visited has recorded
what it was asked to, and a frontend that holds the section and is about to write a
tombstone on the primary finds the slot unmarked. The refinement then
has one case per step: marking a slot and recording a tombstone on the primary
decide an entry, applies copy one, everything else stutters.

`ConsumerBinding_proofs` proves, for every set of threads, skew budget and size of
the steps of the clock:

| Theorem | Property | Assumes |
| --- | --- | --- |
| `SteadyClockStaysHealthyCorrect` | `SteadyClockStaysHealthy` | `MaxGap <= Skew` |
| `ServesWithinGapCorrect` | | `MaxFaults <= 1` |
| `ServesBeforeSuccessorCorrect` | `ServesBeforeSuccessor` | `MaxFaults <= 1`, `MaxGap = 0` |

`ServesWithinGap` is `ServesBeforeSuccessor` with `2 * MaxGap` added to the bound:
the sample that set the observer up and the one that was bound may each be late by
one gap. The bound is tight (TLC reaches it), and with two faults
`ServesBeforeSuccessor` fails (see the section on divergences), so neither
hypothesis can go. With `MaxGap = 2` and `Skew = 1` the spread of the reads alone
looks like drift and latches the observer.

The argument. `HealthInv` ties what the observer keeps to the true time and the
offset of the wall clock at the time it was set up. With one fault, a sample on its
way was either taken with the present offset or when the clock was within the
budget (`OffsetInv`); the first kind is bound only if the observer finds it within
the budget of what it has kept, and the second kind needs no check. `BoundInv` says
that a bound lease ends in time or has already run out for whoever judges it.

`BucketDelete_proofs` proves, for every finite set of writers, every set of
deletions and every number of PGs:

| Theorem | Property | Assumes |
| --- | --- | --- |
| `TypeCorrect` | `TypeOK` | |
| `MarkIsFencedCorrect` | `MarkIsFenced` | |
| `PhaseIsEvidenceCorrect` | `PhaseIsEvidence` | |
| `DeletingIsEmptyCorrect` | `DeletingIsEmpty` | `Single`: deletions of the bucket do not overlap |

`Single` does not restrict how often a deletion is tried again, by a request or by
a worker, or how it ends. Two deletions at once violate `DeletingIsEmpty`:
`shared_cursor` is the counterexample.

The argument. `EvidenceInv` says of the drain in place that three things are
evidence of no reservation: an attempt row behind the wait, a deletion that has
claimed as much, and a pending mark. A drain refuses new reservations, so evidence
stays; a cleared drain takes it away, which is why the identity of the drain is
part of the row. `DeletingIsEmpty` needs a proof of every PG, not only of
the reservations. `OpProofs` says that the PGs a deletion has passed in its second
pass have no commit and never will, and that those it has scanned hold no visible
data; `RowProof` says the same of the phases in the attempt row, from which a later
call resumes, and `CursorInv` of its cursor whenever a second pass may take it up.
`AnewInv` keeps the cursor of a first pass out of a row that is waiting for
reservations. With two deletions it is `CursorInv` that breaks.

`AuthorityStore_proofs` proves, for every number of commands, starts and faults,
under `WritesAreOrdered`:

| Theorem | Property |
| --- | --- |
| `EveryCrashImageRecoversCorrect` | `EveryCrashImageRecovers` |
| `AppliedOnceCorrect` | `AppliedOnce` |
| `MemoryMatchesFilesCorrect` | `MemoryMatchesFiles` |
| `OnlyFaultsPoisonCorrect` | `OnlyFaultsPoison` |
| `ExposedOnlyGrowsCorrect` | `ExposedOnlyGrows` |

Without `WritesAreOrdered`, `EveryCrashImageRecovers` fails (see the section on
divergences).

The argument. `Recovers(d, k, S, s)` says what it is for files `d` to hold snapshot
`s`: the journal can be read, its last anchor is at `k` and is that of a snapshot
`S` in one of the two files, and what follows is a chain of commands that leads
from `S` to `s`. The lemma `LoadRecovers` shows that `load` then chooses `S` (of the
two files, the one whose last anchor comes last) and returns `s`, the chain digest,
the offset and the count; `LoadBlank` is the same for an initialisation that has
not come to its anchor. The invariant `ImagesInv` says that each image that may be
left holds a snapshot that begins with what clients were shown and has no command
twice. It is kept because the rest of the invariant says what is on the way:
`LoadInv` and `AnchorInv` follow `open`, `ServeInv` says that memory is what the
journal stands for (in a commit, all but its last record), `CaptureInv` that the
capture of a checkpoint is a position in the journal of now, with its digest and
the snapshot up to there, and `LockedInv` that the journal which replaces it, with
the suffix rebased on the new anchor, stands for the same snapshot. `PoisonInv` is
about a latched store: whatever is left of the record that failed, each of the
journals that may be on disk recovers on its own from the published snapshot.

Every invariant and action property that a passing run checks is stated by a
theorem, and so is the refinement of `CommandLog`. Only model-checked is liveness
under fairness (`PublicationEnds`, `TransitionEnds`, `DrainEnds`,
`JournalIsCheckpointed`), which is out of the prover's reach. The hypotheses of the
theorems hold for the constants of the passing runs; for each of them a violated
run, or the section on divergences, names what happens without it.

## Plan

Done: the modules above, with a run, the inductive invariants and the proofs of
each. Next, in order:

1. `AuthorityClock`: health latch, term binding, high-water and re-establishment.
2. Payload reclaim: read leases, reclaim fences and claims of workers, which live in
   the memory of the nodes and outlast the frontend that set them.
3. Live PG transfer, in particular whether waiting out the source lease needs the
   skew margin, and a change of the acting set in `CommandPublication`.

## Not modelled

Raft itself (openraft) and its write-ahead log, RPC encoding and transport, HTTP,
authentication, configuration, erasure coding, checksums, cryptography and
observability; SQL and files below the operations named above; live PG transfer,
peering, payload staging and reclaim. Most of the repository's half a million lines
are tests, codecs, type definitions and request handling of the front end, which
are sequential and carry no protocol; the model is about the part where several
actors meet. `PROJECT.json` gives the reason for each component.
