---------------------------- MODULE PrimaryLease ----------------------------
(***************************************************************************)
(* Placement-group primary leases of the replicated control plane.         *)
(*                                                                         *)
(* One placement group (PG), its storage nodes, and the control-plane      *)
(* authority that is the Raft leader.  Nodes heartbeat; the authority       *)
(* renews their leases either durably or, while the committed grant        *)
(* horizon covers the deadline, only in its volatile overlay; the reply    *)
(* carries a runtime map that lets the PG's primary serve until its lease   *)
(* deadline.  The authority moves the PG between Active and Peering and     *)
(* picks a successor primary once the previous primary's lease is fenced.  *)
(*                                                                         *)
(* Source: crates/storage/src/control_plane.rs (the replicated state       *)
(* machine), control_plane_raft.rs (volatile overlay and promotion),       *)
(* control_plane_raft_host.rs (the heartbeat and expiry handlers) and      *)
(* storage_node_server/{config,server}.rs (the consumer).                  *)
(*                                                                         *)
(* Clocks.  `now' is true time.  A wall-clock sample is any value within   *)
(* Offset of it, different at every sample and in every process; a         *)
(* monotonic clock advances with true time.  A command may be committed    *)
(* up to Lag after its handler sampled the clock.                          *)
(***************************************************************************)
EXTENDS LeaseRules, FiniteSets, Sequences

CONSTANTS Nodes,           \* storage nodes
          NoNode,          \* Option::None for a node
          Offset,          \* how far a wall-clock sample may be from true time
          Lag,             \* how long a handler may hold a clock sample
          ActingSets,      \* the acting sets an operator may choose
          Requests,        \* lease durations a node may request
          Commands,        \* reconfigurations of the PG that may happen
          MaxTime, MaxEpoch, MaxAuthority, MaxIncarnation  \* bounds

ASSUME OffsetAssumption == Offset \in Nat /\ Offset <= Skew
ASSUME LagAssumption == Lag \in Nat
ASSUME NodesAssumption == NoNode \notin Nodes
ASSUME ActingSetsAssumption ==
    /\ ActingSets \subseteq Seq(Nodes)
    /\ ActingSets # {}
    /\ \A s \in ActingSets : s # <<>>
ASSUME RequestsAssumption == Requests \subseteq 1..MaxLease
ASSUME BoundsAssumption ==
    MaxTime \in Nat /\ MaxEpoch \in Nat /\ MaxAuthority \in Nat /\ MaxIncarnation \in Nat

VARIABLES
    now,        \* true time
    authority,  \* the serving authority: (Raft term, clock generation)
    ts,         \* max_committed_timestamp_ms
    hz,         \* lease_grant_horizon
    epoch,      \* cluster_epoch
    lease,      \* committed lease_deadline_ms per node
    live,       \* lease deadlines of the leader's volatile overlay
    inc,        \* committed node_incarnation
    healthy,    \* nodes whose observed_availability is Healthy
    observed,   \* nodes whose last_observed_epoch is the cluster epoch
    peered,     \* nodes with a Peering observation at the current epoch
    acting,     \* the PG's acting_set
    pgState,    \* the PG's state
    primary,    \* the PG's active_primary
    prev,       \* the PG's previous_primary_lease
    transfer,   \* metadata transfer: none, fenced for one, or one attached
    process,    \* incarnation of each node's running process
    map,        \* runtime map each node's process has installed
    pending,    \* authority time of the heartbeat being answered, or 0
    reply       \* runtime map on its way to each node's process

clusterVars == <<ts, hz, epoch, lease, live, inc, healthy, observed, peered>>
pgVars == <<acting, pgState, primary, prev, transfer>>
nodeVars == <<process, map, pending, reply>>
vars == <<now, authority, clusterVars, pgVars, nodeVars>>

-----------------------------------------------------------------------------
NoPrev == [node |-> NoNode, inc |-> 0, deadline |-> 0, prefer |-> FALSE]

\* A runtime map names n the PG's Active primary exactly when `until' is not 0.
\* The validity of a map that does not is not modelled: it serves no primary.
NoReply == [epoch |-> 0, until |-> 0, issued |-> 0]

InActing(n) == \E i \in DOMAIN acting : acting[i] = n

\* Wall-clock samples a process can read at this moment.
WallSamples == (now - Offset)..(now + Offset)

\* Times effective_now_ms can give a handler whose command commits now: a
\* sample at most Lag old, never below the committed timestamp high-water.
AuthorityTimes == {Later(w, ts) : w \in (now - Offset - Lag)..(now + Offset)}

\* NodeControlRecord::can_serve_primary
CanServePrimary(n, at) ==
    /\ n \in healthy
    /\ n \in observed
    /\ live[n] > at

\* active_primary_lease(..).or_else(|| record.previous_primary_lease): the
\* lease fenced when the PG leaves Active, read from the state before the
\* command.
FencedPrimaryLease(prefer) ==
    IF pgState = "Active" /\ live[primary] # 0
      THEN [node |-> primary, inc |-> inc[primary],
            deadline |-> live[primary], prefer |-> prefer]
      ELSE [prev EXCEPT !.prefer = @ /\ prefer]

\* Variant: active_primary is kept.
MarkPeeringKeepingPrimary ==
    /\ pgState' = "Peering"
    /\ prev' = IF pgState = "Active" THEN FencedPrimaryLease(TRUE) ELSE prev
    /\ UNCHANGED <<acting, primary, transfer>>

\* mark_pgs_peering_for_pg_ids: a PG that is already Peering is left alone.
MarkPeering ==
    /\ pgState' = "Peering"
    /\ primary' = NoNode
    /\ prev' = IF pgState = "Active" THEN FencedPrimaryLease(TRUE) ELSE prev
    /\ UNCHANGED <<acting, transfer>>

\* bump_epoch
BumpEpoch ==
    /\ epoch < MaxEpoch
    /\ epoch' = epoch + 1
    /\ observed' = {}
    /\ peered' = {}

\* Every command first promotes the overlay's leases to committed state.
PromoteLeases(leases) == lease' = leases /\ live' = leases

-----------------------------------------------------------------------------
\* PreviousPrimaryLease::matches_process
MatchesPrevious(n) == prev.node = n /\ prev.inc = inc[n]

\* PreviousPrimaryLease::blocks_activation
BlocksActivation(n, at) ==
    /\ prev # NoPrev
    /\ ~MatchesPrevious(n)
    /\ ~SuccessorActivationFenceSatisfied(at, prev.deadline)

\* The previous primary peering_pg_primary_for_snapshot prefers to reactivate.
PreferredPrimary(n, at) ==
    /\ prev.prefer
    /\ prev.deadline > at
    /\ InActing(n)
    /\ MatchesPrevious(n)
    /\ CanServePrimary(n, at)

\* Variant: the first acting node, whether or not it can serve.
IsFirstActing(n, at) == acting[1] = n

\* peering_pg_primary_for_snapshot
IsPeeringPrimary(n, at) ==
    IF \E m \in Nodes : PreferredPrimary(m, at)
      THEN PreferredPrimary(n, at)
      ELSE \E i \in DOMAIN acting :
             /\ acting[i] = n
             /\ CanServePrimary(n, at)
             /\ \A j \in 1..(i - 1) : ~CanServePrimary(acting[j], at)

\* validate_pg_peering_observations: every acting node whose lease is live has
\* reported Peering at this epoch, and at least one has.
PeeringObserved(at) ==
    LET leased == {m \in healthy : InActing(m) /\ live[m] > at}
    IN  leased # {} /\ leased \subseteq peered

\* validate_pg_peering_completion and ready_pg_peering_completions
ReadyPeering(n, at) ==
    /\ pgState = "Peering"
    /\ transfer # "fenced"
    /\ IsPeeringPrimary(n, at)
    /\ ~BlocksActivation(n, at)
    /\ PeeringObserved(at)

-----------------------------------------------------------------------------
Init ==
    \E s \in ActingSets, p \in Nodes, first \in Requests :
      /\ \E i \in DOMAIN s : s[i] = p
      /\ now = Offset + 1
      /\ authority = 1
      /\ ts = now
      /\ hz = EstablishedHorizon(NoHorizon, 1, now)
      /\ epoch = 1
      /\ lease = [n \in Nodes |-> RenewalDeadline(0, now, first)]
      /\ live = lease
      /\ inc = [n \in Nodes |-> 1]
      /\ healthy = Nodes
      /\ observed = Nodes
      /\ peered = {}
      /\ acting = s
      /\ pgState = "Active"
      /\ primary = p
      /\ prev = NoPrev
      /\ transfer = "none"
      /\ process = inc
      /\ map = [n \in Nodes |-> [epoch |-> 1, until |-> 0]]
      /\ pending = [n \in Nodes |-> 0]
      /\ reply = [n \in Nodes |-> NoReply]

Tick ==
    /\ now < MaxTime
    /\ now' = now + 1
    /\ UNCHANGED <<authority, clusterVars, pgVars, nodeVars>>

-----------------------------------------------------------------------------
(***************************************************************************)
(* Heartbeats: refresh_node_heartbeat.  A heartbeat of incarnation i may be  *)
(* the process's last one, an earlier one resent by its renewal worker, or  *)
(* one a process that has since restarted left in flight; `current' says    *)
(* whether its observed_epoch is the cluster epoch.                         *)
(***************************************************************************)
HeartbeatPossible(n, i, current) ==
    /\ i \in inc[n]..process[n]
    /\ current => map[n].epoch = epoch

\* A heartbeat of an acting node at the current epoch observes a Peering PG.
ObservesPeering(n, current) == current /\ pgState = "Peering" /\ InActing(n)

\* apply_covered_volatile_heartbeat and heartbeat_update_is_volatile: nothing
\* but the lease changes.  (A stale epoch may or may not be news.)
IsVolatile(n, i, current, deadline) ==
    /\ HorizonCovers(hz, authority, deadline)
    /\ n \in healthy
    /\ live[n] # 0
    /\ i = inc[n]
    /\ current => n \in observed
    /\ n \notin peered
    /\ ~ObservesPeering(n, current)

\* A complete-scan heartbeat of the running process is answered with a runtime
\* map and gives up on the answer to the one before; the answer to any other
\* (a cached renewal, a lost connection, an earlier process) is not used.
AwaitReply(n, i, at) ==
    \/ /\ i = process[n]
       /\ pending' = [pending EXCEPT ![n] = at]
       /\ reply' = [reply EXCEPT ![n] = NoReply]
    \/ UNCHANGED <<pending, reply>>

VolatileHeartbeat(n, i, current, requested, at) ==
    LET deadline == RenewalDeadline(live[n], at, requested)
    IN  /\ HeartbeatPossible(n, i, current)
        /\ ServingDeadlineInBound(deadline, at)
        /\ IsVolatile(n, i, current, deadline)
        /\ ~\E m \in Nodes : ReadyPeering(m, at)
        /\ live' = [live EXCEPT ![n] = deadline]
        /\ AwaitReply(n, i, at)
        /\ UNCHANGED <<now, authority, ts, hz, epoch, lease, inc, healthy, observed, peered,
                       pgVars, process, map>>

\* RecordNodeHeartbeat.  `evidence' is a pending metadata command of an earlier
\* Active route, which fences the PG into Peering.
RecordNodeHeartbeat(n, i, current, requested, at, evidence) ==
    LET deadline == RenewalDeadline(live[n], at, requested)
        restarted == i > inc[n]
        recovered == current /\ n \notin healthy
    IN  /\ HeartbeatPossible(n, i, current)
        /\ ServingDeadlineInBound(deadline, at)
        /\ \/ ~IsVolatile(n, i, current, deadline)
           \/ ~current
           \/ \E m \in Nodes : ReadyPeering(m, at)
        /\ evidence => ~current /\ pgState = "Active" /\ "PendingEvidence" \in Commands
        /\ CanEstablishFor(hz, authority, at, deadline)
        /\ hz' = HorizonFor(hz, authority, at, deadline)
        /\ ts' = Later(ts, at)
        /\ PromoteLeases([live EXCEPT ![n] = deadline])
        /\ inc' = [inc EXCEPT ![n] = i]
        /\ healthy' = IF current THEN healthy \cup {n} ELSE healthy
        /\ IF restarted \/ recovered \/ evidence
             THEN BumpEpoch
             ELSE /\ observed' = IF current THEN observed \cup {n} ELSE observed
                  /\ peered' = IF ObservesPeering(n, current)
                                 THEN peered \cup {n}
                                 ELSE peered \ {n}
                  /\ UNCHANGED epoch
        /\ IF evidence \/ ((restarted \/ recovered) /\ InActing(n))
             THEN MarkPeering
             ELSE UNCHANGED pgVars
        /\ AwaitReply(n, i, at)
        /\ UNCHANGED <<now, authority, process, map>>

\* active_pg_route_for_storage_node_refresh and the validity of the runtime map
\* built from it: the PG's primary may serve until its lease deadline, and a map
\* without a serving deadline falls back to non_serving_runtime_map_validity.
RuntimeMapFor(n, at, leases) ==
    IF pgState = "Active" /\ primary = n
      THEN [epoch  |-> epoch,
            until  |-> IF n \in healthy /\ leases[n] > at THEN leases[n] ELSE at + MaxLease,
            issued |-> at]
      ELSE [epoch |-> epoch, until |-> 0, issued |-> 0]

\* The end of the handler answers from current_control_plane_snapshot: committed
\* state with the overlay's leases, or without them when a command commits or
\* leadership moves between its reads.  The authority was confirmed before them,
\* which loses some replies and promises nothing of the snapshot.
Reply(n) ==
    /\ pending[n] # 0
    /\ \E leases \in {live, lease} :
         reply' = [reply EXCEPT ![n] = RuntimeMapFor(n, pending[n], leases)]
    /\ pending' = [pending EXCEPT ![n] = 0]
    /\ UNCHANGED <<now, authority, clusterVars, pgVars, process, map>>

-----------------------------------------------------------------------------
(***************************************************************************)
(* The other commands of the replicated state machine.                     *)
(***************************************************************************)

\* expire_heartbeat_leases and ExpireNodeHeartbeatLeases
ExpireNodeHeartbeatLeases(at) ==
    LET expired == {n \in healthy : live[n] # 0 /\ live[n] <= at}
    IN  /\ expired # {}
        /\ HorizonRebindable(hz, authority, at)
        /\ CanEstablishFor(hz, authority, at, at)
        /\ hz' = HorizonFor(hz, authority, at, at)
        /\ \A n \in expired : live[n] <= hz'.until
        /\ ts' = Later(ts, at)
        /\ PromoteLeases([n \in Nodes |-> IF n \in expired THEN 0 ELSE live[n]])
        /\ healthy' = healthy \ expired
        /\ IF \E n \in expired : InActing(n) THEN MarkPeering ELSE UNCHANGED pgVars
        /\ BumpEpoch
        /\ UNCHANGED <<now, authority, inc, nodeVars>>

\* CompleteReadyPgPeerings, and CompleteUnavailablePgPlacementTransition, which
\* activates through the same validation.
CompletePgPeering(n, at) ==
    /\ ReadyPeering(n, at)
    /\ ts' = Later(ts, at)
    /\ pgState' = "Active"
    /\ primary' = n
    /\ prev' = NoPrev
    /\ transfer' = "none"
    /\ PromoteLeases(live)
    /\ BumpEpoch
    /\ UNCHANGED <<now, authority, hz, inc, healthy, acting, nodeVars>>

\* Variant: the fence of a PG that is already Peering is forgotten.
ReconfigureForgetting(s, t) ==
    /\ acting' = s
    /\ pgState' = "Peering"
    /\ primary' = NoNode
    /\ prev' = IF pgState = "Active" THEN FencedPrimaryLease(FALSE) ELSE NoPrev
    /\ transfer' = t
    /\ PromoteLeases(live)
    /\ BumpEpoch
    /\ UNCHANGED <<now, authority, hz, inc, healthy, nodeVars>>

\* What the commands that reconfigure the PG have in common: the previous
\* primary stays fenced and loses its preference.
Reconfigure(s, t) ==
    /\ acting' = s
    /\ pgState' = "Peering"
    /\ primary' = NoNode
    /\ prev' = FencedPrimaryLease(FALSE)
    /\ transfer' = t
    /\ PromoteLeases(live)
    /\ BumpEpoch
    /\ UNCHANGED <<now, authority, hz, inc, healthy, nodeVars>>

SetPgActingSet(s) ==
    /\ "SetPgActingSet" \in Commands
    /\ s # acting
    /\ Reconfigure(s, transfer)
    /\ UNCHANGED ts

SetPgActingSetWithMetadataTransfer(s) ==
    /\ "SetPgActingSetWithMetadataTransfer" \in Commands
    /\ Reconfigure(s, "attached")
    /\ UNCHANGED ts

FencePgForMetadataTransfer ==
    /\ "FencePgForMetadataTransfer" \in Commands
    /\ transfer = "none"
    /\ Reconfigure(acting, "fenced")
    /\ UNCHANGED ts

\* BeginUnavailablePgPlacementTransition: s puts the transfer's source first.
BeginUnavailablePgPlacementTransition(s, at) ==
    /\ "BeginUnavailablePgPlacementTransition" \in Commands
    /\ \E n \in Nodes \ healthy : InActing(n)
    /\ {s[i] : i \in DOMAIN s} = {acting[i] : i \in DOMAIN acting}
    /\ Reconfigure(s, "fenced")
    /\ ts' = Later(ts, at)

\* Variant: the overlay is rebuilt from committed state and its renewals lost.
BumpLosingOverlay ==
    /\ "BumpForOtherPg" \in Commands
    /\ PromoteLeases(lease)
    /\ BumpEpoch
    /\ UNCHANGED <<now, authority, ts, hz, inc, healthy, pgVars, nodeVars>>

\* A command about another PG changes the cluster epoch.
BumpForOtherPg ==
    /\ "BumpForOtherPg" \in Commands
    /\ PromoteLeases(live)
    /\ BumpEpoch
    /\ UNCHANGED <<now, authority, ts, hz, inc, healthy, pgVars, nodeVars>>

\* PromoteNodeHeartbeatLeases, when the command it precedes then fails.
PromoteNodeHeartbeatLeases ==
    /\ lease # live
    /\ PromoteLeases(live)
    /\ UNCHANGED <<now, authority, ts, hz, epoch, inc, healthy, observed, peered,
                   pgVars, nodeVars>>

-----------------------------------------------------------------------------
(***************************************************************************)
(* Authority changes.                                                      *)
(***************************************************************************)

\* A new Raft leader serves from committed state: the overlay of the previous
\* term is gone.
LeaderChange ==
    /\ authority < MaxAuthority
    /\ authority' = authority + 1
    /\ live' = lease
    /\ UNCHANGED <<now, ts, hz, epoch, lease, inc, healthy, observed, peered, pgVars, nodeVars>>

\* The same leader latches and re-establishes its clock: a new generation.
ReestablishClock ==
    /\ authority < MaxAuthority
    /\ authority' = authority + 1
    /\ UNCHANGED <<now, clusterVars, pgVars, nodeVars>>

-----------------------------------------------------------------------------
(***************************************************************************)
(* Storage node processes.                                                 *)
(***************************************************************************)

\* install_control_plane_runtime_config: bind the map's deadline to the local
\* monotonic clock and publish it; an older epoch is refused.
InstallRuntimeMap(n, wall) ==
    /\ reply[n] # NoReply
    /\ reply' = [reply EXCEPT ![n] = NoReply]
    /\ IF BindAccepts(reply[n].issued, wall) /\ reply[n].epoch >= map[n].epoch
         THEN map' = [map EXCEPT ![n] =
                        [epoch |-> reply[n].epoch,
                         until |-> IF reply[n].until = 0 THEN 0
                                   ELSE BindDeadline(reply[n].until, wall, now)]]
         ELSE UNCHANGED map
    /\ UNCHANGED <<now, authority, clusterVars, pgVars, process, pending>>

\* A process restarts.  Its route checkpoint keeps the epoch; the binding, the
\* outstanding request and its answer are gone.
Restart(n) ==
    /\ process[n] < MaxIncarnation
    /\ process' = [process EXCEPT ![n] = @ + 1]
    /\ map' = [map EXCEPT ![n].until = 0]
    /\ pending' = [pending EXCEPT ![n] = 0]
    /\ reply' = [reply EXCEPT ![n] = NoReply]
    /\ UNCHANGED <<now, authority, clusterVars, pgVars>>

-----------------------------------------------------------------------------
NodeHeartbeat(n) ==
    \E i \in 1..MaxIncarnation, current \in BOOLEAN, requested \in Requests, at \in AuthorityTimes :
       \/ VolatileHeartbeat(n, i, current, requested, at)
       \/ \E evidence \in BOOLEAN : RecordNodeHeartbeat(n, i, current, requested, at, evidence)

Next ==
    \/ Tick
    \/ \E n \in Nodes : NodeHeartbeat(n)
    \/ \E n \in Nodes : Reply(n)
    \/ \E at \in AuthorityTimes : ExpireNodeHeartbeatLeases(at)
    \/ \E n \in Nodes, at \in AuthorityTimes : CompletePgPeering(n, at)
    \/ \E s \in ActingSets : SetPgActingSet(s)
    \/ \E s \in ActingSets : SetPgActingSetWithMetadataTransfer(s)
    \/ FencePgForMetadataTransfer
    \/ \E s \in ActingSets, at \in AuthorityTimes : BeginUnavailablePgPlacementTransition(s, at)
    \/ BumpForOtherPg
    \/ PromoteNodeHeartbeatLeases
    \/ LeaderChange
    \/ ReestablishClock
    \/ \E n \in Nodes : \E wall \in WallSamples : InstallRuntimeMap(n, wall)
    \/ \E n \in Nodes : Restart(n)

Spec == Init /\ [][Next]_vars

-----------------------------------------------------------------------------
(***************************************************************************)
(* Correctness.                                                            *)
(***************************************************************************)

\* The type of every variable; a PG has an active_primary exactly while Active.
TypeOK ==
    /\ now \in Nat
    /\ authority \in Nat \ {0}
    /\ ts \in Nat
    /\ hz \in [by : Nat, until : Nat]
    /\ epoch \in Nat \ {0}
    /\ lease \in [Nodes -> Nat]
    /\ live \in [Nodes -> Nat]
    /\ inc \in [Nodes -> Nat]
    /\ healthy \in SUBSET Nodes
    /\ observed \in SUBSET Nodes
    /\ peered \in SUBSET Nodes
    /\ acting \in ActingSets
    /\ pgState \in {"Active", "Peering"}
    /\ primary \in (IF pgState = "Active" THEN Nodes ELSE {NoNode})
    /\ prev \in [node : Nodes \cup {NoNode}, inc : Nat, deadline : Nat, prefer : BOOLEAN]
    /\ transfer \in {"none", "fenced", "attached"}
    /\ process \in [Nodes -> Nat]
    /\ map \in [Nodes -> [epoch : Nat, until : Nat]]
    /\ pending \in [Nodes -> Nat]
    /\ reply \in [Nodes -> [epoch : Nat, until : Nat, issued : Nat]]

\* The process of n admits requests as the PG's primary at this moment.
Serving(n) == IsValidAtMonotonic(map[n].until, now)

\* Two storage processes never serve the PG as its primary at the same moment,
\* whatever the clock offsets, leader changes, restarts and delays in between
\* (the fence of CompletePgPeering and the deadline BoundRouteMapLease binds).
AtMostOneServingPrimary ==
    \A m, n \in Nodes : Serving(m) /\ Serving(n) => m = n

\* Once CompletePgPeering has activated a primary, the only process that can be
\* serving is the registered incarnation of that primary.
ActivationFenced ==
    pgState = "Active" =>
      \A n \in Nodes : Serving(n) => n = primary /\ process[n] = inc[n]

\* Every serving permit ever handed out, volatile ones included, ends by the
\* committed horizon: what a later authority must wait out
\* (validate_lease_grant_horizon_invariant).
HorizonCoversEveryPermit ==
    \A n \in Nodes :
      /\ live[n] <= hz.until
      /\ map[n].until <= Later(now, hz.until)
      /\ reply[n].until <= hz.until

\* The active primary is a Healthy acting node with a lease, so leaving Active
\* always finds a lease to fence (active_primary_lease gives up on None).
ActivePrimaryHoldsLease ==
    pgState = "Active" =>
      InActing(primary) /\ primary \in healthy /\ lease[primary] # 0

\* A deadline that outlived the authority that granted it: no later authority
\* grants, expires or fences by time before the horizon has passed.
Lost(u) == hz.by # authority /\ u <= hz.until

\* A permit of n's process until u is accounted for: it is over, or the lease
\* that would be fenced covers it, or the lease that was fenced covers it, or
\* its authority is gone and nobody has observed the current epoch yet.
Accounted(n, u) ==
    \/ u <= now
    \/ /\ inc[n] = process[n]
       /\ \/ /\ pgState = "Active"
             /\ primary = n
             /\ u <= live[n] \/ Lost(u)
          \/ /\ pgState = "Peering"
             /\ MatchesPrevious(n)
             /\ \/ u <= prev.deadline
                \/ Lost(u) /\ observed = {}

\* Every serving permit, installed or still on its way, is accounted for in the
\* authority's own state; this is why PreviousPrimaryLease is enough to fence.
PermitsAccountedFor ==
    \A n \in Nodes :
      /\ Accounted(n, map[n].until)
      /\ Accounted(n, reply[n].until)

\* What a step of one authority may do to the deadlines its nodes were told of.
ExtendsOrExpires ==
    authority' = authority =>
      \A n \in Nodes : live'[n] >= live[n] \/ (live'[n] = 0 /\ live[n] <= ts')

\* While one authority serves, a renewal it acknowledged is only ever extended,
\* or dropped once the committed time has passed it: no command, promotion or
\* rebase of the overlay shortens a lease a node was told of.
AcknowledgedLeasesHold == [][ExtendsOrExpires]_vars
=============================================================================
