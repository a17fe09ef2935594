------------------------ MODULE PrimaryLease_proofs -------------------------
(***************************************************************************)
(* Proofs about PrimaryLease for every number of nodes, every skew budget,  *)
(* lease length, acting set and bound.                                      *)
(***************************************************************************)
EXTENDS PrimaryLease, TLAPS

\* Every node asks for the longest lease the authority grants.  With a shorter
\* one the runtime map's fallback validity outlives the lease.
FullLease == Requests = {MaxLease}

-----------------------------------------------------------------------------
(***************************************************************************)
(* The inductive invariant.                                                *)
(***************************************************************************)

\* The committed timestamp is a sample of some authority's clock and the horizon
\* was committed by the current authority or an earlier one.
ClockInv ==
    /\ ts <= now + Offset
    /\ hz.by # 0
    /\ hz.by <= authority

\* The overlay renews committed leases; it grants none of its own.
LeaseInv ==
    \A n \in Nodes :
      /\ lease[n] <= live[n]
      /\ live[n] <= hz.until
      /\ live[n] = 0 <=> lease[n] = 0

\* The fenced lease is the previous primary's committed lease or has expired.
PrevInv ==
    \A n \in Nodes : prev.node = n =>
      \/ prev.deadline <= lease[n]
      \/ lease[n] = 0 /\ prev.deadline <= ts

\* A full lease ending at u that the authority granted to n's process, and what
\* became of it since: it is still leased, it expired, or its authority is gone.
Promised(n, u) ==
    /\ inc[n] = process[n]
    /\ u <= hz.until
    /\ \/ u <= live[n]
       \/ live[n] = 0 /\ u <= ts
       \/ u <= now
       \/ Lost(u)

\* A heartbeat being answered was granted a full lease.
PendingInv ==
    \A n \in Nodes : pending[n] # 0 => Promised(n, pending[n] + MaxLease)

BaseInv == TypeOK /\ ClockInv /\ ActivePrimaryHoldsLease /\ LeaseInv /\ PrevInv

PermitInv == PendingInv /\ HorizonCoversEveryPermit /\ PermitsAccountedFor

-----------------------------------------------------------------------------
(***************************************************************************)
(* Lemmas about clock samples, leases and the horizon.                     *)
(***************************************************************************)

\* A time effective_now_ms gives a handler is at least the committed high-water
\* and ahead of true time by at most Offset.
LEMMA AuthorityTimeBounds ==
    ASSUME TypeOK, ts <= now + Offset, NEW at \in AuthorityTimes
    PROVE  at \in Nat /\ ts <= at /\ at <= now + Offset
BY OffsetAssumption, LagAssumption DEF TypeOK, AuthorityTimes, Later

\* The same without the bound on the committed high-water.
LEMMA AuthorityTimeType ==
    ASSUME TypeOK, NEW at \in AuthorityTimes
    PROVE  at \in Nat /\ ts <= at
BY OffsetAssumption, LagAssumption DEF TypeOK, AuthorityTimes, Later

\* A renewal never shortens a lease and ends after the time it is granted at.
LEMMA RenewalExtends ==
    ASSUME NEW current \in Nat, NEW at \in Nat, NEW requested \in Requests
    PROVE  /\ RenewalDeadline(current, at, requested) \in Nat
           /\ RenewalDeadline(current, at, requested) >= current
           /\ RenewalDeadline(current, at, requested) > at
BY RequestsAssumption, MaxLeaseAssumption DEF RenewalDeadline, Later, Earlier

\* The horizon a command leaves behind is a horizon.
LEMMA HorizonType ==
    ASSUME TypeOK, NEW at \in Nat, NEW deadline \in Nat
    PROVE  HorizonFor(hz, authority, at, deadline) \in [by : Nat, until : Nat]
BY MaxLeaseAssumption DEF TypeOK, HorizonFor, EstablishedHorizon, HorizonDuration, Later

\* establish_heartbeat_lease_horizon: the horizon is the authority's, covers the
\* deadline and never moves back; if it was another authority's, everything that
\* authority granted is over.
LEMMA HorizonEstablished ==
    ASSUME TypeOK, ClockInv,
           NEW at \in Nat, at <= now + Offset,
           NEW deadline \in Nat, CanEstablishFor(hz, authority, at, deadline)
    PROVE  LET h == HorizonFor(hz, authority, at, deadline)
           IN  /\ h.by = authority
               /\ deadline <= h.until
               /\ hz.until <= h.until
               /\ hz.by = authority \/ hz.until <= now
<1>1. CASE HorizonCovers(hz, authority, deadline)
  BY <1>1 DEF TypeOK, HorizonFor, HorizonCovers
<1>2. CASE ~HorizonCovers(hz, authority, deadline)
  BY <1>2, SkewAssumption, MaxLeaseAssumption, OffsetAssumption
     DEF TypeOK, ClockInv, HorizonFor, HorizonCovers, CanEstablishFor, HorizonRebindable,
         EstablishedHorizon, HorizonDuration, Later
<1> QED BY <1>1, <1>2

-----------------------------------------------------------------------------
(***************************************************************************)
(* Types.                                                                  *)
(***************************************************************************)

\* Leaving Active records a fence of the right type.
LEMMA FencedType ==
    ASSUME TypeOK, NEW prefer \in BOOLEAN
    PROVE  FencedPrimaryLease(prefer) \in
             [node : Nodes \cup {NoNode}, inc : Nat, deadline : Nat, prefer : BOOLEAN]
BY DEF TypeOK, FencedPrimaryLease

\* The empty reply is a reply.
LEMMA NoReplyType == NoReply \in [epoch : Nat, until : Nat, issued : Nat]
BY DEF NoReply

\* A heartbeat that will be answered keeps the types of what is in flight.
LEMMA AwaitReplyType ==
    ASSUME TypeOK, NEW n \in Nodes, NEW i, NEW at \in Nat, AwaitReply(n, i, at)
    PROVE  /\ pending' \in [Nodes -> Nat]
           /\ reply' \in [Nodes -> [epoch : Nat, until : Nat, issued : Nat]]
<1>1. CASE UNCHANGED <<pending, reply>>
  BY <1>1 DEF TypeOK
<1>2. CASE /\ pending' = [pending EXCEPT ![n] = at]
           /\ reply' = [reply EXCEPT ![n] = NoReply]
  BY <1>2, NoReplyType DEF TypeOK
<1> QED BY <1>1, <1>2 DEF AwaitReply

\* A committed or overlay-only heartbeat keeps every variable's type.
LEMMA HeartbeatType ==
    ASSUME TypeOK, NEW n \in Nodes, NodeHeartbeat(n)
    PROVE  TypeOK'
<1> PICK i \in 1..MaxIncarnation, current \in BOOLEAN, requested \in Requests,
         at \in AuthorityTimes :
           \/ VolatileHeartbeat(n, i, current, requested, at)
           \/ \E evidence \in BOOLEAN : RecordNodeHeartbeat(n, i, current, requested, at, evidence)
  BY DEF NodeHeartbeat
<1> DEFINE deadline == RenewalDeadline(live[n], at, requested)
<1>1. at \in Nat /\ i \in Nat
  BY AuthorityTimeType, BoundsAssumption
<1>2. live[n] \in Nat
  BY DEF TypeOK
<1>3. deadline \in Nat
  BY <1>1, <1>2, RenewalExtends
<1> HIDE DEF deadline
<1>4. AwaitReply(n, i, at) => /\ pending' \in [Nodes -> Nat]
                              /\ reply' \in [Nodes -> [epoch : Nat, until : Nat, issued : Nat]]
  BY <1>1, AwaitReplyType
<1>5. CASE VolatileHeartbeat(n, i, current, requested, at)
  BY <1>3, <1>4, <1>5 DEF TypeOK, VolatileHeartbeat, deadline, pgVars
<1>6. ASSUME NEW evidence \in BOOLEAN, RecordNodeHeartbeat(n, i, current, requested, at, evidence)
      PROVE  TypeOK'
  <2>1. hz' \in [by : Nat, until : Nat]
    BY <1>1, <1>3, <1>6, HorizonType DEF RecordNodeHeartbeat, deadline
  <2>2. ts' \in Nat
    BY <1>1, <1>6 DEF RecordNodeHeartbeat, TypeOK, Later
  <2>3. lease' \in [Nodes -> Nat] /\ live' \in [Nodes -> Nat]
    BY <1>3, <1>6 DEF RecordNodeHeartbeat, deadline, TypeOK, PromoteLeases
  <2>4. /\ epoch' \in Nat \ {0}
        /\ observed' \in SUBSET Nodes
        /\ peered' \in SUBSET Nodes
    BY <1>6 DEF RecordNodeHeartbeat, TypeOK, BumpEpoch
  <2>5. /\ acting' \in ActingSets
        /\ pgState' \in {"Active", "Peering"}
        /\ primary' \in (IF pgState' = "Active" THEN Nodes ELSE {NoNode})
        /\ prev' \in [node : Nodes \cup {NoNode}, inc : Nat, deadline : Nat, prefer : BOOLEAN]
        /\ transfer' \in {"none", "fenced", "attached"}
    <3>1. CASE MarkPeering
      BY <3>1, FencedType DEF TypeOK, MarkPeering
    <3>2. CASE UNCHANGED pgVars
      BY <3>2 DEF TypeOK, pgVars
    <3> QED BY <1>6, <3>1, <3>2 DEF RecordNodeHeartbeat
  <2>6. now' \in Nat /\ authority' \in Nat \ {0} /\ inc' \in [Nodes -> Nat]
        /\ healthy' \in SUBSET Nodes
    BY <1>1, <1>6 DEF RecordNodeHeartbeat, TypeOK
  <2>7. process' \in [Nodes -> Nat] /\ map' \in [Nodes -> [epoch : Nat, until : Nat]]
    BY <1>6 DEF RecordNodeHeartbeat, TypeOK
  <2>8. AwaitReply(n, i, at)
    BY <1>6 DEF RecordNodeHeartbeat
  <2> QED BY <1>4, <2>1, <2>2, <2>3, <2>4, <2>5, <2>6, <2>7, <2>8 DEF TypeOK
<1> QED BY <1>5, <1>6

\* A reconfiguration keeps every type except perhaps the timestamp's.
LEMMA ReconfigureType ==
    ASSUME TypeOK, NEW s \in ActingSets, NEW t \in {"none", "fenced", "attached"},
           Reconfigure(s, t), ts' \in Nat
    PROVE  TypeOK'
<1>1. prev' \in [node : Nodes \cup {NoNode}, inc : Nat, deadline : Nat, prefer : BOOLEAN]
  BY FencedType DEF Reconfigure
<1>2. UNCHANGED <<now, authority, hz, inc, healthy, process, map, pending, reply>>
  BY DEF Reconfigure, nodeVars
<1>3. lease' = live /\ live' = live /\ observed' = {} /\ peered' = {} /\ epoch' = epoch + 1
  BY DEF Reconfigure, PromoteLeases, BumpEpoch
<1>4. acting' = s /\ pgState' = "Peering" /\ primary' = NoNode /\ transfer' = t
  BY DEF Reconfigure
<1> QED BY <1>1, <1>2, <1>3, <1>4 DEF TypeOK

\* Every step of the specification keeps the types.
LEMMA TypeStep == ASSUME TypeOK, [Next]_vars PROVE TypeOK'
<1>1. CASE Tick
  BY <1>1 DEF TypeOK, Tick, clusterVars, pgVars, nodeVars
<1>2. CASE \E n \in Nodes : NodeHeartbeat(n)
  BY <1>2, HeartbeatType
<1>3. CASE \E n \in Nodes : Reply(n)
  <2> PICK n \in Nodes : Reply(n)
    BY <1>3
  <2>1. \A leases \in {live, lease} :
          RuntimeMapFor(n, pending[n], leases) \in [epoch : Nat, until : Nat, issued : Nat]
    BY MaxLeaseAssumption DEF TypeOK, RuntimeMapFor
  <2>2. reply' \in [Nodes -> [epoch : Nat, until : Nat, issued : Nat]]
    BY <2>1 DEF TypeOK, Reply
  <2> QED BY <2>2 DEF TypeOK, Reply, clusterVars, pgVars
<1>4. CASE \E at \in AuthorityTimes : ExpireNodeHeartbeatLeases(at)
  <2> PICK at \in AuthorityTimes : ExpireNodeHeartbeatLeases(at)
    BY <1>4
  <2>1. at \in Nat
    BY AuthorityTimeType
  <2>2. hz' \in [by : Nat, until : Nat]
    BY <2>1, HorizonType DEF ExpireNodeHeartbeatLeases
  <2>3. ts' \in Nat
    BY <2>1 DEF ExpireNodeHeartbeatLeases, TypeOK, Later
  <2>4. /\ acting' \in ActingSets
        /\ pgState' \in {"Active", "Peering"}
        /\ primary' \in (IF pgState' = "Active" THEN Nodes ELSE {NoNode})
        /\ prev' \in [node : Nodes \cup {NoNode}, inc : Nat, deadline : Nat, prefer : BOOLEAN]
        /\ transfer' \in {"none", "fenced", "attached"}
    BY FencedType DEF ExpireNodeHeartbeatLeases, TypeOK, MarkPeering, pgVars
  <2>5. lease' \in [Nodes -> Nat] /\ live' \in [Nodes -> Nat] /\ healthy' \in SUBSET Nodes
    BY DEF ExpireNodeHeartbeatLeases, TypeOK, PromoteLeases
  <2> QED BY <2>2, <2>3, <2>4, <2>5 DEF ExpireNodeHeartbeatLeases, TypeOK, BumpEpoch, nodeVars
<1>5. CASE \E n \in Nodes, at \in AuthorityTimes : CompletePgPeering(n, at)
  <2> PICK n \in Nodes, at \in AuthorityTimes : CompletePgPeering(n, at)
    BY <1>5
  <2>1. ts' \in Nat
    BY AuthorityTimeType DEF CompletePgPeering, TypeOK, Later
  <2> QED BY <2>1 DEF CompletePgPeering, TypeOK, PromoteLeases, BumpEpoch, NoPrev, nodeVars
<1>6. CASE \E s \in ActingSets : SetPgActingSet(s)
  BY <1>6, ReconfigureType DEF SetPgActingSet, TypeOK
<1>7. CASE \E s \in ActingSets : SetPgActingSetWithMetadataTransfer(s)
  BY <1>7, ReconfigureType DEF SetPgActingSetWithMetadataTransfer, TypeOK
<1>8. CASE FencePgForMetadataTransfer
  BY <1>8, ReconfigureType DEF FencePgForMetadataTransfer, TypeOK
<1>9. CASE \E s \in ActingSets, at \in AuthorityTimes : BeginUnavailablePgPlacementTransition(s, at)
  <2> PICK s \in ActingSets, at \in AuthorityTimes : BeginUnavailablePgPlacementTransition(s, at)
    BY <1>9
  <2>1. ts' \in Nat
    BY AuthorityTimeType DEF BeginUnavailablePgPlacementTransition, TypeOK, Later
  <2> QED BY <2>1, ReconfigureType DEF BeginUnavailablePgPlacementTransition
<1>10. CASE BumpForOtherPg
  BY <1>10 DEF BumpForOtherPg, TypeOK, PromoteLeases, BumpEpoch, pgVars, nodeVars
<1>11. CASE PromoteNodeHeartbeatLeases
  BY <1>11 DEF PromoteNodeHeartbeatLeases, TypeOK, PromoteLeases, pgVars, nodeVars
<1>12. CASE LeaderChange
  BY <1>12 DEF LeaderChange, TypeOK, pgVars, nodeVars
<1>13. CASE ReestablishClock
  BY <1>13 DEF ReestablishClock, TypeOK, clusterVars, pgVars, nodeVars
<1>14. CASE \E n \in Nodes : \E wall \in WallSamples : InstallRuntimeMap(n, wall)
  <2> PICK n \in Nodes, wall \in WallSamples : InstallRuntimeMap(n, wall)
    BY <1>14
  <2>1. BindDeadline(reply[n].until, wall, now) \in Nat
    BY SkewAssumption, OffsetAssumption, SMTT(30) DEF TypeOK, WallSamples, BindDeadline, Later
  <2>2. map' \in [Nodes -> [epoch : Nat, until : Nat]]
    BY <2>1 DEF TypeOK, InstallRuntimeMap
  <2>3. reply' \in [Nodes -> [epoch : Nat, until : Nat, issued : Nat]]
    BY NoReplyType DEF TypeOK, InstallRuntimeMap
  <2> QED BY <2>2, <2>3 DEF TypeOK, InstallRuntimeMap, clusterVars, pgVars
<1>15. CASE \E n \in Nodes : Restart(n)
  BY <1>15, NoReplyType, SMTT(30) DEF Restart, TypeOK, clusterVars, pgVars
<1>16. CASE UNCHANGED vars
  BY <1>16 DEF TypeOK, vars, clusterVars, pgVars, nodeVars
<1> QED
  BY <1>1, <1>2, <1>3, <1>4, <1>5, <1>6, <1>7, <1>8, <1>9, <1>10, <1>11, <1>12, <1>13, <1>14,
     <1>15, <1>16 DEF Next

\* The initial state is well typed.
LEMMA TypeInit == Init => TypeOK
<1> SUFFICES ASSUME Init PROVE TypeOK
  OBVIOUS
<1> PICK s \in ActingSets, p \in Nodes, first \in Requests :
      /\ now = Offset + 1
      /\ lease = [n \in Nodes |-> RenewalDeadline(0, now, first)]
      /\ acting = s
      /\ primary = p
  BY DEF Init
<1>1. lease \in [Nodes -> Nat] /\ live \in [Nodes -> Nat]
  BY RenewalExtends, OffsetAssumption DEF Init
<1>2. hz \in [by : Nat, until : Nat] /\ now \in Nat /\ ts \in Nat
  BY OffsetAssumption, MaxLeaseAssumption
     DEF Init, EstablishedHorizon, NoHorizon, HorizonDuration, Later
<1> QED BY <1>1, <1>2, OffsetAssumption DEF Init, TypeOK, NoPrev, NoReply

\* The state of the lease protocol is well typed in every reachable state; in
\* particular a PG has an active primary exactly while it is Active.
THEOREM TypeCorrect == Spec => []TypeOK
BY TypeInit, TypeStep, PTL DEF Spec

-----------------------------------------------------------------------------
(***************************************************************************)
(* Acknowledged leases.                                                    *)
(***************************************************************************)

\* Leaving the overlay alone or promoting it shortens no lease.
LEMMA SameLeasesHold ==
    ASSUME TypeOK, live' = live
    PROVE  ExtendsOrExpires
BY DEF TypeOK, ExtendsOrExpires

\* A heartbeat, committed or not, only extends its own node's lease.
LEMMA HeartbeatHolds ==
    ASSUME TypeOK, NEW n \in Nodes, NodeHeartbeat(n)
    PROVE  ExtendsOrExpires
<1> PICK i \in 1..MaxIncarnation, current \in BOOLEAN, requested \in Requests,
         at \in AuthorityTimes :
           \/ VolatileHeartbeat(n, i, current, requested, at)
           \/ \E evidence \in BOOLEAN : RecordNodeHeartbeat(n, i, current, requested, at, evidence)
  BY DEF NodeHeartbeat
<1> DEFINE deadline == RenewalDeadline(live[n], at, requested)
<1>1. live[n] \in Nat /\ at \in Nat
  BY AuthorityTimeType DEF TypeOK
<1>2. deadline \in Nat /\ deadline >= live[n]
  BY <1>1, RenewalExtends
<1>3. live' = [live EXCEPT ![n] = deadline]
  BY DEF VolatileHeartbeat, RecordNodeHeartbeat, PromoteLeases
<1> HIDE DEF deadline
<1> QED BY <1>1, <1>2, <1>3 DEF ExtendsOrExpires, TypeOK

\* Expiry drops a lease only when the committed time has passed it.
LEMMA ExpiryHolds ==
    ASSUME TypeOK, NEW at \in AuthorityTimes, ExpireNodeHeartbeatLeases(at)
    PROVE  ExtendsOrExpires
<1> DEFINE expired == {n \in healthy : live[n] # 0 /\ live[n] <= at}
<1>1. at \in Nat /\ ts \in Nat
  BY AuthorityTimeType DEF TypeOK
<1>2. /\ live' = [n \in Nodes |-> IF n \in expired THEN 0 ELSE live[n]]
      /\ ts' = Later(ts, at)
  BY DEF ExpireNodeHeartbeatLeases, PromoteLeases
<1>3. at <= ts'
  BY <1>1, <1>2 DEF Later
<1>4. ASSUME NEW n \in Nodes PROVE live'[n] >= live[n] \/ (live'[n] = 0 /\ live[n] <= ts')
  <2>1. live[n] \in Nat
    BY DEF TypeOK
  <2>2. CASE n \in expired
    BY <1>1, <1>2, <1>3, <2>1, <2>2 DEF Later
  <2>3. CASE n \notin expired
    BY <1>2, <2>1, <2>3
  <2> QED BY <2>2, <2>3
<1> QED BY <1>4 DEF ExtendsOrExpires

\* While one authority serves, a lease it acknowledged is extended or, once the
\* committed time has passed it, dropped: no command of the state machine and no
\* promotion of the overlay shortens one.  (A leader change is excluded: the
\* overlay is lost with the leader, and the horizon accounts for it instead.)
THEOREM AcknowledgedLeasesCorrect == Spec => AcknowledgedLeasesHold
<1>1. ASSUME TypeOK, [Next]_vars PROVE ExtendsOrExpires
  <2> USE <1>1
  <2>1. CASE \E n \in Nodes : NodeHeartbeat(n)
    BY <2>1, HeartbeatHolds
  <2>2. CASE \E at \in AuthorityTimes : ExpireNodeHeartbeatLeases(at)
    BY <2>2, ExpiryHolds
  <2>3. CASE LeaderChange \/ ReestablishClock
    BY <2>3 DEF LeaderChange, ReestablishClock, TypeOK, ExtendsOrExpires
  <2>4. CASE Tick \/ (\E n \in Nodes : Reply(n)) \/ (\E n \in Nodes : Restart(n))
    BY <2>4, SameLeasesHold DEF Tick, Reply, Restart, clusterVars
  <2>5. CASE \E n \in Nodes : \E wall \in WallSamples : InstallRuntimeMap(n, wall)
    BY <2>5, SameLeasesHold DEF InstallRuntimeMap, clusterVars
  <2>6. CASE \E n \in Nodes, at \in AuthorityTimes : CompletePgPeering(n, at)
    BY <2>6, SameLeasesHold DEF CompletePgPeering, PromoteLeases
  <2>7. CASE \/ \E s \in ActingSets : SetPgActingSet(s)
             \/ \E s \in ActingSets : SetPgActingSetWithMetadataTransfer(s)
             \/ FencePgForMetadataTransfer
             \/ \E s \in ActingSets, at \in AuthorityTimes :
                  BeginUnavailablePgPlacementTransition(s, at)
    BY <2>7, SameLeasesHold
       DEF SetPgActingSet, SetPgActingSetWithMetadataTransfer, FencePgForMetadataTransfer,
           BeginUnavailablePgPlacementTransition, Reconfigure, PromoteLeases
  <2>8. CASE BumpForOtherPg \/ PromoteNodeHeartbeatLeases
    BY <2>8, SameLeasesHold DEF BumpForOtherPg, PromoteNodeHeartbeatLeases, PromoteLeases
  <2>9. CASE UNCHANGED vars
    BY <2>9, SameLeasesHold DEF vars, clusterVars
  <2> QED BY <2>1, <2>2, <2>3, <2>4, <2>5, <2>6, <2>7, <2>8, <2>9 DEF Next
<1> QED BY <1>1, TypeCorrect, PTL DEF Spec, AcknowledgedLeasesHold

-----------------------------------------------------------------------------
(***************************************************************************)
(* The authority's own state: BaseInv is inductive.                        *)
(***************************************************************************)

\* What every command does to the leases: the overlay is promoted, a lease is
\* extended or expires, a new one ends after the committed time.
LeaseStep ==
    /\ lease' = live'
    /\ ts' \in Nat
    /\ ts <= ts'
    /\ \A n \in Nodes :
         /\ live'[n] \in Nat
         /\ live'[n] >= live[n] \/ (live'[n] = 0 /\ live[n] <= ts')
         /\ live[n] = 0 => live'[n] = 0 \/ live'[n] >= ts

\* A command that promotes the overlay and grants nothing is such a step.
LEMMA PromotionLeaseStep ==
    ASSUME TypeOK, PromoteLeases(live), ts' \in Nat, ts <= ts'
    PROVE  LeaseStep
BY DEF TypeOK, PromoteLeases, LeaseStep

\* So is a committed heartbeat; it keeps every lease and its own is positive.
LEMMA HeartbeatLeaseStep ==
    ASSUME TypeOK, NEW n \in Nodes, NEW i, NEW current \in BOOLEAN,
           NEW requested \in Requests, NEW at \in AuthorityTimes, NEW evidence \in BOOLEAN,
           RecordNodeHeartbeat(n, i, current, requested, at, evidence)
    PROVE  /\ LeaseStep
           /\ \A m \in Nodes : live'[m] >= live[m]
           /\ live'[n] > at
<1> DEFINE deadline == RenewalDeadline(live[n], at, requested)
<1>1. live[n] \in Nat /\ at \in Nat /\ ts \in Nat /\ ts <= at
  BY AuthorityTimeType DEF TypeOK
<1>2. deadline \in Nat /\ deadline >= live[n] /\ deadline > at
  BY <1>1, RenewalExtends
<1>3. /\ live' = [live EXCEPT ![n] = deadline]
      /\ lease' = live'
      /\ ts' = Later(ts, at)
  BY DEF RecordNodeHeartbeat, PromoteLeases
<1> HIDE DEF deadline
<1>4. ts' \in Nat /\ ts <= ts'
  BY <1>1, <1>3 DEF Later
<1>5. ASSUME NEW m \in Nodes
      PROVE  /\ live'[m] \in Nat
             /\ live'[m] >= live[m]
             /\ live[m] = 0 => live'[m] = 0 \/ live'[m] >= ts
  <2>1. live[m] \in Nat
    BY DEF TypeOK
  <2>2. CASE m = n
    <3>1. live'[m] = deadline
      BY <1>3, <2>2 DEF TypeOK
    <3> QED BY <1>1, <1>2, <2>2, <3>1
  <2>3. CASE m # n
    BY <1>3, <2>1, <2>3 DEF TypeOK
  <2> QED BY <2>2, <2>3
<1>6. live'[n] > at
  BY <1>2, <1>3 DEF TypeOK
<1> QED BY <1>3, <1>4, <1>5, <1>6 DEF LeaseStep

\* And so is expiry, which drops exactly the Healthy leases that have ended.
LEMMA ExpiryLeaseStep ==
    ASSUME TypeOK, NEW at \in AuthorityTimes, ExpireNodeHeartbeatLeases(at)
    PROVE  /\ LeaseStep
           /\ \A m \in Nodes :
                \/ live'[m] = live[m]
                \/ live'[m] = 0 /\ m \in healthy /\ live[m] # 0 /\ live[m] <= at
<1> DEFINE expired == {n \in healthy : live[n] # 0 /\ live[n] <= at}
<1>1. at \in Nat /\ ts \in Nat /\ ts <= at
  BY AuthorityTimeType DEF TypeOK
<1>2. /\ live' = [n \in Nodes |-> IF n \in expired THEN 0 ELSE live[n]]
      /\ lease' = live'
      /\ ts' = Later(ts, at)
  BY DEF ExpireNodeHeartbeatLeases, PromoteLeases
<1>3. ts' \in Nat /\ ts <= ts' /\ at <= ts'
  BY <1>1, <1>2 DEF Later
<1>4. ASSUME NEW m \in Nodes
      PROVE  /\ live'[m] \in Nat
             /\ live'[m] >= live[m] \/ (live'[m] = 0 /\ live[m] <= ts')
             /\ live[m] = 0 => live'[m] = 0 \/ live'[m] >= ts
             /\ \/ live'[m] = live[m]
                \/ live'[m] = 0 /\ m \in healthy /\ live[m] # 0 /\ live[m] <= at
  <2>1. live[m] \in Nat
    BY DEF TypeOK
  <2>2. CASE m \in expired
    BY <1>1, <1>2, <1>3, <2>1, <2>2
  <2>3. CASE m \notin expired
    BY <1>2, <2>1, <2>3
  <2> QED BY <2>2, <2>3
<1> QED BY <1>2, <1>3, <1>4 DEF LeaseStep

\* A command whose leases stay within the horizon keeps LeaseInv.
LEMMA LeaseStepLeases ==
    ASSUME LeaseStep, \A n \in Nodes : live'[n] <= hz'.until
    PROVE  LeaseInv'
BY DEF LeaseStep, LeaseInv

\* The fence outlives a command: what it fenced is still leased or has expired.
LEMMA LeaseStepFence ==
    ASSUME TypeOK, LeaseInv, PrevInv, LeaseStep, NEW prefer \in BOOLEAN,
           prev' = prev \/ prev' = FencedPrimaryLease(prefer)
    PROVE  PrevInv'
<1> SUFFICES ASSUME NEW n \in Nodes, prev'.node = n
             PROVE  \/ prev'.deadline <= lease'[n]
                    \/ lease'[n] = 0 /\ prev'.deadline <= ts'
  BY DEF PrevInv
<1>1. /\ live[n] \in Nat /\ lease[n] \in Nat /\ ts \in Nat
      /\ live'[n] \in Nat /\ lease'[n] = live'[n] /\ ts' \in Nat /\ ts <= ts'
      /\ live'[n] >= live[n] \/ (live'[n] = 0 /\ live[n] <= ts')
      /\ live[n] = 0 => live'[n] = 0 \/ live'[n] >= ts
  BY DEF TypeOK, LeaseStep
<1>2. CASE prev'.node = prev.node /\ prev'.deadline = prev.deadline
  <2>1. prev.deadline \in Nat
    BY DEF TypeOK
  <2>2. prev.deadline <= lease[n] \/ (lease[n] = 0 /\ prev.deadline <= ts)
    BY <1>2 DEF PrevInv
  <2>3. lease[n] <= live[n] /\ (live[n] = 0 <=> lease[n] = 0)
    BY DEF LeaseInv
  <2> QED BY <1>1, <1>2, <2>1, <2>2, <2>3
<1>3. CASE prev'.node = primary /\ prev'.deadline = live[primary]
  BY <1>1, <1>3
<1>4. /\ [prev EXCEPT !.prefer = @ /\ prefer].node = prev.node
      /\ [prev EXCEPT !.prefer = @ /\ prefer].deadline = prev.deadline
  BY DEF TypeOK
<1>5. CASE prev' = prev
  BY <1>2, <1>5
<1>6. CASE prev' = [prev EXCEPT !.prefer = @ /\ prefer]
  BY <1>2, <1>4, <1>6
<1>7. CASE prev' = [node |-> primary, inc |-> inc[primary],
                    deadline |-> live[primary], prefer |-> prefer]
  BY <1>3, <1>7
<1> QED BY <1>5, <1>6, <1>7 DEF FencedPrimaryLease

\* A heartbeat keeps the authority's state consistent.
LEMMA HeartbeatBase ==
    ASSUME BaseInv, NEW n \in Nodes, NodeHeartbeat(n)
    PROVE  (ClockInv /\ ActivePrimaryHoldsLease /\ LeaseInv /\ PrevInv)'
<1> PICK i \in 1..MaxIncarnation, current \in BOOLEAN, requested \in Requests,
         at \in AuthorityTimes :
           \/ VolatileHeartbeat(n, i, current, requested, at)
           \/ \E evidence \in BOOLEAN : RecordNodeHeartbeat(n, i, current, requested, at, evidence)
  BY DEF NodeHeartbeat
<1> DEFINE deadline == RenewalDeadline(live[n], at, requested)
<1>1. /\ TypeOK /\ ClockInv /\ LeaseInv /\ PrevInv /\ ActivePrimaryHoldsLease
      /\ at \in Nat /\ ts <= at /\ at <= now + Offset /\ live[n] \in Nat /\ hz.until \in Nat
  BY AuthorityTimeBounds DEF BaseInv, TypeOK, ClockInv
<1>2. deadline \in Nat /\ deadline >= live[n] /\ deadline > at
  BY <1>1, RenewalExtends
<1> HIDE DEF deadline
<1>3. CASE VolatileHeartbeat(n, i, current, requested, at)
  <2>1. /\ live' = [live EXCEPT ![n] = deadline]
        /\ deadline <= hz.until
        /\ live[n] # 0
        /\ UNCHANGED <<now, authority, ts, hz, lease, healthy, acting, pgState, primary, prev>>
    BY <1>3 DEF VolatileHeartbeat, IsVolatile, HorizonCovers, deadline, pgVars
  <2>2. LeaseInv'
    BY <1>1, <1>2, <2>1 DEF LeaseInv, TypeOK
  <2>3. (ClockInv /\ ActivePrimaryHoldsLease /\ PrevInv)'
    BY <1>1, <2>1 DEF ClockInv, ActivePrimaryHoldsLease, PrevInv, InActing
  <2> QED BY <2>2, <2>3
<1>4. ASSUME NEW evidence \in BOOLEAN, RecordNodeHeartbeat(n, i, current, requested, at, evidence)
      PROVE  (ClockInv /\ ActivePrimaryHoldsLease /\ LeaseInv /\ PrevInv)'
  <2>1. LeaseStep /\ (\A m \in Nodes : live'[m] >= live[m]) /\ live'[n] > at
    BY <1>1, <1>4, HeartbeatLeaseStep
  <2>2. /\ live' = [live EXCEPT ![n] = deadline]
        /\ CanEstablishFor(hz, authority, at, deadline)
        /\ hz' = HorizonFor(hz, authority, at, deadline)
        /\ ts' = Later(ts, at) /\ now' = now /\ authority' = authority
        /\ healthy \subseteq healthy'
    BY <1>4 DEF RecordNodeHeartbeat, PromoteLeases, deadline
  <2>3. hz'.by = authority /\ deadline <= hz'.until /\ hz.until <= hz'.until /\ hz'.until \in Nat
    BY <1>1, <1>2, <2>2, HorizonEstablished, HorizonType
  <2>4. ClockInv'
    BY <1>1, <2>2, <2>3 DEF ClockInv, TypeOK, Later
  <2>5. ASSUME NEW m \in Nodes PROVE live'[m] <= hz'.until
    BY <1>1, <1>2, <2>2, <2>3 DEF LeaseInv, TypeOK
  <2>6. LeaseInv'
    BY <2>1, <2>5, LeaseStepLeases
  <2>7. CASE MarkPeering
    <3>1. prev' = prev \/ prev' = FencedPrimaryLease(TRUE)
      BY <2>7 DEF MarkPeering
    <3>2. PrevInv'
      BY <1>1, <2>1, <3>1, LeaseStepFence
    <3> QED BY <2>4, <2>6, <2>7, <3>2 DEF MarkPeering, ActivePrimaryHoldsLease
  <2>8. CASE UNCHANGED pgVars
    <3>1. PrevInv'
      BY <1>1, <2>1, <2>8, LeaseStepFence DEF pgVars
    <3>2. ASSUME pgState = "Active" PROVE lease'[primary] # 0
      BY <1>1, <2>1, <3>2 DEF LeaseStep, ActivePrimaryHoldsLease, LeaseInv, TypeOK
    <3>3. ActivePrimaryHoldsLease'
      BY <1>1, <2>2, <2>8, <3>2 DEF ActivePrimaryHoldsLease, pgVars, InActing
    <3> QED BY <2>4, <2>6, <3>1, <3>3
  <2> QED BY <1>4, <2>7, <2>8 DEF RecordNodeHeartbeat
<1> QED BY <1>3, <1>4

\* Expiry keeps it consistent: a PG whose primary expires leaves Active.
LEMMA ExpiryBase ==
    ASSUME BaseInv, NEW at \in AuthorityTimes, ExpireNodeHeartbeatLeases(at)
    PROVE  (ClockInv /\ ActivePrimaryHoldsLease /\ LeaseInv /\ PrevInv)'
<1> DEFINE expired == {n \in healthy : live[n] # 0 /\ live[n] <= at}
<1>1. /\ TypeOK /\ ClockInv /\ LeaseInv /\ PrevInv /\ ActivePrimaryHoldsLease
      /\ at \in Nat /\ ts <= at /\ at <= now + Offset
  BY AuthorityTimeBounds DEF BaseInv, ClockInv
<1>2. /\ LeaseStep
      /\ \A m \in Nodes : \/ live'[m] = live[m]
                          \/ live'[m] = 0 /\ m \in healthy /\ live[m] # 0 /\ live[m] <= at
  BY <1>1, ExpiryLeaseStep
<1>3. /\ CanEstablishFor(hz, authority, at, at)
      /\ hz' = HorizonFor(hz, authority, at, at)
      /\ ts' = Later(ts, at) /\ now' = now /\ authority' = authority
      /\ healthy' = healthy \ expired
      /\ IF \E n \in expired : InActing(n) THEN MarkPeering ELSE UNCHANGED pgVars
  BY DEF ExpireNodeHeartbeatLeases
<1>4. hz'.by = authority /\ hz.until <= hz'.until /\ hz'.until \in Nat /\ hz.until \in Nat
  BY <1>1, <1>3, HorizonEstablished, HorizonType DEF TypeOK
<1>5. ClockInv'
  BY <1>1, <1>3, <1>4 DEF ClockInv, TypeOK, Later
<1>6. ASSUME NEW m \in Nodes PROVE live'[m] <= hz'.until
  BY <1>1, <1>2, <1>4 DEF LeaseInv, TypeOK
<1>7. LeaseInv'
  BY <1>2, <1>6, LeaseStepLeases
<1>8. CASE \E n \in expired : InActing(n)
  <2>1. prev' = prev \/ prev' = FencedPrimaryLease(TRUE)
    BY <1>3, <1>8 DEF MarkPeering
  <2>2. PrevInv'
    BY <1>1, <1>2, <2>1, LeaseStepFence
  <2> QED BY <1>3, <1>5, <1>7, <1>8, <2>2 DEF MarkPeering, ActivePrimaryHoldsLease
<1>9. CASE ~\E n \in expired : InActing(n)
  <2>1. UNCHANGED <<acting, pgState, primary, prev>>
    BY <1>3, <1>9 DEF pgVars
  <2>2. PrevInv'
    BY <1>1, <1>2, <2>1, LeaseStepFence
  <2>3. ASSUME pgState = "Active"
        PROVE  primary \notin expired /\ lease'[primary] # 0
    <3>1. InActing(primary) /\ primary \in healthy /\ primary \in Nodes /\ lease[primary] # 0
      BY <1>1, <2>3 DEF ActivePrimaryHoldsLease, TypeOK
    <3>2. primary \notin expired
      BY <1>9, <3>1
    <3>3. live[primary] # 0
      BY <1>1, <3>1 DEF LeaseInv
    <3>4. live'[primary] = live[primary]
      BY <1>2, <3>1, <3>2
    <3> QED BY <1>2, <3>2, <3>3, <3>4 DEF LeaseStep
  <2>4. ActivePrimaryHoldsLease'
    BY <1>1, <1>3, <2>1, <2>3 DEF ActivePrimaryHoldsLease, InActing
  <2> QED BY <1>5, <1>7, <2>2, <2>4
<1> QED BY <1>8, <1>9

\* The successor peering selects is an acting node that can serve.
LEMMA SelectedCanServe ==
    ASSUME NEW n \in Nodes, NEW at, IsPeeringPrimary(n, at)
    PROVE  InActing(n) /\ CanServePrimary(n, at)
<1>1. CASE PreferredPrimary(n, at)
  BY <1>1 DEF PreferredPrimary
<1>2. CASE \E i \in DOMAIN acting : acting[i] = n /\ CanServePrimary(n, at)
  BY <1>2 DEF InActing
<1> QED BY <1>1, <1>2 DEF IsPeeringPrimary

\* Activation keeps it consistent: the successor holds a lease, the fence is spent.
LEMMA CompleteBase ==
    ASSUME BaseInv, NEW n \in Nodes, NEW at \in AuthorityTimes, CompletePgPeering(n, at)
    PROVE  (ClockInv /\ ActivePrimaryHoldsLease /\ LeaseInv /\ PrevInv)'
<1>1. /\ TypeOK /\ ClockInv /\ LeaseInv
      /\ at \in Nat /\ ts \in Nat /\ ts <= at /\ at <= now + Offset
  BY AuthorityTimeBounds DEF BaseInv, ClockInv, TypeOK
<1>2. /\ lease' = live /\ live' = live /\ ts' = Later(ts, at) /\ prev' = NoPrev /\ primary' = n
      /\ UNCHANGED <<now, authority, hz, healthy, acting>>
  BY DEF CompletePgPeering, PromoteLeases
<1>3. ClockInv'
  BY <1>1, <1>2 DEF ClockInv, Later
<1>4. LeaseInv'
  BY <1>1, <1>2 DEF LeaseInv, TypeOK
<1>5. PrevInv'
  BY <1>2, NodesAssumption DEF PrevInv, NoPrev
<1>6. InActing(n) /\ n \in healthy /\ live[n] > at /\ live[n] \in Nat
  BY <1>1, SelectedCanServe DEF CompletePgPeering, ReadyPeering, CanServePrimary, TypeOK
<1>7. ActivePrimaryHoldsLease'
  BY <1>1, <1>2, <1>6 DEF ActivePrimaryHoldsLease, InActing
<1> QED BY <1>3, <1>4, <1>5, <1>7

\* Reconfigurations keep it consistent: they fence the lease they take away.
LEMMA ReconfigureBase ==
    ASSUME BaseInv, NEW s, NEW t, Reconfigure(s, t),
           ts' = ts \/ \E at \in AuthorityTimes : ts' = Later(ts, at)
    PROVE  (ClockInv /\ ActivePrimaryHoldsLease /\ LeaseInv /\ PrevInv)'
<1>1. TypeOK /\ ClockInv /\ LeaseInv /\ PrevInv
  BY DEF BaseInv
<1>2. /\ PromoteLeases(live) /\ prev' = FencedPrimaryLease(FALSE) /\ pgState' = "Peering"
      /\ UNCHANGED <<now, authority, hz>>
  BY DEF Reconfigure
<1>3. ts' \in Nat /\ ts <= ts' /\ ts' <= now + Offset
  <2>1. ts \in Nat /\ now \in Nat /\ ts <= now + Offset
    BY <1>1 DEF TypeOK, ClockInv
  <2>2. ASSUME NEW at \in AuthorityTimes PROVE at \in Nat /\ ts <= at /\ at <= now + Offset
    BY <1>1, <2>1, AuthorityTimeBounds
  <2> QED BY <2>1, <2>2, OffsetAssumption DEF Later
<1>4. LeaseStep
  BY <1>1, <1>2, <1>3, PromotionLeaseStep
<1>5. LeaseInv'
  BY <1>1, <1>2 DEF PromoteLeases, LeaseInv, TypeOK
<1>6. PrevInv'
  BY <1>1, <1>2, <1>4, LeaseStepFence
<1>7. ClockInv' /\ ActivePrimaryHoldsLease'
  BY <1>1, <1>2, <1>3 DEF ClockInv, ActivePrimaryHoldsLease
<1> QED BY <1>5, <1>6, <1>7

\* Promotion of the overlay alone, with or without an epoch change.
LEMMA PromotionBase ==
    ASSUME BaseInv, PromoteLeases(live),
           UNCHANGED <<now, authority, ts, hz, healthy, pgVars>>
    PROVE  (ClockInv /\ ActivePrimaryHoldsLease /\ LeaseInv /\ PrevInv)'
<1>1. TypeOK /\ ClockInv /\ LeaseInv /\ PrevInv /\ ActivePrimaryHoldsLease
  BY DEF BaseInv
<1>2. LeaseStep
  BY <1>1, PromotionLeaseStep DEF TypeOK
<1>3. LeaseInv'
  BY <1>1 DEF PromoteLeases, LeaseInv, TypeOK
<1>4. PrevInv'
  BY <1>1, <1>2, LeaseStepFence DEF pgVars
<1>5. ClockInv' /\ ActivePrimaryHoldsLease'
  BY <1>1 DEF ClockInv, ActivePrimaryHoldsLease, LeaseInv, PromoteLeases, pgVars, InActing, TypeOK
<1> QED BY <1>3, <1>4, <1>5

\* BaseInv is inductive.
LEMMA BaseStep == BaseInv /\ [Next]_vars => BaseInv'
<1> SUFFICES ASSUME BaseInv, [Next]_vars
             PROVE  (ClockInv /\ ActivePrimaryHoldsLease /\ LeaseInv /\ PrevInv)'
  BY TypeStep DEF BaseInv
<1> USE DEF BaseInv
<1>1. CASE Tick
  BY <1>1, OffsetAssumption
     DEF Tick, TypeOK, ClockInv, ActivePrimaryHoldsLease, LeaseInv, PrevInv, InActing,
         clusterVars, pgVars
<1>2. CASE \E n \in Nodes : NodeHeartbeat(n)
  BY <1>2, HeartbeatBase
<1>3. CASE \E at \in AuthorityTimes : ExpireNodeHeartbeatLeases(at)
  BY <1>3, ExpiryBase
<1>4. CASE \E n \in Nodes, at \in AuthorityTimes : CompletePgPeering(n, at)
  BY <1>4, CompleteBase
<1>5. CASE \/ \E s \in ActingSets : SetPgActingSet(s)
           \/ \E s \in ActingSets : SetPgActingSetWithMetadataTransfer(s)
           \/ FencePgForMetadataTransfer
           \/ \E s \in ActingSets, at \in AuthorityTimes :
                BeginUnavailablePgPlacementTransition(s, at)
  <2>1. PICK s, t : /\ Reconfigure(s, t)
                    /\ ts' = ts \/ \E at \in AuthorityTimes : ts' = Later(ts, at)
    BY <1>5 DEF SetPgActingSet, SetPgActingSetWithMetadataTransfer, FencePgForMetadataTransfer,
                BeginUnavailablePgPlacementTransition
  <2> QED BY <2>1, ReconfigureBase
<1>6. CASE BumpForOtherPg \/ PromoteNodeHeartbeatLeases
  BY <1>6, PromotionBase DEF BumpForOtherPg, PromoteNodeHeartbeatLeases
<1>7. CASE LeaderChange
  BY <1>7 DEF LeaderChange, TypeOK, ClockInv, ActivePrimaryHoldsLease, LeaseInv, PrevInv,
              InActing, pgVars
<1>8. CASE ReestablishClock
  BY <1>8 DEF ReestablishClock, TypeOK, ClockInv, ActivePrimaryHoldsLease, LeaseInv, PrevInv,
              InActing, clusterVars, pgVars
<1>9. CASE \/ \E n \in Nodes : Reply(n)
           \/ \E n \in Nodes : \E wall \in WallSamples : InstallRuntimeMap(n, wall)
           \/ \E n \in Nodes : Restart(n)
           \/ UNCHANGED vars
  <2>1. UNCHANGED <<now, authority, clusterVars, pgVars>>
    BY <1>9 DEF Reply, InstallRuntimeMap, Restart, vars
  <2> QED BY <2>1 DEF ClockInv, ActivePrimaryHoldsLease, LeaseInv, PrevInv, InActing,
                      clusterVars, pgVars
<1> QED BY <1>1, <1>2, <1>3, <1>4, <1>5, <1>6, <1>7, <1>8, <1>9 DEF Next

\* The initial state satisfies it.
LEMMA BaseInit == Init => BaseInv
<1> SUFFICES ASSUME Init PROVE BaseInv
  OBVIOUS
<1>1. TypeOK
  BY TypeInit
<1> PICK s \in ActingSets, p \in Nodes, first \in Requests :
      /\ \E i \in DOMAIN s : s[i] = p
      /\ now = Offset + 1
      /\ lease = [n \in Nodes |-> RenewalDeadline(0, now, first)]
      /\ acting = s
      /\ primary = p
  BY DEF Init
<1>2. now \in Nat /\ ts = now /\ hz = [by |-> 1, until |-> now + HorizonDuration]
      /\ authority = 1 /\ live = lease /\ healthy = Nodes /\ prev = NoPrev
  BY OffsetAssumption DEF Init, EstablishedHorizon, NoHorizon
<1>3. ClockInv /\ PrevInv
  BY <1>1, <1>2, OffsetAssumption, NodesAssumption DEF ClockInv, PrevInv, NoPrev
<1> DEFINE deadline == RenewalDeadline(0, now, first)
<1>4. deadline \in Nat /\ deadline # 0
  BY <1>2, RenewalExtends
<1>5. deadline <= now + HorizonDuration
  BY <1>2, MaxLeaseAssumption, RequestsAssumption DEF RenewalDeadline, HorizonDuration, Later, Earlier
<1>6. LeaseInv /\ ActivePrimaryHoldsLease
  BY <1>2, <1>4, <1>5 DEF LeaseInv, ActivePrimaryHoldsLease, InActing
<1> QED BY <1>1, <1>3, <1>6 DEF BaseInv

\* BaseInv holds in every reachable state.
LEMMA BaseCorrect == Spec => []BaseInv
BY BaseInit, BaseStep, PTL DEF Spec

\* An Active PG's primary is a Healthy acting node that holds a lease, whatever
\* the interleaving of heartbeats, expiry, reconfigurations and leader changes:
\* a command that takes the PG out of Active always finds the lease to fence.
THEOREM ActivePrimaryHoldsLeaseCorrect == Spec => []ActivePrimaryHoldsLease
<1>1. BaseInv => ActivePrimaryHoldsLease
  BY DEF BaseInv
<1> QED BY <1>1, BaseCorrect, PTL

-----------------------------------------------------------------------------
(***************************************************************************)
(* Serving permits: each action keeps every permit accounted for.          *)
(***************************************************************************)

\* Commands that establish a horizon prove earlier authorities' permits over.
LEMMA LostIsOver ==
    ASSUME TypeOK, NEW u \in Nat, Lost(u), hz.by = authority \/ hz.until <= now
    PROVE  u <= now
BY DEF Lost, TypeOK

\* A permit that ends no later than true time or another permit of the same
\* process is accounted for if that one is.
LEMMA AccountedEarlier ==
    ASSUME TypeOK, LeaseInv, NEW n \in Nodes, NEW u \in Nat, NEW v \in Nat,
           Accounted(n, u), v <= now \/ v <= u
    PROVE  Accounted(n, v)
BY DEF Accounted, Lost, TypeOK, LeaseInv

\* A permit is fenced when its PG leaves Active.
LEMMA FencedIsAccounted ==
    ASSUME BaseInv, NEW n \in Nodes, NEW prefer \in BOOLEAN,
           pgState = "Active", primary = n
    PROVE  /\ FencedPrimaryLease(prefer).node = n
           /\ FencedPrimaryLease(prefer).inc = inc[n]
           /\ FencedPrimaryLease(prefer).deadline = live[n]
<1>1. live[primary] # 0
  BY DEF BaseInv, ActivePrimaryHoldsLease, LeaseInv, TypeOK
<1> QED BY <1>1 DEF FencedPrimaryLease

\* An authority that changes nothing else keeps its predecessor's permits lost.
LEMMA AuthorityAccounts ==
    ASSUME BaseInv, LeaderChange \/ ReestablishClock,
           NEW n \in Nodes, NEW u \in Nat, Accounted(n, u)
    PROVE  Accounted(n, u)'
<1>1. /\ hz' = hz /\ hz'.by # authority'
      /\ UNCHANGED <<now, inc, process, observed, pgState, primary, prev>>
  BY DEF LeaderChange, ReestablishClock, BaseInv, ClockInv, TypeOK, clusterVars, pgVars, nodeVars
<1>2. u <= live[n] => u <= hz.until
  BY DEF BaseInv, LeaseInv, TypeOK
<1> QED BY <1>1, <1>2 DEF Accounted, Lost, MatchesPrevious

\* A renewal in the overlay only extends what the authority remembers.
LEMMA VolatileAccounts ==
    ASSUME BaseInv, NEW n \in Nodes, NEW i, NEW current, NEW requested \in Requests,
           NEW at \in AuthorityTimes, VolatileHeartbeat(n, i, current, requested, at),
           NEW m \in Nodes, NEW u \in Nat, Accounted(m, u)
    PROVE  Accounted(m, u)'
<1>1. live[n] \in Nat /\ live[m] \in Nat /\ at \in Nat /\ live \in [Nodes -> Nat]
  BY AuthorityTimeType DEF BaseInv, TypeOK
<1>2. /\ RenewalDeadline(live[n], at, requested) \in Nat
      /\ RenewalDeadline(live[n], at, requested) >= live[n]
  BY <1>1, RenewalExtends
<1>3. /\ live' = [live EXCEPT ![n] = RenewalDeadline(live[n], at, requested)]
      /\ UNCHANGED <<now, authority, hz, inc, process, observed, pgState, primary, prev>>
  BY DEF VolatileHeartbeat, pgVars
<1>4. live'[m] \in Nat /\ live'[m] >= live[m]
  BY <1>1, <1>2, <1>3
<1>5. u <= live[m] => u <= live'[m]
  BY <1>1, <1>4
<1> QED BY <1>3, <1>5 DEF Accounted, Lost, MatchesPrevious

\* A committed heartbeat keeps the permits of the registered incarnation; a new
\* incarnation registers only when the old process, and its permits, are gone.
LEMMA RecordAccounts ==
    ASSUME BaseInv, NEW n \in Nodes, NEW i \in Nat, NEW current \in BOOLEAN,
           NEW requested \in Requests, NEW at \in AuthorityTimes, NEW evidence \in BOOLEAN,
           RecordNodeHeartbeat(n, i, current, requested, at, evidence),
           NEW m \in Nodes, NEW u \in Nat, Accounted(m, u)
    PROVE  Accounted(m, u)'
<1> DEFINE deadline == RenewalDeadline(live[n], at, requested)
<1>1. /\ TypeOK /\ ClockInv /\ live[n] \in Nat /\ live[m] \in Nat
      /\ at \in Nat /\ at <= now + Offset
  BY AuthorityTimeBounds DEF BaseInv, ClockInv, TypeOK
<1>2. deadline \in Nat
  BY <1>1, RenewalExtends
<1> HIDE DEF deadline
<1>3. /\ CanEstablishFor(hz, authority, at, deadline)
      /\ i \in inc[n]..process[n]
      /\ inc' = [inc EXCEPT ![n] = i]
      /\ UNCHANGED <<now, authority, process>>
      /\ MarkPeering \/ UNCHANGED pgVars
  BY DEF RecordNodeHeartbeat, HeartbeatPossible, deadline
<1>4. hz.by = authority \/ hz.until <= now
  BY <1>1, <1>2, <1>3, HorizonEstablished
<1>5. live'[m] >= live[m] /\ live'[m] \in Nat
  BY <1>1, HeartbeatLeaseStep DEF LeaseStep
<1>6. ASSUME inc[m] = process[m] PROVE inc'[m] = inc[m]
  <2>1. inc \in [Nodes -> Nat] /\ inc[n] \in Nat /\ process[n] \in Nat
    BY <1>1 DEF TypeOK
  <2>2. m = n => i = inc[n]
    BY <1>3, <1>6, <2>1
  <2> QED BY <1>3, <2>1, <2>2
<1>7. CASE u <= now
  BY <1>3, <1>7 DEF Accounted
<1>8. CASE ~(u <= now) /\ pgState = "Active"
  <2>1. inc[m] = process[m] /\ primary = m /\ u <= live[m]
    BY <1>1, <1>4, <1>8, LostIsOver DEF Accounted
  <2>2. CASE MarkPeering
    <3>1. prev' = FencedPrimaryLease(TRUE) /\ pgState' = "Peering"
      BY <1>8, <2>2 DEF MarkPeering
    <3>2. prev'.node = m /\ prev'.inc = inc[m] /\ prev'.deadline = live[m]
      BY <1>8, <2>1, <3>1, FencedIsAccounted
    <3> QED BY <1>3, <1>6, <2>1, <3>1, <3>2 DEF Accounted, MatchesPrevious
  <2>3. CASE UNCHANGED pgVars
    <3>1. u <= live'[m]
      BY <1>1, <1>5, <2>1
    <3> QED BY <1>3, <1>6, <1>8, <2>1, <2>3, <3>1 DEF Accounted, pgVars
  <2> QED BY <1>3, <2>2, <2>3
<1>9. CASE ~(u <= now) /\ pgState = "Peering"
  <2>1. inc[m] = process[m] /\ MatchesPrevious(m) /\ u <= prev.deadline
    BY <1>1, <1>4, <1>9, LostIsOver DEF Accounted
  <2>2. prev' = prev /\ pgState' = "Peering"
    BY <1>3, <1>9 DEF MarkPeering, pgVars
  <2> QED BY <1>3, <1>6, <2>1, <2>2 DEF Accounted, MatchesPrevious
<1> QED BY <1>1, <1>7, <1>8, <1>9 DEF TypeOK

\* Expiry keeps the active primary's lease, or fences it.
LEMMA ExpiryAccounts ==
    ASSUME BaseInv, NEW at \in AuthorityTimes, ExpireNodeHeartbeatLeases(at),
           NEW m \in Nodes, NEW u \in Nat, Accounted(m, u)
    PROVE  Accounted(m, u)'
<1> DEFINE expired == {n \in healthy : live[n] # 0 /\ live[n] <= at}
<1>1. TypeOK /\ ClockInv /\ at \in Nat /\ at <= now + Offset
  BY AuthorityTimeBounds DEF BaseInv, ClockInv, TypeOK
<1>2. /\ CanEstablishFor(hz, authority, at, at)
      /\ UNCHANGED <<now, authority, inc, process>>
      /\ IF \E n \in expired : InActing(n) THEN MarkPeering ELSE UNCHANGED pgVars
  BY DEF ExpireNodeHeartbeatLeases, nodeVars
<1>3. hz.by = authority \/ hz.until <= now
  BY <1>1, <1>2, HorizonEstablished
<1>4. CASE u <= now
  BY <1>2, <1>4 DEF Accounted
<1>5. CASE ~(u <= now) /\ pgState = "Active"
  <2>1. inc[m] = process[m] /\ primary = m /\ u <= live[m]
    BY <1>1, <1>3, <1>5, LostIsOver DEF Accounted
  <2>2. CASE MarkPeering
    <3>1. prev' = FencedPrimaryLease(TRUE) /\ pgState' = "Peering"
      BY <1>5, <2>2 DEF MarkPeering
    <3>2. prev'.node = m /\ prev'.inc = inc[m] /\ prev'.deadline = live[m]
      BY <1>5, <2>1, <3>1, FencedIsAccounted
    <3> QED BY <1>2, <2>1, <3>1, <3>2 DEF Accounted, MatchesPrevious
  <2>3. CASE UNCHANGED pgVars /\ ~\E n \in expired : InActing(n)
    <3>1. m \notin expired
      BY <1>5, <2>1, <2>3 DEF BaseInv, ActivePrimaryHoldsLease
    <3>2. live'[m] = live[m]
      BY <1>1, <3>1, ExpiryLeaseStep
    <3> QED BY <1>2, <1>5, <2>1, <2>3, <3>2 DEF Accounted, pgVars
  <2> QED BY <1>2, <2>2, <2>3
<1>6. CASE ~(u <= now) /\ pgState = "Peering"
  <2>1. inc[m] = process[m] /\ MatchesPrevious(m) /\ u <= prev.deadline
    BY <1>1, <1>3, <1>6, LostIsOver DEF Accounted
  <2>2. prev' = prev /\ pgState' = "Peering"
    BY <1>2, <1>6 DEF MarkPeering, pgVars
  <2> QED BY <1>2, <2>1, <2>2 DEF Accounted, MatchesPrevious
<1> QED BY <1>1, <1>4, <1>5, <1>6 DEF TypeOK

\* Activation of a successor: the previous primary's permits are over, by the
\* fence, unless the successor is the previous primary itself.
LEMMA CompleteAccounts ==
    ASSUME BaseInv, NEW n \in Nodes, NEW at \in AuthorityTimes, CompletePgPeering(n, at),
           NEW m \in Nodes, NEW u \in Nat, Accounted(m, u)
    PROVE  Accounted(m, u)'
<1>1. TypeOK /\ at \in Nat /\ at <= now + Offset /\ now \in Nat
  BY AuthorityTimeBounds DEF BaseInv, ClockInv, TypeOK
<1>2. /\ pgState = "Peering" /\ pgState' = "Active" /\ primary' = n /\ live' = live
      /\ ~BlocksActivation(n, at)
      /\ UNCHANGED <<now, authority, inc, process>>
  BY DEF CompletePgPeering, ReadyPeering, PromoteLeases, nodeVars
<1>3. CanServePrimary(n, at)
  BY SelectedCanServe DEF CompletePgPeering, ReadyPeering
<1>4. CASE u <= now
  BY <1>2, <1>4 DEF Accounted
<1>5. CASE ~(u <= now)
  <2>1. inc[m] = process[m] /\ MatchesPrevious(m) /\ u <= prev.deadline
    BY <1>2, <1>3, <1>5 DEF Accounted, CanServePrimary
  <2>2. prev.deadline \in Nat /\ prev # NoPrev
    BY <1>1, <2>1, NodesAssumption DEF TypeOK, MatchesPrevious, NoPrev
  <2>3. ~SuccessorActivationFenceSatisfied(at, prev.deadline)
    BY <1>1, <1>5, <2>1, <2>2, SkewAssumption, OffsetAssumption
       DEF SuccessorActivationFenceSatisfied
  <2>4. m = n
    BY <1>2, <2>1, <2>2, <2>3 DEF BlocksActivation, MatchesPrevious
  <2>5. live[n] > at /\ live[n] \in Nat /\ lease[n] \in Nat
    BY <1>1, <1>3 DEF CanServePrimary, TypeOK
  <2>6. prev.deadline <= lease[n] /\ lease[n] <= live[n]
    BY <1>1, <2>1, <2>4, <2>5 DEF BaseInv, PrevInv, LeaseInv, MatchesPrevious
  <2>7. u <= live[n]
    BY <2>1, <2>2, <2>5, <2>6
  <2> QED BY <1>2, <2>1, <2>4, <2>7 DEF Accounted
<1> QED BY <1>4, <1>5

\* A reconfiguration fences the permit it revokes; one whose authority is gone
\* stays behind the horizon, since nobody has observed the new epoch.
LEMMA ReconfigureAccounts ==
    ASSUME BaseInv, NEW s, NEW t, Reconfigure(s, t),
           NEW m \in Nodes, NEW u \in Nat, Accounted(m, u)
    PROVE  Accounted(m, u)'
<1>1. /\ pgState' = "Peering" /\ prev' = FencedPrimaryLease(FALSE) /\ observed' = {}
      /\ UNCHANGED <<now, authority, hz, inc, process>>
  BY DEF Reconfigure, BumpEpoch, nodeVars
<1>2. CASE u <= now
  BY <1>1, <1>2 DEF Accounted
<1>3. CASE ~(u <= now) /\ pgState = "Active"
  <2>1. inc[m] = process[m] /\ primary = m /\ (u <= live[m] \/ Lost(u))
    BY <1>3 DEF Accounted
  <2>2. prev'.node = m /\ prev'.inc = inc[m] /\ prev'.deadline = live[m]
    BY <1>1, <1>3, <2>1, FencedIsAccounted
  <2> QED BY <1>1, <2>1, <2>2 DEF Accounted, MatchesPrevious, Lost
<1>4. CASE ~(u <= now) /\ pgState = "Peering"
  <2>1. inc[m] = process[m] /\ MatchesPrevious(m) /\ (u <= prev.deadline \/ Lost(u))
    BY <1>4 DEF Accounted
  <2>2. prev' = [prev EXCEPT !.prefer = @ /\ FALSE]
    BY <1>1, <1>4 DEF FencedPrimaryLease
  <2>3. prev'.node = prev.node /\ prev'.inc = prev.inc /\ prev'.deadline = prev.deadline
    BY <2>2 DEF BaseInv, TypeOK
  <2> QED BY <1>1, <2>1, <2>3 DEF Accounted, MatchesPrevious, Lost
<1> QED BY <1>2, <1>3, <1>4 DEF BaseInv, TypeOK

\* Permits that no step touches stay as accounted for as the authority's state
\* leaves them.
LEMMA CarryPermits ==
    ASSUME TypeOK, TypeOK', PermitInv, LeaseInv',
           \A m \in Nodes, u \in Nat : Accounted(m, u) => Accounted(m, u)',
           hz.until <= hz'.until, now <= now',
           map' = map, \A m \in Nodes : reply'[m] = reply[m] \/ reply'[m].until = 0
    PROVE  (HorizonCoversEveryPermit /\ PermitsAccountedFor)'
<1> SUFFICES ASSUME NEW n \in Nodes
             PROVE  /\ live'[n] <= hz'.until
                    /\ map'[n].until <= Later(now', hz'.until)
                    /\ reply'[n].until <= hz'.until
                    /\ Accounted(n, map[n].until)'
                    /\ Accounted(n, reply[n].until)'
  BY DEF HorizonCoversEveryPermit, PermitsAccountedFor
<1>1. /\ map[n].until \in Nat /\ reply[n].until \in Nat /\ reply'[n].until \in Nat
      /\ hz.until \in Nat /\ hz'.until \in Nat /\ now \in Nat /\ now' \in Nat
  BY DEF TypeOK
<1>2. /\ map[n].until <= Later(now, hz.until) /\ reply[n].until <= hz.until
      /\ Accounted(n, map[n].until) /\ Accounted(n, reply[n].until)
  BY DEF PermitInv, HorizonCoversEveryPermit, PermitsAccountedFor
<1>3. live'[n] <= hz'.until
  BY DEF LeaseInv
<1>4. map'[n].until <= Later(now', hz'.until)
  BY <1>1, <1>2 DEF Later
<1>5. reply'[n].until <= hz'.until
  <2>1. CASE reply'[n] = reply[n]
    BY <1>1, <1>2, <2>1
  <2>2. CASE reply'[n].until = 0
    BY <1>1, <2>2
  <2> QED BY <2>1, <2>2
<1>6. Accounted(n, map[n].until)'
  <2>1. PICK u \in Nat : u = map[n].until
    BY <1>1
  <2>2. Accounted(n, u)'
    BY <1>2, <2>1
  <2> QED BY <2>1, <2>2 DEF Accounted, Lost
<1>7. Accounted(n, reply[n].until)'
  <2>1. CASE reply'[n] = reply[n]
    <3>1. PICK u \in Nat : u = reply[n].until
      BY <1>1
    <3>2. Accounted(n, u)'
      BY <1>2, <3>1
    <3> QED BY <2>1, <3>1, <3>2 DEF Accounted, Lost
  <2>2. CASE reply'[n].until = 0
    BY <1>1, <2>2 DEF Accounted
  <2> QED BY <2>1, <2>2
<1> QED BY <1>3, <1>4, <1>5, <1>6, <1>7

\* So do the heartbeats being answered.
LEMMA CarryPromises ==
    ASSUME TypeOK, PendingInv,
           \A m \in Nodes, u \in Nat : Promised(m, u) => Promised(m, u)',
           \A m \in Nodes : \/ pending'[m] = pending[m]
                            \/ pending'[m] # 0 => Promised(m, pending[m] + MaxLease)'
    PROVE  PendingInv'
<1> SUFFICES ASSUME NEW n \in Nodes, pending'[n] # 0
             PROVE  Promised(n, pending[n] + MaxLease)'
  BY DEF PendingInv
<1>1. CASE pending'[n] = pending[n]
  <2>1. pending[n] + MaxLease \in Nat
    BY MaxLeaseAssumption DEF TypeOK
  <2>2. PICK u \in Nat : u = pending[n] + MaxLease
    BY <2>1
  <2>3. Promised(n, u)'
    BY <1>1, <2>2 DEF PendingInv
  <2> QED BY <1>1, <2>2, <2>3 DEF Promised, Lost
<1> QED BY <1>1

\* A command keeps what its authority granted: extended, or expired by its time.
LEMMA PromisedStep ==
    ASSUME TypeOK, TypeOK', LeaseStep, hz.until <= hz'.until, now' = now, process' = process,
           NEW m \in Nodes, NEW u \in Nat, Promised(m, u),
           inc[m] = process[m] => inc'[m] = inc[m],
           \/ hz.by = authority \/ hz.until <= now
           \/ hz' = hz /\ authority' = authority
    PROVE  Promised(m, u)'
<1>1. /\ live[m] \in Nat /\ live'[m] \in Nat /\ ts \in Nat /\ ts' \in Nat /\ ts <= ts'
      /\ live'[m] >= live[m] \/ (live'[m] = 0 /\ live[m] <= ts')
      /\ live[m] = 0 => live'[m] = 0 \/ live'[m] >= ts
      /\ hz.until \in Nat /\ hz'.until \in Nat
  BY DEF TypeOK, LeaseStep
<1>2. inc'[m] = process'[m] /\ u <= hz'.until
  BY <1>1 DEF Promised
<1>3. CASE u <= live[m]
  BY <1>1, <1>2, <1>3 DEF Promised
<1>4. CASE live[m] = 0 /\ u <= ts
  BY <1>1, <1>2, <1>4 DEF Promised
<1>5. CASE u <= now
  BY <1>2, <1>5 DEF Promised
<1>6. CASE Lost(u)
  <2>1. CASE hz.by = authority \/ hz.until <= now
    BY <1>2, <1>6, <2>1, LostIsOver DEF Promised
  <2>2. CASE hz' = hz /\ authority' = authority
    BY <1>2, <1>6, <2>2 DEF Promised, Lost
  <2> QED BY <2>1, <2>2
<1> QED BY <1>3, <1>4, <1>5, <1>6 DEF Promised

\* A full lease: what the authority grants at `at' covers at + MaxLease.
LEMMA FullRenewal ==
    ASSUME FullLease, NEW current \in Nat, NEW at \in Nat, NEW requested \in Requests
    PROVE  RenewalDeadline(current, at, requested) >= at + MaxLease
BY MaxLeaseAssumption DEF FullLease, RenewalDeadline, Later, Earlier

\* A heartbeat gives up the previous answer and awaits a new one, or neither.
LEMMA AwaitReplyFacts ==
    ASSUME TypeOK, NEW n \in Nodes, NEW i, NEW at \in Nat, AwaitReply(n, i, at)
    PROVE  /\ \A m \in Nodes : reply'[m] = reply[m] \/ reply'[m].until = 0
           /\ \A m \in Nodes : \/ pending'[m] = pending[m]
                               \/ m = n /\ i = process[n] /\ pending'[n] = at
<1>1. CASE UNCHANGED <<pending, reply>>
  BY <1>1
<1>2. CASE /\ i = process[n]
           /\ pending' = [pending EXCEPT ![n] = at]
           /\ reply' = [reply EXCEPT ![n] = NoReply]
  <2>1. \A m \in Nodes : reply'[m] = reply[m] \/ reply'[m] = NoReply
    BY <1>2 DEF TypeOK
  <2>2. NoReply.until = 0
    BY DEF NoReply
  <2>3. \A m \in Nodes : pending'[m] = pending[m] \/ (m = n /\ pending'[n] = at)
    BY <1>2 DEF TypeOK
  <2> QED BY <1>2, <2>1, <2>2, <2>3
<1> QED BY <1>1, <1>2 DEF AwaitReply

\* Heartbeats keep every permit accounted for.
LEMMA HeartbeatPermits ==
    ASSUME FullLease, BaseInv, BaseInv', PermitInv, NEW n \in Nodes, NodeHeartbeat(n)
    PROVE  PermitInv'
<1> PICK i \in 1..MaxIncarnation, current \in BOOLEAN, requested \in Requests,
         at \in AuthorityTimes :
           \/ VolatileHeartbeat(n, i, current, requested, at)
           \/ \E evidence \in BOOLEAN : RecordNodeHeartbeat(n, i, current, requested, at, evidence)
  BY DEF NodeHeartbeat
<1> DEFINE deadline == RenewalDeadline(live[n], at, requested)
<1>1. /\ TypeOK /\ TypeOK' /\ ClockInv /\ LeaseInv /\ LeaseInv' /\ PendingInv
      /\ at \in Nat /\ i \in Nat /\ at <= now + Offset /\ live[n] \in Nat
  BY AuthorityTimeBounds, BoundsAssumption DEF BaseInv, PermitInv, ClockInv, TypeOK
<1>2. deadline \in Nat /\ deadline >= live[n] /\ deadline >= at + MaxLease
  BY <1>1, RenewalExtends, FullRenewal
<1> HIDE DEF deadline
<1>3. /\ live' = [live EXCEPT ![n] = deadline]
      /\ AwaitReply(n, i, at)
      /\ UNCHANGED <<now, authority, process, map>>
      /\ i \in inc[n]..process[n]
  BY DEF VolatileHeartbeat, RecordNodeHeartbeat, HeartbeatPossible, PromoteLeases, deadline
<1>4. live'[n] = deadline /\ live'[n] <= hz'.until /\ hz'.until \in Nat
  BY <1>1, <1>3 DEF LeaseInv, TypeOK
<1>5. inc'[n] = i
  BY <1>1 DEF VolatileHeartbeat, IsVolatile, RecordNodeHeartbeat, TypeOK
<1>6. ASSUME NEW m \in Nodes
      PROVE  \/ pending'[m] = pending[m]
             \/ pending'[m] # 0 => Promised(m, pending[m] + MaxLease)'
  <2>1. CASE m = n /\ i = process[n] /\ pending'[n] = at
    <3>1. inc'[n] = process'[n]
      BY <1>3, <1>5, <2>1
    <3>2. at + MaxLease <= live'[n] /\ at + MaxLease <= hz'.until
      BY <1>1, <1>2, <1>4, MaxLeaseAssumption
    <3> QED BY <2>1, <3>1, <3>2 DEF Promised
  <2> QED BY <1>1, <1>3, <2>1, AwaitReplyFacts
<1>7. \A m \in Nodes : reply'[m] = reply[m] \/ reply'[m].until = 0
  BY <1>1, <1>3, AwaitReplyFacts
<1>8. CASE VolatileHeartbeat(n, i, current, requested, at)
  <2>1. UNCHANGED <<hz, ts, inc>>
    BY <1>8 DEF VolatileHeartbeat
  <2>2. \A m \in Nodes, u \in Nat : Accounted(m, u) => Accounted(m, u)'
    BY <1>8, VolatileAccounts
  <2>3. (HorizonCoversEveryPermit /\ PermitsAccountedFor)'
    BY <1>1, <1>3, <1>7, <2>1, <2>2, CarryPermits DEF TypeOK
  <2>4. ASSUME NEW m \in Nodes, NEW u \in Nat, Promised(m, u) PROVE Promised(m, u)'
    <3>1. live[n] # 0
      BY <1>8 DEF VolatileHeartbeat, IsVolatile
    <3>2. live[m] \in Nat /\ live'[m] \in Nat /\ (live[m] = 0 => live'[m] = 0) /\ live'[m] >= live[m]
      BY <1>1, <1>2, <1>3, <3>1 DEF TypeOK
    <3>3. u <= live[m] => u <= live'[m]
      BY <3>2
    <3> QED BY <1>3, <2>1, <2>4, <3>2, <3>3 DEF Promised, Lost
  <2>5. PendingInv'
    BY <1>1, <1>6, <2>4, CarryPromises
  <2> QED BY <2>3, <2>5 DEF PermitInv
<1>9. ASSUME NEW evidence \in BOOLEAN, RecordNodeHeartbeat(n, i, current, requested, at, evidence)
      PROVE  PermitInv'
  <2>1. /\ CanEstablishFor(hz, authority, at, deadline)
        /\ hz' = HorizonFor(hz, authority, at, deadline)
        /\ inc' = [inc EXCEPT ![n] = i]
    BY <1>9 DEF RecordNodeHeartbeat, deadline
  <2>2. hz.until <= hz'.until /\ (hz.by = authority \/ hz.until <= now)
    BY <1>1, <1>2, <2>1, HorizonEstablished
  <2>3. \A m \in Nodes, u \in Nat : Accounted(m, u) => Accounted(m, u)'
    BY <1>1, <1>9, RecordAccounts
  <2>4. (HorizonCoversEveryPermit /\ PermitsAccountedFor)'
    BY <1>1, <1>3, <1>7, <2>2, <2>3, CarryPermits DEF TypeOK
  <2>5. LeaseStep
    BY <1>1, <1>9, HeartbeatLeaseStep
  <2>6. ASSUME NEW m \in Nodes, inc[m] = process[m] PROVE inc'[m] = inc[m]
    <3>1. inc \in [Nodes -> Nat] /\ inc[n] \in Nat /\ process[n] \in Nat
      BY <1>1 DEF TypeOK
    <3>2. m = n => i = inc[n]
      BY <1>3, <2>6, <3>1
    <3> QED BY <2>1, <3>1, <3>2
  <2>7. \A m \in Nodes, u \in Nat : Promised(m, u) => Promised(m, u)'
    BY <1>1, <1>3, <2>2, <2>5, <2>6, PromisedStep
  <2>8. PendingInv'
    BY <1>1, <1>6, <2>7, CarryPromises
  <2> QED BY <2>4, <2>8 DEF PermitInv
<1> QED BY <1>8, <1>9

\* So do the other commands, of which the nodes know nothing yet.
LEMMA CommandPermits ==
    ASSUME BaseInv, BaseInv', PermitInv, LeaseStep,
           UNCHANGED <<now, process, map, pending, reply, inc>>,
           hz.until <= hz'.until,
           \/ hz.by = authority \/ hz.until <= now
           \/ hz' = hz /\ authority' = authority,
           \A m \in Nodes, u \in Nat : Accounted(m, u) => Accounted(m, u)'
    PROVE  PermitInv'
<1>1. TypeOK /\ TypeOK' /\ LeaseInv' /\ PendingInv
  BY DEF BaseInv, PermitInv
<1>2. (HorizonCoversEveryPermit /\ PermitsAccountedFor)'
  BY <1>1, CarryPermits DEF TypeOK
<1>3. \A m \in Nodes, u \in Nat : Promised(m, u) => Promised(m, u)'
  BY <1>1, PromisedStep
<1>4. PendingInv'
  BY <1>1, <1>3, CarryPromises
<1> QED BY <1>2, <1>4 DEF PermitInv

\* The answer to a heartbeat is a permit the authority can account for, whether
\* it is built with the overlay's leases or without them.
LEMMA ReplyPermits ==
    ASSUME BaseInv, BaseInv', PermitInv, NEW n \in Nodes, Reply(n)
    PROVE  PermitInv'
<1> DEFINE u == pending[n] + MaxLease
<1>1. /\ TypeOK /\ LeaseInv /\ PendingInv /\ ActivePrimaryHoldsLease
      /\ HorizonCoversEveryPermit /\ PermitsAccountedFor
  BY DEF BaseInv, PermitInv
<1>2. /\ pending[n] # 0
      /\ pending' = [pending EXCEPT ![n] = 0]
      /\ UNCHANGED <<now, authority, ts, hz, lease, live, inc, observed,
                     pgState, primary, prev, process, map>>
  BY DEF Reply, clusterVars, pgVars
<1> PICK leases \in {live, lease} :
      reply' = [reply EXCEPT ![n] = RuntimeMapFor(n, pending[n], leases)]
  BY DEF Reply
<1>3. Promised(n, u)
  BY <1>1, <1>2 DEF PendingInv
<1>4. /\ live[n] \in Nat /\ lease[n] \in Nat /\ lease[n] <= live[n] /\ live[n] <= hz.until
      /\ hz.until \in Nat /\ now \in Nat /\ u \in Nat /\ pending[n] \in Nat
  BY <1>1, MaxLeaseAssumption DEF TypeOK, LeaseInv
<1>5. leases[n] \in Nat /\ leases[n] <= live[n]
  BY <1>4
<1>6. reply'[n] = RuntimeMapFor(n, pending[n], leases)
  BY <1>1 DEF TypeOK
<1> HIDE DEF u
<1>7. reply'[n].until <= hz'.until /\ Accounted(n, reply[n].until)'
  <2>1. CASE pgState = "Active" /\ primary = n
    <3>1. \/ reply'[n].until = leases[n]
          \/ reply'[n].until = u
      BY <1>6, <2>1 DEF RuntimeMapFor, u
    <3>2. CASE reply'[n].until = leases[n]
      BY <1>2, <1>3, <1>4, <1>5, <2>1, <3>2 DEF Accounted, Promised
    <3>3. CASE reply'[n].until = u
      <4>1. live[n] # 0
        BY <1>1, <2>1 DEF ActivePrimaryHoldsLease, LeaseInv
      <4>2. u <= live[n] \/ u <= now \/ Lost(u)
        BY <1>3, <4>1 DEF Promised
      <4> QED BY <1>2, <1>3, <1>4, <2>1, <3>3, <4>2 DEF Accounted, Promised, Lost
    <3> QED BY <3>1, <3>2, <3>3
  <2>2. CASE ~(pgState = "Active" /\ primary = n)
    <3>1. reply'[n].until = 0
      BY <1>6, <2>2 DEF RuntimeMapFor
    <3> QED BY <1>2, <1>4, <3>1 DEF Accounted
  <2> QED BY <2>1, <2>2
<1>8. \A m \in Nodes : m # n => reply'[m] = reply[m]
  BY <1>1 DEF TypeOK
<1>9. HorizonCoversEveryPermit'
  BY <1>1, <1>2, <1>7, <1>8 DEF HorizonCoversEveryPermit
<1>10. PermitsAccountedFor'
  <2>1. ASSUME NEW m \in Nodes PROVE Accounted(m, map[m].until)'
    BY <1>1, <1>2 DEF PermitsAccountedFor, Accounted, Lost, MatchesPrevious
  <2>2. ASSUME NEW m \in Nodes, m # n PROVE Accounted(m, reply[m].until)'
    BY <1>1, <1>2, <1>8, <2>2 DEF PermitsAccountedFor, Accounted, Lost, MatchesPrevious
  <2> QED BY <1>7, <2>1, <2>2 DEF PermitsAccountedFor
<1>11. PendingInv'
  BY <1>1, <1>2 DEF PendingInv, Promised, Lost, TypeOK
<1> QED BY <1>9, <1>10, <1>11 DEF PermitInv

\* Binding a permit to the local monotonic clock never lengthens it.
LEMMA BindNeverLengthens ==
    ASSUME TypeOK, NEW until \in Nat, NEW wall \in WallSamples
    PROVE  /\ BindDeadline(until, wall, now) \in Nat
           /\ \/ BindDeadline(until, wall, now) <= now
              \/ BindDeadline(until, wall, now) <= until
BY SkewAssumption, OffsetAssumption DEF TypeOK, WallSamples, BindDeadline, Later

\* Installing a map keeps its permit accounted for.
LEMMA InstallPermits ==
    ASSUME BaseInv, BaseInv', PermitInv, NEW n \in Nodes, NEW wall \in WallSamples,
           InstallRuntimeMap(n, wall)
    PROVE  PermitInv'
<1> DEFINE bound == BindDeadline(reply[n].until, wall, now)
<1>1. /\ TypeOK /\ LeaseInv /\ PendingInv /\ HorizonCoversEveryPermit /\ PermitsAccountedFor
  BY DEF BaseInv, PermitInv
<1>2. /\ reply' = [reply EXCEPT ![n] = NoReply]
      /\ UNCHANGED <<now, authority, ts, hz, lease, live, inc, observed,
                     pgState, primary, prev, process, pending>>
  BY DEF InstallRuntimeMap, clusterVars, pgVars
<1>3. /\ reply[n].until \in Nat /\ now \in Nat /\ hz.until \in Nat /\ map[n].until \in Nat
      /\ reply[n].until <= hz.until
  BY <1>1 DEF TypeOK, HorizonCoversEveryPermit
<1>4. bound \in Nat /\ (bound <= now \/ bound <= reply[n].until)
  BY <1>1, <1>3, BindNeverLengthens
<1> HIDE DEF bound
<1>5. \/ map' = map
      \/ map' = [map EXCEPT ![n] = [epoch |-> reply[n].epoch,
                                    until |-> IF reply[n].until = 0 THEN 0 ELSE bound]]
  BY DEF InstallRuntimeMap, bound
<1>6. ASSUME NEW m \in Nodes
      PROVE  map'[m] = map[m] \/ (m = n /\ map'[n].until \in {0, bound})
  BY <1>1, <1>5 DEF TypeOK
<1>7. \A m \in Nodes : reply'[m] = reply[m] \/ reply'[m].until = 0
  <2>1. NoReply.until = 0
    BY DEF NoReply
  <2> QED BY <1>1, <1>2, <2>1 DEF TypeOK
<1>8. ASSUME NEW m \in Nodes
      PROVE  map'[m].until <= Later(now, hz.until) /\ Accounted(m, map[m].until)'
  <2>1. CASE map'[m] = map[m]
    BY <1>1, <1>2, <2>1
       DEF PermitsAccountedFor, HorizonCoversEveryPermit, Accounted, Lost, MatchesPrevious
  <2>2. CASE m = n /\ map'[n].until \in {0, bound}
    <3>1. PICK v \in Nat : v = map'[n].until /\ (v <= now \/ v <= reply[n].until)
      BY <1>3, <1>4, <2>2
    <3>2. Accounted(n, v)
      BY <1>1, <1>3, <3>1, AccountedEarlier DEF PermitsAccountedFor
    <3>3. Accounted(m, map[m].until)'
      BY <1>2, <2>2, <3>1, <3>2 DEF Accounted, Lost, MatchesPrevious
    <3> QED BY <1>3, <2>2, <3>1, <3>3 DEF Later
  <2> QED BY <1>6, <2>1, <2>2
<1>9. ASSUME NEW m \in Nodes
      PROVE  reply'[m].until <= hz.until /\ Accounted(m, reply[m].until)'
  <2>1. CASE reply'[m] = reply[m]
    BY <1>1, <1>2, <2>1
       DEF PermitsAccountedFor, HorizonCoversEveryPermit, Accounted, Lost, MatchesPrevious
  <2>2. CASE reply'[m].until = 0
    BY <1>2, <1>3, <2>2 DEF Accounted
  <2> QED BY <1>7, <2>1, <2>2
<1>10. HorizonCoversEveryPermit' /\ PermitsAccountedFor'
  BY <1>1, <1>2, <1>8, <1>9 DEF HorizonCoversEveryPermit, PermitsAccountedFor, LeaseInv
<1>11. PendingInv'
  BY <1>1, <1>2 DEF PendingInv, Promised, Lost
<1> QED BY <1>10, <1>11 DEF PermitInv

\* A restarted process holds no permit.
LEMMA RestartPermits ==
    ASSUME BaseInv, BaseInv', PermitInv, NEW n \in Nodes, Restart(n)
    PROVE  PermitInv'
<1>1. TypeOK /\ LeaseInv /\ PendingInv /\ HorizonCoversEveryPermit /\ PermitsAccountedFor
  BY DEF BaseInv, PermitInv
<1>2. /\ process' = [process EXCEPT ![n] = @ + 1]
      /\ map' = [map EXCEPT ![n].until = 0]
      /\ pending' = [pending EXCEPT ![n] = 0]
      /\ reply' = [reply EXCEPT ![n] = NoReply]
      /\ UNCHANGED <<now, authority, ts, hz, lease, live, inc, observed, pgState, primary, prev>>
  BY DEF Restart, clusterVars, pgVars
<1>3. /\ map'[n].until = 0 /\ reply'[n].until = 0 /\ pending'[n] = 0
      /\ now \in Nat /\ hz.until \in Nat
  BY <1>1, <1>2 DEF TypeOK, NoReply
<1>4. ASSUME NEW m \in Nodes, m # n
      PROVE  map'[m] = map[m] /\ reply'[m] = reply[m] /\ pending'[m] = pending[m]
             /\ process'[m] = process[m]
  BY <1>1, <1>2, <1>4 DEF TypeOK
<1>5. HorizonCoversEveryPermit'
  BY <1>1, <1>2, <1>3, <1>4 DEF HorizonCoversEveryPermit, Later
<1>6. PermitsAccountedFor'
  <2>1. ASSUME NEW m \in Nodes, m # n
        PROVE  Accounted(m, map[m].until)' /\ Accounted(m, reply[m].until)'
    BY <1>1, <1>2, <1>4, <2>1 DEF PermitsAccountedFor, Accounted, Lost, MatchesPrevious
  <2>2. Accounted(n, map[n].until)' /\ Accounted(n, reply[n].until)'
    BY <1>2, <1>3 DEF Accounted
  <2> QED BY <2>1, <2>2 DEF PermitsAccountedFor
<1>7. PendingInv'
  BY <1>1, <1>2, <1>3, <1>4 DEF PendingInv, Promised, Lost
<1> QED BY <1>5, <1>6, <1>7 DEF PermitInv

\* PermitInv is inductive relative to BaseInv.
LEMMA PermitStep ==
    ASSUME FullLease
    PROVE  BaseInv /\ BaseInv' /\ PermitInv /\ [Next]_vars => PermitInv'
<1> SUFFICES ASSUME BaseInv, BaseInv', PermitInv, [Next]_vars PROVE PermitInv'
  OBVIOUS
<1>0. TypeOK /\ TypeOK' /\ ClockInv /\ LeaseInv /\ LeaseInv' /\ PendingInv
  BY DEF BaseInv, PermitInv
<1>1. CASE Tick
  <2>1. /\ now' = now + 1 /\ now \in Nat
        /\ UNCHANGED <<authority, ts, hz, live, inc, observed, pgState, primary, prev,
                       process, map, pending, reply>>
    BY <1>0, <1>1 DEF Tick, TypeOK, clusterVars, pgVars, nodeVars
  <2>2. ASSUME NEW m \in Nodes, NEW u \in Nat, Accounted(m, u) PROVE Accounted(m, u)'
    BY <2>1, <2>2 DEF Accounted, Lost, MatchesPrevious
  <2>3. ASSUME NEW m \in Nodes, NEW u \in Nat, Promised(m, u) PROVE Promised(m, u)'
    BY <2>1, <2>3 DEF Promised, Lost
  <2>4. (HorizonCoversEveryPermit /\ PermitsAccountedFor)'
    BY <1>0, <2>1, <2>2, CarryPermits DEF TypeOK
  <2>5. PendingInv'
    BY <1>0, <2>1, <2>3, CarryPromises
  <2> QED BY <2>4, <2>5 DEF PermitInv
<1>2. CASE \E n \in Nodes : NodeHeartbeat(n)
  BY <1>2, HeartbeatPermits
<1>3. CASE \E n \in Nodes : Reply(n)
  BY <1>3, ReplyPermits
<1>4. CASE \E at \in AuthorityTimes : ExpireNodeHeartbeatLeases(at)
  <2> PICK at \in AuthorityTimes : ExpireNodeHeartbeatLeases(at)
    BY <1>4
  <2>1. at \in Nat /\ at <= now + Offset
    BY <1>0, AuthorityTimeBounds DEF ClockInv
  <2>2. /\ CanEstablishFor(hz, authority, at, at)
        /\ hz' = HorizonFor(hz, authority, at, at)
        /\ UNCHANGED <<now, process, map, pending, reply, inc>>
    BY DEF ExpireNodeHeartbeatLeases, nodeVars
  <2>3. hz.until <= hz'.until /\ (hz.by = authority \/ hz.until <= now)
    BY <1>0, <2>1, <2>2, HorizonEstablished
  <2>4. LeaseStep
    BY <1>0, ExpiryLeaseStep
  <2> QED BY <2>2, <2>3, <2>4, ExpiryAccounts, CommandPermits
<1>5. CASE \E n \in Nodes, at \in AuthorityTimes : CompletePgPeering(n, at)
  <2> PICK n \in Nodes, at \in AuthorityTimes : CompletePgPeering(n, at)
    BY <1>5
  <2>1. /\ PromoteLeases(live) /\ ts' = Later(ts, at)
        /\ UNCHANGED <<now, authority, hz, process, map, pending, reply, inc>>
    BY DEF CompletePgPeering, nodeVars
  <2>2. ts' \in Nat /\ ts <= ts' /\ hz.until <= hz'.until
    BY <1>0, <2>1, AuthorityTimeType DEF TypeOK, Later
  <2>3. LeaseStep
    BY <1>0, <2>1, <2>2, PromotionLeaseStep
  <2> QED BY <2>1, <2>2, <2>3, CompleteAccounts, CommandPermits
<1>6. CASE \/ \E s \in ActingSets : SetPgActingSet(s)
           \/ \E s \in ActingSets : SetPgActingSetWithMetadataTransfer(s)
           \/ FencePgForMetadataTransfer
           \/ \E s \in ActingSets, at \in AuthorityTimes :
                BeginUnavailablePgPlacementTransition(s, at)
  <2>1. PICK s, t : /\ Reconfigure(s, t)
                    /\ ts' = ts \/ \E at \in AuthorityTimes : ts' = Later(ts, at)
    BY <1>6 DEF SetPgActingSet, SetPgActingSetWithMetadataTransfer, FencePgForMetadataTransfer,
                BeginUnavailablePgPlacementTransition
  <2>2. /\ PromoteLeases(live)
        /\ UNCHANGED <<now, authority, hz, process, map, pending, reply, inc>>
    BY <2>1 DEF Reconfigure, nodeVars
  <2>3. ts' \in Nat /\ ts <= ts' /\ hz.until <= hz'.until
    BY <1>0, <2>1, <2>2, AuthorityTimeType DEF TypeOK, Later
  <2>4. LeaseStep
    BY <1>0, <2>2, <2>3, PromotionLeaseStep
  <2>5. \A m \in Nodes, u \in Nat : Accounted(m, u) => Accounted(m, u)'
    BY <2>1, ReconfigureAccounts
  <2> QED BY <2>2, <2>3, <2>4, <2>5, CommandPermits
<1>7. CASE BumpForOtherPg \/ PromoteNodeHeartbeatLeases
  <2>1. /\ PromoteLeases(live)
        /\ UNCHANGED <<now, authority, ts, hz, process, map, pending, reply, inc,
                       pgState, primary, prev>>
        /\ observed' = {} \/ observed' = observed
    BY <1>7 DEF BumpForOtherPg, PromoteNodeHeartbeatLeases, BumpEpoch, pgVars, nodeVars
  <2>2. ts' \in Nat /\ ts <= ts' /\ hz.until <= hz'.until
    BY <1>0, <2>1 DEF TypeOK
  <2>3. LeaseStep
    BY <1>0, <2>1, <2>2, PromotionLeaseStep
  <2>4. ASSUME NEW m \in Nodes, NEW u \in Nat, Accounted(m, u) PROVE Accounted(m, u)'
    BY <2>1, <2>4 DEF Accounted, Lost, MatchesPrevious, PromoteLeases
  <2> QED BY <2>1, <2>2, <2>3, <2>4, CommandPermits
<1>8. CASE LeaderChange \/ ReestablishClock
  <2>1. /\ UNCHANGED <<now, ts, hz, process, map, pending, reply, inc>>
        /\ hz.by # authority' /\ hz.until <= hz'.until /\ now <= now'
    BY <1>0, <1>8 DEF LeaderChange, ReestablishClock, ClockInv, TypeOK, clusterVars, pgVars, nodeVars
  <2>2. (HorizonCoversEveryPermit /\ PermitsAccountedFor)'
    BY <1>0, <1>8, <2>1, AuthorityAccounts, CarryPermits
  <2>3. ASSUME NEW m \in Nodes, NEW u \in Nat, Promised(m, u) PROVE Promised(m, u)'
    BY <2>1, <2>3 DEF Promised, Lost
  <2>4. PendingInv'
    BY <1>0, <2>1, <2>3, CarryPromises
  <2> QED BY <2>2, <2>4 DEF PermitInv
<1>9. CASE \E n \in Nodes : \E wall \in WallSamples : InstallRuntimeMap(n, wall)
  BY <1>9, InstallPermits
<1>10. CASE \E n \in Nodes : Restart(n)
  BY <1>10, RestartPermits
<1>11. CASE UNCHANGED vars
  BY <1>11 DEF vars, clusterVars, pgVars, nodeVars, PermitInv, PendingInv, Promised, Lost,
               HorizonCoversEveryPermit, PermitsAccountedFor, Accounted, MatchesPrevious
<1> QED BY <1>1, <1>2, <1>3, <1>4, <1>5, <1>6, <1>7, <1>8, <1>9, <1>10, <1>11 DEF Next

\* Initially no process holds a permit.
LEMMA PermitInit == Init => PermitInv
<1> SUFFICES ASSUME Init PROVE PermitInv
  OBVIOUS
<1>1. TypeOK /\ LeaseInv
  BY BaseInit DEF BaseInv
<1>2. \A n \in Nodes : map[n].until = 0 /\ reply[n].until = 0 /\ pending[n] = 0
  BY DEF Init, NoReply
<1>3. PendingInv
  BY <1>2 DEF PendingInv
<1>4. HorizonCoversEveryPermit /\ PermitsAccountedFor
  BY <1>1, <1>2 DEF HorizonCoversEveryPermit, PermitsAccountedFor, Accounted, LeaseInv, TypeOK, Later
<1> QED BY <1>3, <1>4 DEF PermitInv

\* What the inductive invariant says of the moment after an activation.
LEMMA PermitFences == BaseInv /\ PermitInv => ActivationFenced
<1> SUFFICES ASSUME BaseInv, PermitInv, pgState = "Active", NEW n \in Nodes, Serving(n)
             PROVE  n = primary /\ process[n] = inc[n]
  BY DEF ActivationFenced
<1>1. now \in Nat /\ map[n].until \in Nat
  BY DEF BaseInv, TypeOK
<1>2. ~(map[n].until <= now)
  BY <1>1 DEF Serving, IsValidAtMonotonic
<1> QED BY <1>2 DEF PermitInv, PermitsAccountedFor, Accounted

\* And of any moment: every permit in force belongs to one node.
LEMMA PermitExcludes == BaseInv /\ PermitInv => AtMostOneServingPrimary
<1> SUFFICES ASSUME BaseInv, PermitInv, NEW m \in Nodes, NEW n \in Nodes, Serving(m), Serving(n)
             PROVE  m = n
  BY DEF AtMostOneServingPrimary
<1>1. now \in Nat /\ map[m].until \in Nat /\ map[n].until \in Nat
  BY DEF BaseInv, TypeOK
<1>2. ~(map[m].until <= now) /\ ~(map[n].until <= now)
  BY <1>1 DEF Serving, IsValidAtMonotonic
<1>3. /\ (pgState = "Active" /\ primary = m) \/ (pgState = "Peering" /\ prev.node = m)
      /\ (pgState = "Active" /\ primary = n) \/ (pgState = "Peering" /\ prev.node = n)
  BY <1>2 DEF PermitInv, PermitsAccountedFor, Accounted, MatchesPrevious
<1> QED BY <1>3

-----------------------------------------------------------------------------
(***************************************************************************)
(* Safety, when every node asks for the longest lease.                     *)
(***************************************************************************)

\* The inductive invariant holds in every reachable state.
LEMMA PermitCorrect ==
    ASSUME FullLease
    PROVE  Spec => [](BaseInv /\ PermitInv)
<1>1. Init => BaseInv /\ PermitInv
  BY BaseInit, PermitInit
<1>2. BaseInv /\ PermitInv /\ [Next]_vars => (BaseInv /\ PermitInv)'
  BY BaseStep, PermitStep
<1> QED BY <1>1, <1>2, PTL DEF Spec

\* Every permit a process has installed or may still install is accounted for in
\* the authority's state: the lease or the fence covers it, or it is over, or it
\* is a predecessor's and behind the committed horizon.
THEOREM PermitsAccountedForCorrect ==
    ASSUME FullLease
    PROVE  Spec => []PermitsAccountedFor
<1>1. BaseInv /\ PermitInv => PermitsAccountedFor
  BY DEF PermitInv
<1> QED BY <1>1, PermitCorrect, PTL

\* Every serving permit ends by the committed lease grant horizon, including the
\* renewals that exist only in a leader's volatile overlay.
THEOREM HorizonCoversEveryPermitCorrect ==
    ASSUME FullLease
    PROVE  Spec => []HorizonCoversEveryPermit
<1>1. BaseInv /\ PermitInv => HorizonCoversEveryPermit
  BY DEF PermitInv
<1> QED BY <1>1, PermitCorrect, PTL

\* When a PG is Active no process but the registered incarnation of its primary
\* can be serving it: the predecessor's permits ended before the activation.
THEOREM ActivationFencedCorrect ==
    ASSUME FullLease
    PROVE  Spec => []ActivationFenced
BY PermitFences, PermitCorrect, PTL

\* No two processes ever serve the PG as its primary at the same moment, for any
\* number of nodes, skew budget, clock offsets within it, command delay, lease
\* length and sequence of reconfigurations, leader changes and restarts.
THEOREM AtMostOneServingPrimaryCorrect ==
    ASSUME FullLease
    PROVE  Spec => []AtMostOneServingPrimary
BY PermitExcludes, PermitCorrect, PTL
=============================================================================
