----------------------------- MODULE LeaseRules -----------------------------
(***************************************************************************)
(* The pure clock and lease rules of                                       *)
(* crates/storage/src/control_plane_lease.rs.  Times are milliseconds of   *)
(* an authority or process clock; 0 stands for an absent deadline          *)
(* (Option::None), which the code never grants.                            *)
(***************************************************************************)
EXTENDS Integers

CONSTANTS Skew,      \* CONTROL_PLANE_CLOCK_SKEW_BUDGET_MS
          MaxLease   \* MAX_HEARTBEAT_LEASE_MS

ASSUME SkewAssumption == Skew \in Nat
ASSUME MaxLeaseAssumption == MaxLease \in Nat \ {0}

Later(s, t) == IF s < t THEN t ELSE s

Earlier(s, t) == IF s < t THEN s ELSE t

\* CONTROL_PLANE_LEASE_GRANT_HORIZON_DURATION_MS
HorizonDuration == 2 * MaxLease

\* The issue-time test of BoundRouteMapLease::bind.
BindAccepts(issuedAt, wall) == issuedAt <= wall + Skew

\* Variant: the consumer does not give up the skew budget.
BindWithoutSkew(validUntil, wall, mono) == mono + Later(0, validUntil - wall)

\* The process-local deadline BoundRouteMapLease::bind computes.
BindDeadline(validUntil, wall, mono) == mono + Later(0, (validUntil - Skew) - wall)

\* BoundRouteMapLease::is_valid_at_monotonic
IsValidAtMonotonic(localDeadline, mono) == localDeadline > mono

\* validate_serving_deadline_bound
ServingDeadlineInBound(deadline, at) == deadline <= at + MaxLease + Skew

\* The deadline bounded_renewal_deadline proposes, before its bound check.
RenewalDeadline(current, at, requested) ==
    Later(current, at + Earlier(requested, MaxLease))

\* Variant: the successor does not wait out the skew budget.
FenceWithoutSkew(at, deadline) == at >= deadline

\* successor_activation_fence_satisfied
SuccessorActivationFenceSatisfied(at, deadline) == at >= deadline + Skew

(***************************************************************************)
(* The committed lease grant horizon: the authority it is bound to and the *)
(* last deadline that authority may grant without another durable command. *)
(***************************************************************************)
NoHorizon == [by |-> 0, until |-> 0]

\* Variant: the deadline is not compared with the horizon.
HorizonIsOurs(hz, authority, deadline) == hz.by = authority

\* ClusterControlSnapshot::lease_grant_horizon_covers
HorizonCovers(hz, authority, deadline) ==
    /\ hz.by = authority
    /\ deadline <= hz.until

\* CommittedLeaseGrantHorizon::validate_rebinding
HorizonRebindable(hz, authority, at) ==
    \/ hz.by \in {0, authority}
    \/ at >= hz.until + Skew

\* CommittedLeaseGrantHorizon::establish, when rebinding is allowed.
EstablishedHorizon(hz, authority, at) ==
    [by    |-> authority,
     until |-> IF hz.by = authority
                 THEN Later(hz.until, at + HorizonDuration)
                 ELSE at + HorizonDuration]

\* The horizon establish_heartbeat_lease_horizon leaves behind.
HorizonFor(hz, authority, at, deadline) ==
    IF HorizonCovers(hz, authority, deadline)
      THEN hz
      ELSE EstablishedHorizon(hz, authority, at)

\* The conditions under which establish_heartbeat_lease_horizon succeeds.
CanEstablishFor(hz, authority, at, deadline) ==
    \/ HorizonCovers(hz, authority, deadline)
    \/ /\ HorizonRebindable(hz, authority, at)
       /\ HorizonCovers(EstablishedHorizon(hz, authority, at), authority, deadline)
=============================================================================
