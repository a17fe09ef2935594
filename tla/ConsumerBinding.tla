-------------------------- MODULE ConsumerBinding --------------------------
(***************************************************************************)
(* How one process binds the deadline of a route map to its own clocks,    *)
(* and judges at every admission whether the bound lease may be used.      *)
(*                                                                         *)
(* Source: crates/storage/src/control_plane_lease.rs                       *)
(*         (ProcessLeaseClockHealth, validate_process_lease_clock,         *)
(*         BoundRouteMapLease),                                            *)
(*         crates/storage/src/control_plane.rs                             *)
(*         (bind_process_local_lease_at),                                  *)
(*         crates/storage/src/cluster/local.rs                             *)
(*         (route_map_lease_snapshot_is_valid_at),                         *)
(*         crates/storage/src/clock.rs.                                    *)
(*                                                                         *)
(* A thread reads the wall clock, the monotonic clock and the clock-health *)
(* clock one after the other and only then takes the mutex of the process- *)
(* wide observer.  Time is the authority's; the monotonic clocks keep it,  *)
(* the wall clock of the process is off by an amount that may change.      *)
(***************************************************************************)
EXTENDS LeaseRules, FiniteSets

CONSTANTS Threads,      \* threads of the process that bind or judge leases
          Offsets,      \* what the wall clock may be off by
          Base,         \* time at which the process starts
          MaxTime,      \* bound on time
          MaxFaults,    \* bound on how often a clock is stepped or cannot be read
          MaxGap,       \* bound on the time between two reads of one sample
          NoHealth,     \* PROCESS_CLOCK_HEALTH before its first use
          NoLease,      \* no bound lease
          NoReading     \* a clock that cannot be read

ASSUME OffsetsAssumption == Offsets \subseteq Int /\ \A d \in Offsets : Base + d >= 0
ASSUME TimesAssumption == Base \in Nat /\ MaxTime \in Nat /\ MaxFaults \in Nat /\ MaxGap \in Nat
ASSUME AbsentAssumption ==
  /\ NoReading \notin Int
  /\ NoHealth \notin [initialWall : Int, initialHealth : Int, latestWall : Int, latestHealth : Int, healthy : BOOLEAN]
  /\ NoLease \notin [until : Int, deadline : Int]

VARIABLES now,     \* the authority's time, and that of both monotonic clocks
          off,     \* what the wall clock of the process is off by
          faults,  \* how often a clock was stepped or could not be read
          health,  \* ProcessLeaseClockHealth
          lease,   \* the installed lease: authority and process-local deadline
          pc,      \* where a thread is
          sample,  \* what a thread has read, and when it began to
          map,     \* the route map a thread binds
          held     \* the lease a thread judges

vars == <<now, off, faults, health, lease, pc, sample, map, held>>

Wall == now + off

-----------------------------------------------------------------------------
(* Clocks. *)

\* A sample is taken within MaxGap.
Tick ==
  /\ now < MaxTime
  /\ health # NoHealth \/ \E t \in Threads : pc[t] # "idle"
  /\ \A t \in Threads : pc[t] \in {"mono", "health", "judgeHealth"} => now - sample[t].at < MaxGap
  /\ now' = now + 1
  /\ UNCHANGED <<off, faults, health, lease, pc, sample, map, held>>

\* The wall clock is set; a process starts with a clock that is right.
StepWallClock ==
  /\ faults < MaxFaults /\ health # NoHealth
  /\ \E d \in Offsets \ {off} : off' = d
  /\ faults' = faults + 1
  /\ UNCHANGED <<now, health, lease, pc, sample, map, held>>

\* The health clock cannot be read.
ClockFails == faults < MaxFaults /\ faults' = faults + 1

-----------------------------------------------------------------------------
(* ProcessLeaseClockHealth. *)

Distance(m, n) == IF m < n THEN n - m ELSE m - n

\* ProcessLeaseClockHealth::new
NewHealth(wall, mono) ==
  [initialWall |-> wall, initialHealth |-> mono, latestWall |-> wall, latestHealth |-> mono, healthy |-> TRUE]

\* What observe asks of a sample.
\* Variant: the wall clock may move by any amount.
InStepAnyDrift(h, wall, mono) == mono >= h.latestHealth
InStep(h, wall, mono) ==
  /\ mono >= h.latestHealth
  /\ wall >= h.initialWall
  /\ Distance(wall - h.initialWall, mono - h.initialHealth) <= Skew

\* ProcessLeaseClockHealth::observe
Observed(h, wall, mono) ==
  IF ~h.healthy \/ mono = NoReading \/ ~InStep(h, wall, mono)
    THEN [h EXCEPT !.healthy = FALSE]
    ELSE [h EXCEPT !.latestHealth = mono,
                   !.latestWall = IF mono > h.latestHealth THEN wall ELSE Later(@, wall)]

\* sample_may_precede_latest
\* Variant: samples are taken to arrive in order.
NeverPrecedes(h, wall, mono) == FALSE
MayPrecedeLatest(h, wall, mono) ==
  mono < h.latestHealth \/ (mono = h.latestHealth /\ wall < h.latestWall)

\* observe_with_older_sample_confirmation.  The sample that confirms,
\* wall_clock_health_sample, is taken at one time, if its clock can be read.
Confirm(wall, mono) ==
  LET older == mono # NoReading /\ MayPrecedeLatest(health, wall, mono)
  IN  \/ /\ health' = IF older THEN Observed(health, Wall, now) ELSE Observed(health, wall, mono)
         /\ UNCHANGED faults
      \/ /\ older /\ ClockFails
         /\ health' = [health EXCEPT !.healthy = FALSE]

-----------------------------------------------------------------------------
(* A thread that binds a map: wall clock, monotonic clock, health clock,    *)
(* observer, and then the binding itself with what it read first.           *)

NoMap == [issued |-> Base, until |-> Base]

Idle(t) ==
  /\ pc' = [pc EXCEPT ![t] = "idle"]
  /\ sample' = [sample EXCEPT ![t] = NoReading]
  /\ map' = [map EXCEPT ![t] = NoMap]
  /\ held' = [held EXCEPT ![t] = NoLease]

\* The first lease of a process is bound before it serves.  A map may have been
\* on its way for any time.
ReadWall(t) ==
  /\ pc[t] = "idle"
  /\ health # NoHealth \/ \A u \in Threads : pc[u] = "idle"
  /\ \E issued \in Base..now :
       map' = [map EXCEPT ![t] = [issued |-> issued, until |-> issued + MaxLease]]
  /\ sample' = [sample EXCEPT ![t] = [wall |-> Wall, mono |-> NoReading, health |-> NoReading, at |-> now]]
  /\ pc' = [pc EXCEPT ![t] = "mono"]
  /\ UNCHANGED <<now, off, faults, health, lease, held>>

ReadMono(t) ==
  /\ pc[t] = "mono"
  /\ sample' = [sample EXCEPT ![t].mono = now]
  /\ pc' = [pc EXCEPT ![t] = "health"]
  /\ UNCHANGED <<now, off, faults, health, lease, map, held>>

ReadHealth(t) ==
  /\ pc[t] \in {"health", "judgeHealth"}
  /\ \/ sample' = [sample EXCEPT ![t].health = now] /\ UNCHANGED faults
     \/ ClockFails /\ UNCHANGED sample
  /\ pc' = [pc EXCEPT ![t] = IF pc[t] = "health" THEN "observe" ELSE "judge"]
  /\ UNCHANGED <<now, off, health, lease, map, held>>

\* PROCESS_CLOCK_HEALTH.get_or_init, or the error of new.
FirstUse(t) ==
  /\ pc[t] = "observe" /\ health = NoHealth
  /\ \/ /\ sample[t].health # NoReading
        /\ health' = NewHealth(sample[t].wall, sample[t].health)
        /\ UNCHANGED <<pc, sample, map, held>>
     \/ /\ sample[t].health = NoReading
        /\ Idle(t)
        /\ UNCHANGED health
  /\ UNCHANGED <<now, off, faults, lease>>

\* validate_process_lease_clock and BoundRouteMapLease::bind.
Bind(t) ==
  /\ pc[t] = "observe" /\ health # NoHealth
  /\ Confirm(sample[t].wall, sample[t].health)
  /\ lease' = IF health'.healthy /\ BindAccepts(map[t].issued, sample[t].wall)
                THEN [until |-> map[t].until,
                      deadline |-> BindDeadline(map[t].until, sample[t].wall, sample[t].mono)]
                ELSE lease
  /\ Idle(t)
  /\ UNCHANGED <<now, off>>

-----------------------------------------------------------------------------
(* A thread that judges the lease it has: monotonic and wall clock, health  *)
(* clock, observer.                                                         *)

ReadToJudge(t) ==
  /\ pc[t] = "idle" /\ lease # NoLease
  /\ held' = [held EXCEPT ![t] = lease]
  /\ sample' = [sample EXCEPT ![t] = [wall |-> Wall, mono |-> now, health |-> NoReading, at |-> now]]
  /\ pc' = [pc EXCEPT ![t] = "judgeHealth"]
  /\ UNCHANGED <<now, off, faults, health, lease, map>>

\* route_map_lease_snapshot_is_valid_at: the lease is used, has run out, or is
\* given up with the clock.
Judge(t) ==
  /\ pc[t] = "judge"
  /\ Confirm(sample[t].wall, sample[t].health)
  /\ lease' = IF health'.healthy THEN lease ELSE NoLease
  /\ IF health'.healthy /\ IsValidAtMonotonic(held[t].deadline, sample[t].mono)
       THEN pc' = [pc EXCEPT ![t] = "serving"] /\ UNCHANGED <<sample, map, held>>
       ELSE Idle(t)
  /\ UNCHANGED <<now, off>>

Served(t) ==
  /\ pc[t] = "serving"
  /\ Idle(t)
  /\ UNCHANGED <<now, off, faults, health, lease>>

-----------------------------------------------------------------------------
Init ==
  /\ now = Base /\ faults = 0
  /\ off \in Offsets \cap (-Skew .. Skew)
  /\ health = NoHealth /\ lease = NoLease
  /\ pc = [t \in Threads |-> "idle"]
  /\ sample = [t \in Threads |-> NoReading]
  /\ map = [t \in Threads |-> NoMap]
  /\ held = [t \in Threads |-> NoLease]

Next ==
  \/ Tick \/ StepWallClock
  \/ \E t \in Threads :
       ReadWall(t) \/ ReadMono(t) \/ ReadHealth(t) \/ FirstUse(t) \/ Bind(t) \/ ReadToJudge(t) \/ Judge(t) \/ Served(t)

Spec == Init /\ [][Next]_vars

-----------------------------------------------------------------------------
(* Properties. *)

\* A lease is not used when a successor that waits out deadline and skew budget
\* may be active, although the wall clock of this process is set back or a clock
\* cannot be read while maps and samples are on their way: MaxFaults times, one
\* in the run (validate_process_lease_clock, BoundRouteMapLease::bind).
ServesBeforeSuccessor ==
  \A t \in Threads : pc[t] = "serving" => sample[t].mono < held[t].until + Skew

\* As long as no clock fails and every sample is taken within the skew budget,
\* the observer is not latched, in whatever order the samples of
\* different threads reach it (observe_with_older_sample_confirmation).
SteadyClockStaysHealthy == (faults = 0 /\ health # NoHealth) => health.healthy
=============================================================================
