----------------------- MODULE ConsumerBinding_proofs -----------------------
(***************************************************************************)
(* Proofs about ConsumerBinding for every number of threads, every offset   *)
(* of the wall clock, skew budget, lease length and time between two reads  *)
(* of a sample.                                                             *)
(***************************************************************************)
EXTENDS ConsumerBinding, TLAPS

-----------------------------------------------------------------------------
(***************************************************************************)
(* The inductive invariant.                                                *)
(***************************************************************************)

Healths == [initialWall : Int, initialHealth : Int, latestWall : Int, latestHealth : Int, healthy : BOOLEAN]
Leases == [until : Int, deadline : Int]
Maps == [issued : Int, until : Int]
Readings == Int \cup {NoReading}
Samples == [wall : Int, mono : Readings, health : Readings, at : Int]

Places == {"idle", "mono", "health", "observe", "judgeHealth", "judge", "serving"}
Judging == {"judgeHealth", "judge", "serving"}

Typed ==
  /\ now \in Int
  /\ off \in Int
  /\ faults \in Nat
  /\ health \in Healths \cup {NoHealth}
  /\ lease \in Leases \cup {NoLease}
  /\ pc \in [Threads -> Places]
  /\ DOMAIN sample = Threads
  /\ map \in [Threads -> Maps]
  /\ held \in [Threads -> Leases \cup {NoLease}]

\* What a thread at p knows of its sample s: the reads follow each other within
\* MaxGap of the first, and none is in the future.
SampleOK(p, s) ==
  p # "idle" =>
    /\ s \in Samples
    /\ s.at <= now
    /\ p \in {"mono", "health", "judgeHealth"} => now <= s.at + MaxGap /\ s.health = NoReading
    /\ p \in {"health", "observe"} => s.mono \in Int /\ s.at <= s.mono /\ s.mono <= s.at + MaxGap /\ s.mono <= now
    /\ p \in Judging => s.mono = s.at
    /\ p \in {"observe", "judge"} /\ s.health # NoReading =>
         /\ s.at <= s.health /\ s.health <= s.at + MaxGap /\ s.health <= now
         /\ p = "observe" => s.mono <= s.health

SamplesOK == \A t \in Threads : SampleOK(pc[t], sample[t])

\* Until the observer exists one thread binds the first lease alone.
StartInv ==
  health = NoHealth =>
    /\ lease = NoLease
    /\ \A t \in Threads : pc[t] \notin Judging
    /\ \A t, u \in Threads : pc[t] # "idle" /\ pc[u] # "idle" => t = u

\* A thread that judges has captured a lease.
HeldInv == \A t \in Threads : pc[t] \in Judging => held[t] \in Leases

\* As long as nobody has set the wall clock, samples show its first offset.
Calm == faults = 0 \/ health = NoHealth

CalmInv ==
  Calm => /\ -Skew <= off /\ off <= Skew
          /\ \A t \in Threads : pc[t] # "idle" => sample[t].wall = sample[t].at + off

\* The observer was set up from a sample of the first offset, and has seen
\* nothing from the future.
HealthInv ==
  health # NoHealth =>
    /\ health.latestHealth <= now /\ health.initialHealth <= now
    /\ health.initialWall >= health.initialHealth - Skew - MaxGap
    /\ faults = 0 =>
         /\ health.initialWall <= health.initialHealth + off
         /\ health.initialWall >= health.initialHealth + off - MaxGap
         /\ \A t \in Threads : pc[t] # "idle" => sample[t].wall >= health.initialWall

\* Without a fault every read succeeds.
ReadInv == faults = 0 => \A t \in Threads : pc[t] \in {"observe", "judge"} => sample[t].health # NoReading

Inv == Typed /\ SamplesOK /\ StartInv /\ HeldInv /\ CalmInv /\ HealthInv /\ ReadInv

ThreadStep(t) ==
  ReadWall(t) \/ ReadMono(t) \/ ReadHealth(t) \/ FirstUse(t) \/ Bind(t) \/ ReadToJudge(t) \/ Judge(t) \/ Served(t)

-----------------------------------------------------------------------------
(***************************************************************************)
(* The observer.                                                           *)
(***************************************************************************)

\* observe keeps what the observer was set up with.
LEMMA ObservedType ==
  ASSUME NEW h \in Healths, NEW wall \in Int, NEW mono \in Readings
  PROVE  /\ Observed(h, wall, mono) \in Healths
         /\ Observed(h, wall, mono).initialWall = h.initialWall
         /\ Observed(h, wall, mono).initialHealth = h.initialHealth
         /\ Observed(h, wall, mono).latestHealth \in {h.latestHealth, mono}
         /\ mono = NoReading => Observed(h, wall, mono).latestHealth = h.latestHealth
         /\ Observed(h, wall, mono).healthy <=> h.healthy /\ mono # NoReading /\ InStep(h, wall, mono)
<1>1. CASE ~h.healthy \/ mono = NoReading \/ ~InStep(h, wall, mono)
  BY <1>1 DEF Observed, Healths
<1>2. CASE h.healthy /\ mono # NoReading /\ InStep(h, wall, mono)
  <2>1. mono \in Int
    BY <1>2 DEF Readings
  <2> QED
    BY <1>2, <2>1 DEF Observed, Healths, Later
<1> QED
  BY <1>1, <1>2 DEF Healths

\* A confirmation leaves the observer latched, or as it was with another sample
\* that is in step: the one given or a newer one.
LEMMA ConfirmEffect ==
  ASSUME Typed, health # NoHealth, NEW wall \in Int, NEW mono \in Readings, Confirm(wall, mono),
         mono # NoReading => mono <= now, health.latestHealth <= now
  PROVE  /\ health' \in Healths
         /\ health'.initialWall = health.initialWall
         /\ health'.initialHealth = health.initialHealth
         /\ health'.latestHealth <= now
         /\ faults' \in Nat /\ faults <= faults'
         /\ health'.healthy => /\ mono # NoReading
                               /\ \/ InStep(health, wall, mono)
                                  \/ InStep(health, Wall, now)
         /\ faults' = 0 /\ health.healthy /\ mono # NoReading =>
              \/ health'.healthy
              \/ MayPrecedeLatest(health, wall, mono) /\ ~InStep(health, Wall, now)
              \/ ~MayPrecedeLatest(health, wall, mono) /\ ~InStep(health, wall, mono)
<1>0. health \in Healths /\ now \in Int /\ Wall \in Int /\ faults \in Nat
  BY DEF Typed, Wall
<1>0a. health.latestHealth \in Int
  BY <1>0 DEF Healths
<1>1. CASE health' = Observed(health, Wall, now) /\ mono # NoReading /\ MayPrecedeLatest(health, wall, mono) /\ UNCHANGED faults
  <2>1. now \in Readings /\ now # NoReading
    BY <1>0, AbsentAssumption DEF Readings
  <2> QED
    BY <1>0, <1>0a, <1>1, <2>1, ObservedType
<1>2. CASE /\ health' = Observed(health, wall, mono) /\ UNCHANGED faults
           /\ ~(mono # NoReading /\ MayPrecedeLatest(health, wall, mono))
  BY <1>0, <1>0a, <1>2, ObservedType
<1>3. CASE health' = [health EXCEPT !.healthy = FALSE] /\ ClockFails
  <2>1. faults' \in Nat /\ faults <= faults' /\ faults' # 0
    BY <1>0, <1>3 DEF ClockFails
  <2>2. /\ health' \in Healths /\ ~health'.healthy /\ health'.latestHealth = health.latestHealth
        /\ health'.initialWall = health.initialWall /\ health'.initialHealth = health.initialHealth
    BY <1>0, <1>3 DEF Healths
  <2> QED
    BY <2>1, <2>2
<1> QED
  BY <1>1, <1>2, <1>3 DEF Confirm

-----------------------------------------------------------------------------
(***************************************************************************)
(* Types.                                                                  *)
(***************************************************************************)

\* A thread that goes idle gives up what it has read.
LEMMA IdleType ==
  ASSUME Typed, NEW t \in Threads, Idle(t)
  PROVE  /\ pc' \in [Threads -> Places] /\ DOMAIN sample' = Threads
         /\ map' \in [Threads -> Maps] /\ held' \in [Threads -> Leases \cup {NoLease}]
BY TimesAssumption DEF Typed, Idle, Places, NoMap, Maps

\* The sample of a thread at the observer, as constants.
LEMMA AtObserver ==
  ASSUME Typed, SamplesOK, NEW t \in Threads, pc[t] \in {"observe", "judge"}
  PROVE  \E s \in Samples : s = sample[t] /\ s.wall \in Int /\ s.health \in Readings /\ (s.health # NoReading => s.health <= now)
BY DEF SamplesOK, SampleOK, Samples

LEMMA TypeStep ==
  ASSUME Inv, [Next]_vars
  PROVE  Typed'
<1> USE DEF Inv
<1>1. CASE Tick
  BY <1>1 DEF Tick, Typed
<1>2. CASE StepWallClock
  BY <1>2, OffsetsAssumption DEF StepWallClock, Typed
<1>3. CASE \E t \in Threads : ThreadStep(t)
  <2>1. PICK t \in Threads : ThreadStep(t)
    BY <1>3
  <2>2. CASE ReadWall(t)
    <3>1. map' \in [Threads -> Maps]
      BY <2>2, TimesAssumption, MaxLeaseAssumption DEF ReadWall, Typed, Maps
    <3> QED
      BY <2>2, <3>1 DEF ReadWall, Typed, Places
  <2>3. CASE ReadMono(t)
    BY <2>3 DEF ReadMono, Typed, Places
  <2>4. CASE ReadHealth(t)
    <3>1. faults' \in Nat
      BY <2>4 DEF ReadHealth, ClockFails, Typed
    <3>2. DOMAIN sample' = Threads
      BY <2>4 DEF ReadHealth, Typed
    <3> QED
      BY <2>4, <3>1, <3>2 DEF ReadHealth, Typed, Places
  <2>5. CASE FirstUse(t)
    <3>1. CASE Idle(t) /\ UNCHANGED health
      BY <2>5, <3>1, IdleType DEF FirstUse, Typed
    <3>2. CASE /\ sample[t].health # NoReading /\ health' = NewHealth(sample[t].wall, sample[t].health)
               /\ UNCHANGED <<pc, sample, map, held>>
      <4>1. sample[t].wall \in Int /\ sample[t].health \in Int
        BY <2>5, <3>2 DEF FirstUse, SamplesOK, SampleOK, Samples, Readings
      <4>2. health' \in Healths
        BY <3>2, <4>1 DEF NewHealth, Healths
      <4> QED
        BY <2>5, <3>2, <4>2 DEF FirstUse, Typed
    <3> QED
      BY <2>5, <3>1, <3>2 DEF FirstUse
  <2>6. CASE Bind(t)
    <3>1. PICK s \in Samples : s = sample[t] /\ s.wall \in Int /\ s.health \in Readings /\ (s.health # NoReading => s.health <= now)
      BY <2>6, AtObserver DEF Bind
    <3>2. Confirm(s.wall, s.health) /\ health # NoHealth
      BY <2>6, <3>1 DEF Bind
    <3>3. health' \in Healths /\ faults' \in Nat
      BY <3>1, <3>2, ConfirmEffect DEF HealthInv
    <3>4. s.mono \in Int /\ map[t].until \in Int
      BY <2>6, <3>1 DEF Bind, SamplesOK, SampleOK, Typed, Maps
    <3>5. BindDeadline(map[t].until, s.wall, s.mono) \in Int
      BY <3>1, <3>4, SkewAssumption DEF BindDeadline, Later
    <3>6. lease' \in Leases \cup {NoLease}
      BY <2>6, <3>1, <3>4, <3>5 DEF Bind, Typed, Leases
    <3> QED
      BY <2>6, <3>3, <3>6, IdleType DEF Bind, Typed
  <2>7. CASE ReadToJudge(t)
    BY <2>7 DEF ReadToJudge, Typed, Places
  <2>8. CASE Judge(t)
    <3>1. PICK s \in Samples : s = sample[t] /\ s.wall \in Int /\ s.health \in Readings /\ (s.health # NoReading => s.health <= now)
      BY <2>8, AtObserver DEF Judge
    <3>2. Confirm(s.wall, s.health) /\ health # NoHealth
      BY <2>8, <3>1 DEF Judge, StartInv, Judging
    <3>3. health' \in Healths /\ faults' \in Nat
      BY <3>1, <3>2, ConfirmEffect DEF HealthInv
    <3>4. lease' \in Leases \cup {NoLease}
      BY <2>8 DEF Judge, Typed
    <3>5. CASE Idle(t)
      BY <2>8, <3>3, <3>4, <3>5, IdleType DEF Judge, Typed
    <3>6. CASE pc' = [pc EXCEPT ![t] = "serving"] /\ UNCHANGED <<sample, map, held>>
      BY <2>8, <3>3, <3>4, <3>6 DEF Judge, Typed, Places
    <3> QED
      BY <2>8, <3>5, <3>6 DEF Judge
  <2>9. CASE Served(t)
    BY <2>9, IdleType DEF Served, Typed
  <2> QED
    BY <2>1, <2>2, <2>3, <2>4, <2>5, <2>6, <2>7, <2>8, <2>9 DEF ThreadStep
<1>4. CASE UNCHANGED vars
  BY <1>4 DEF vars, Typed
<1> QED
  BY <1>1, <1>2, <1>3, <1>4 DEF Next, ThreadStep

-----------------------------------------------------------------------------
(***************************************************************************)
(* Samples.                                                                *)
(***************************************************************************)

\* A thread changes only what is its own, and no time passes.
LEMMA OthersKept ==
  ASSUME Typed, NEW t \in Threads, ThreadStep(t)
  PROVE  /\ now' = now /\ off' = off
         /\ \A u \in Threads \ {t} : pc'[u] = pc[u] /\ sample'[u] = sample[u] /\ held'[u] = held[u]
BY DEF ThreadStep, ReadWall, ReadMono, ReadHealth, FirstUse, Bind, ReadToJudge, Judge, Served, Idle, Typed

\* Where a thread's own step leads.
LEMMA OwnStep ==
  ASSUME Typed, NEW t \in Threads, ThreadStep(t)
  PROVE  \/ pc'[t] = "idle"
         \/ /\ pc[t] = "idle" /\ pc'[t] = "mono"
            /\ sample'[t] = [wall |-> Wall, mono |-> NoReading, health |-> NoReading, at |-> now]
            /\ health # NoHealth \/ \A u \in Threads : pc[u] = "idle"
         \/ /\ pc[t] = "idle" /\ pc'[t] = "judgeHealth"
            /\ sample'[t] = [wall |-> Wall, mono |-> now, health |-> NoReading, at |-> now]
            /\ lease # NoLease /\ held'[t] = lease
         \/ pc[t] = "mono" /\ pc'[t] = "health" /\ sample'[t] = [sample[t] EXCEPT !.mono = now]
         \/ /\ (pc[t] = "health" /\ pc'[t] = "observe") \/ (pc[t] = "judgeHealth" /\ pc'[t] = "judge")
            /\ \/ sample'[t] = [sample[t] EXCEPT !.health = now]
               \/ sample'[t] = sample[t] /\ faults' = faults + 1
            /\ held'[t] = held[t]
         \/ pc[t] = "observe" /\ pc'[t] = "observe" /\ sample'[t] = sample[t] /\ sample[t].health # NoReading
         \/ pc[t] = "judge" /\ pc'[t] = "serving" /\ sample'[t] = sample[t] /\ held'[t] = held[t]
<1>1. CASE ReadWall(t)
  BY <1>1 DEF ReadWall, Typed
<1>2. CASE ReadMono(t)
  BY <1>2 DEF ReadMono, Typed
<1>3. CASE ReadHealth(t)
  <2>1. pc'[t] = (IF pc[t] = "health" THEN "observe" ELSE "judge") /\ pc[t] \in {"health", "judgeHealth"}
    BY <1>3 DEF ReadHealth, Typed
  <2>2. held'[t] = held[t]
    BY <1>3 DEF ReadHealth
  <2>3. \/ sample'[t] = [sample[t] EXCEPT !.health = now]
        \/ sample'[t] = sample[t] /\ faults' = faults + 1
    <3>1. CASE sample' = [sample EXCEPT ![t].health = now]
      BY <3>1 DEF Typed
    <3>2. CASE ClockFails /\ UNCHANGED sample
      BY <3>2 DEF ClockFails
    <3> QED
      BY <1>3, <3>1, <3>2 DEF ReadHealth
  <2>4. (pc[t] = "health" /\ pc'[t] = "observe") \/ (pc[t] = "judgeHealth" /\ pc'[t] = "judge")
    BY <2>1
  <2> QED
    BY <2>2, <2>3, <2>4
<1>4. CASE FirstUse(t)
  BY <1>4 DEF FirstUse, Idle, Typed
<1>5. CASE Bind(t) \/ Served(t)
  BY <1>5 DEF Bind, Served, Idle, Typed
<1>6. CASE ReadToJudge(t)
  BY <1>6 DEF ReadToJudge, Typed
<1>7. CASE Judge(t)
  BY <1>7 DEF Judge, Idle, Typed
<1> QED
  BY <1>1, <1>2, <1>3, <1>4, <1>5, <1>6, <1>7 DEF ThreadStep

LEMMA SamplesStep ==
  ASSUME Inv, Typed', [Next]_vars
  PROVE  SamplesOK'
<1> USE DEF Inv
<1>0. now \in Int /\ MaxGap \in Nat
  BY TimesAssumption DEF Typed
<1>1. CASE Tick
  <2>1. UNCHANGED <<pc, sample>> /\ now' = now + 1
    BY <1>1 DEF Tick
  <2>2. \A t \in Threads : pc[t] \in {"mono", "health", "judgeHealth"} => now - sample[t].at < MaxGap
    BY <1>1 DEF Tick
  <2>3. ASSUME NEW t \in Threads, pc[t] # "idle"
        PROVE  SampleOK(pc[t], sample[t])'
    <3>1. PICK s \in Samples : s = sample[t]
      BY <2>3 DEF SamplesOK, SampleOK
    <3>2. s.at \in Int /\ s.mono \in Readings /\ s.health \in Readings
      BY <3>1 DEF Samples
    <3>3. SampleOK(pc[t], s)
      BY <3>1 DEF SamplesOK
    <3>4. s.mono <= now /\ s.mono \in Int => s.mono <= now + 1
      BY <1>0
    <3>5. s.health <= now /\ s.health \in Int => s.health <= now + 1
      BY <1>0
    <3>6. s.at <= now + 1
      BY <1>0, <3>2, <3>3, <2>3 DEF SampleOK
    <3>7. pc[t] \in {"mono", "health", "judgeHealth"} => now + 1 <= s.at + MaxGap
      BY <1>0, <3>1, <3>2, <2>2
    <3>8. s.health # NoReading => s.health \in Int
      BY <3>2 DEF Readings
    <3> QED
      BY <2>1, <2>3, <3>1, <3>3, <3>4, <3>5, <3>6, <3>7, <3>8 DEF SampleOK
  <2> QED
    BY <2>1, <2>3 DEF SamplesOK, SampleOK
<1>2. CASE \E t \in Threads : ThreadStep(t)
  <2>1. PICK t \in Threads : ThreadStep(t)
    BY <1>2
  <2>2. now' = now /\ \A u \in Threads \ {t} : pc'[u] = pc[u] /\ sample'[u] = sample[u]
    BY <2>1, OthersKept
  <2>3. \A u \in Threads \ {t} : SampleOK(pc[u], sample[u])'
    BY <2>2 DEF SamplesOK, SampleOK
  <2>4. CASE pc'[t] = "idle"
    BY <2>3, <2>4 DEF SamplesOK, SampleOK
  <2>5. CASE pc'[t] \in {"mono", "judgeHealth"} /\ pc[t] = "idle"
    <3>1. \E m \in Readings : sample'[t] = [wall |-> Wall, mono |-> m, health |-> NoReading, at |-> now] /\ (pc'[t] = "judgeHealth" => m = now)
      BY <1>0, <2>1, <2>5, OwnStep DEF Readings
    <3>2. Wall \in Int /\ now <= now + MaxGap /\ now <= now
      BY <1>0 DEF Wall, Typed
    <3> QED
      BY <1>0, <2>2, <2>3, <2>5, <3>1, <3>2 DEF SamplesOK, SampleOK, Samples, Readings, Judging
  <2>6. CASE pc'[t] = "health"
    <3>1. pc[t] = "mono" /\ sample'[t] = [sample[t] EXCEPT !.mono = now]
      BY <2>1, <2>6, OwnStep
    <3>2. sample[t] \in Samples /\ sample[t].at <= now /\ now <= sample[t].at + MaxGap
      BY <3>1 DEF SamplesOK, SampleOK
    <3> QED
      BY <1>0, <2>2, <2>3, <2>6, <3>1, <3>2 DEF SamplesOK, SampleOK, Samples, Readings, Judging
  <2>7. CASE pc'[t] \in {"observe", "judge"} /\ pc[t] \in {"health", "judgeHealth"}
    <3>1. /\ (pc[t] = "health" /\ pc'[t] = "observe") \/ (pc[t] = "judgeHealth" /\ pc'[t] = "judge")
          /\ \/ sample'[t] = [sample[t] EXCEPT !.health = now]
             \/ sample'[t] = sample[t]
      BY <2>1, <2>7, OwnStep
    <3>2. PICK s \in Samples : s = sample[t]
      BY <2>7 DEF SamplesOK, SampleOK
    <3>3. SampleOK(pc[t], s)
      BY <3>2 DEF SamplesOK
    <3>4. s.at <= now /\ now <= s.at + MaxGap /\ now <= now
      BY <1>0, <2>7, <3>3 DEF SampleOK
    <3>5. CASE sample'[t] = [s EXCEPT !.health = now]
      <4>1. PICK z \in Samples : z = [s EXCEPT !.health = now]
        BY <1>0, <3>2 DEF Samples, Readings
      <4>2. z.at = s.at /\ z.mono = s.mono /\ z.health = now
        BY <4>1 DEF Samples
      <4> QED
        <5>1. pc[t] = "health" => s.mono \in Int /\ s.at <= s.mono /\ s.mono <= s.at + MaxGap /\ s.mono <= now
          BY <3>3 DEF SampleOK
        <5>2. pc[t] = "judgeHealth" => s.mono = s.at
          BY <3>3 DEF SampleOK, Judging
        <5>3. sample'[t] = z
          BY <3>5, <4>1
        <5>4. SampleOK(pc[t], sample[t])'
          <6>1. CASE pc[t] = "health" /\ pc'[t] = "observe"
            BY <2>2, <3>4, <4>1, <4>2, <5>1, <5>3, <6>1 DEF SampleOK, Judging
          <6>2. CASE pc[t] = "judgeHealth" /\ pc'[t] = "judge"
            BY <2>2, <3>4, <4>1, <4>2, <5>2, <5>3, <6>2 DEF SampleOK, Judging
          <6> QED
            BY <3>1, <6>1, <6>2
        <5> QED
          BY <2>3, <5>4 DEF SamplesOK
    <3>6. CASE sample'[t] = s
      <4>1. s.health = NoReading
        BY <2>7, <3>3 DEF SampleOK
      <4> QED
        BY <2>2, <2>3, <2>7, <3>1, <3>3, <3>4, <3>6, <4>1 DEF SamplesOK, SampleOK, Judging
    <3> QED
      BY <3>1, <3>2, <3>5, <3>6
  <2>8. CASE pc'[t] = "observe" /\ pc[t] = "observe" /\ sample'[t] = sample[t]
    BY <2>2, <2>3, <2>8 DEF SamplesOK, SampleOK
  <2>9. CASE pc'[t] = "serving" /\ pc[t] = "judge" /\ sample'[t] = sample[t]
    BY <2>2, <2>3, <2>9 DEF SamplesOK, SampleOK, Judging
  <2> QED
    BY <2>1, <2>4, <2>5, <2>6, <2>7, <2>8, <2>9, OwnStep
<1>3. CASE StepWallClock \/ UNCHANGED vars
  BY <1>3 DEF StepWallClock, vars, SamplesOK, SampleOK
<1> QED
  BY <1>1, <1>2, <1>3 DEF Next, ThreadStep

-----------------------------------------------------------------------------
(***************************************************************************)
(* The observer exists before anything is judged.                          *)
(***************************************************************************)

\* The observer is never taken away, and what it was set up with stays.
LEMMA HealthKept ==
  ASSUME Inv, Typed', [Next]_vars, health # NoHealth
  PROVE  /\ health' # NoHealth
         /\ health'.initialWall = health.initialWall
         /\ health'.initialHealth = health.initialHealth
         /\ health'.latestHealth <= now
         /\ faults <= faults'
<1> USE DEF Inv
<1>0. health.latestHealth <= now /\ faults \in Nat /\ health \in Healths
  BY DEF HealthInv, Typed
<1>1. ASSUME NEW t \in Threads, Bind(t) \/ Judge(t)
      PROVE  /\ health' \in Healths
             /\ health'.initialWall = health.initialWall
             /\ health'.initialHealth = health.initialHealth
             /\ health'.latestHealth <= now
             /\ faults <= faults'
  <2>1. PICK s \in Samples : s = sample[t] /\ s.wall \in Int /\ s.health \in Readings /\ (s.health # NoReading => s.health <= now)
    BY <1>1, AtObserver DEF Bind, Judge
  <2>2. Confirm(s.wall, s.health)
    BY <1>1, <2>1 DEF Bind, Judge
  <2> QED
    BY <1>0, <2>1, <2>2, ConfirmEffect
<1>2. CASE \E t \in Threads : Bind(t) \/ Judge(t)
  BY <1>1, <1>2, AbsentAssumption DEF Healths
<1>3. CASE UNCHANGED health
  <2>1. faults <= faults'
    BY <1>0 DEF Next, Tick, StepWallClock, ReadWall, ReadMono, ReadHealth, FirstUse, Bind, ReadToJudge, Judge, Served, ClockFails, Confirm, vars
  <2> QED
    BY <1>0, <1>3, <2>1
<1> QED
  BY <1>2, <1>3 DEF Next, Tick, StepWallClock, ReadWall, ReadMono, ReadHealth, FirstUse, ReadToJudge, Served, vars

\* The steps that can leave a process without an observer.
LEMMA StartStep ==
  ASSUME Inv, Typed', [Next]_vars
  PROVE  StartInv' /\ HeldInv'
<1> USE DEF Inv
<1>1. CASE \E t \in Threads : ThreadStep(t)
  <2>1. PICK t \in Threads : ThreadStep(t)
    BY <1>1
  <2>2. \A u \in Threads \ {t} : pc'[u] = pc[u] /\ held'[u] = held[u]
    BY <2>1, OthersKept
  <2>3. HeldInv'
    <3>1. pc'[t] \in Judging => held'[t] \in Leases
      BY <2>1, OwnStep DEF Judging, HeldInv, Typed
    <3> QED
      BY <2>2, <3>1 DEF HeldInv
  <2>4. ASSUME health' = NoHealth
        PROVE  /\ lease' = NoLease
               /\ \A u \in Threads : pc'[u] \notin Judging
               /\ \A u, v \in Threads : pc'[u] # "idle" /\ pc'[v] # "idle" => u = v
    <3>1. health = NoHealth
      BY <2>4, HealthKept
    <3>2. /\ lease = NoLease
          /\ \A u \in Threads : pc[u] \notin Judging
          /\ \A u, v \in Threads : pc[u] # "idle" /\ pc[v] # "idle" => u = v
      BY <3>1 DEF StartInv
    <3>3. lease' = NoLease
      BY <2>1, <3>1, <3>2 DEF ThreadStep, ReadWall, ReadMono, ReadHealth, FirstUse, Bind, ReadToJudge, Judge, Served, Judging
    <3>4. pc'[t] \notin Judging
      BY <2>1, <3>2, OwnStep DEF Judging
    <3>5. pc'[t] # "idle" => pc[t] # "idle" \/ \A u \in Threads : pc[u] = "idle"
      BY <2>1, <3>1, <3>2, OwnStep
    <3> QED
      BY <2>2, <3>2, <3>3, <3>4, <3>5
  <2> QED
    BY <2>3, <2>4 DEF StartInv
<1>2. CASE Tick \/ StepWallClock \/ UNCHANGED vars
  BY <1>2 DEF Tick, StepWallClock, vars, StartInv, HeldInv
<1> QED
  BY <1>1, <1>2 DEF Next, ThreadStep

\* Setting the wall clock ends the calm for good.
LEMMA CalmStep ==
  ASSUME Inv, Typed', SamplesOK', [Next]_vars
  PROVE  CalmInv' /\ ReadInv'
<1> USE DEF Inv
<1>0. faults' = 0 => faults = 0
  <2>1. faults \in Nat /\ faults' \in Nat
    BY DEF Typed
  <2>2. CASE health # NoHealth
    BY <2>1, <2>2, HealthKept
  <2>3. CASE health = NoHealth
    BY <2>1, <2>3 DEF Next, Tick, StepWallClock, ReadWall, ReadMono, ReadHealth, FirstUse, Bind, ReadToJudge, Judge, Served, ClockFails, vars, StartInv, Judging
  <2> QED
    BY <2>2, <2>3
<1>1. Calm' => Calm
  BY <1>0, HealthKept DEF Calm
<1>2. CASE \E t \in Threads : ThreadStep(t)
  <2>1. PICK t \in Threads : ThreadStep(t)
    BY <1>2
  <2>2. off' = off /\ now' = now /\ \A u \in Threads \ {t} : pc'[u] = pc[u] /\ sample'[u] = sample[u]
    BY <2>1, OthersKept
  <2>3. ASSUME Calm', pc'[t] # "idle" PROVE sample'[t].wall = sample'[t].at + off
    <3>1. CASE pc[t] = "idle"
      <4>0. \/ sample'[t] = [wall |-> Wall, mono |-> NoReading, health |-> NoReading, at |-> now]
            \/ sample'[t] = [wall |-> Wall, mono |-> now, health |-> NoReading, at |-> now]
        BY <2>1, <2>3, <3>1, OwnStep
      <4>1. sample'[t].wall = Wall /\ sample'[t].at = now
        BY <4>0
      <4> QED
        BY <4>1 DEF Wall
    <3>2. CASE pc[t] # "idle"
      <4>1. sample[t].wall = sample[t].at + off /\ sample[t] \in Samples
        BY <1>1, <2>3, <3>2 DEF CalmInv, SamplesOK, SampleOK
      <4>2. sample'[t].wall = sample[t].wall /\ sample'[t].at = sample[t].at
        BY <2>1, <2>3, <3>2, <4>1, OwnStep DEF Samples
      <4> QED
        BY <4>1, <4>2
    <3> QED
      BY <3>1, <3>2
  <2>4. CalmInv'
    BY <1>1, <2>2, <2>3 DEF CalmInv
  <2>5. ASSUME faults' = 0, pc'[t] \in {"observe", "judge"} PROVE sample'[t].health # NoReading
    <3>1. faults = 0 /\ faults' # faults + 1
      BY <1>0, <2>5
    <3>2. now # NoReading
      BY AbsentAssumption DEF Typed
    <3>3. CASE pc[t] \in {"health", "judgeHealth"}
      <4>1. sample[t] \in Samples /\ sample'[t] = [sample[t] EXCEPT !.health = now]
        BY <2>1, <2>5, <3>1, <3>3, OwnStep DEF SamplesOK, SampleOK
      <4> QED
        BY <3>2, <4>1 DEF Samples
    <3>4. CASE pc[t] = "observe" /\ sample'[t] = sample[t]
      BY <3>1, <3>4 DEF ReadInv
    <3> QED
      BY <2>1, <2>5, <3>3, <3>4, OwnStep
  <2>6. ReadInv'
    BY <1>0, <2>2, <2>5 DEF ReadInv
  <2> QED
    BY <2>4, <2>6
<1>3. CASE StepWallClock
  <2>1. ~Calm'
    BY <1>3 DEF StepWallClock, Calm, Typed
  <2> QED
    BY <2>1 DEF CalmInv, Calm, ReadInv
<1>4. CASE Tick \/ UNCHANGED vars
  BY <1>4 DEF Tick, vars, CalmInv, Calm, ReadInv
<1> QED
  BY <1>2, <1>3, <1>4 DEF Next, ThreadStep

\* The first sample sets the observer up; later ones move its latest reading.
LEMMA HealthStep ==
  ASSUME Inv, Typed', SamplesOK', CalmInv', [Next]_vars
  PROVE  HealthInv'
<1> USE DEF Inv
<1>0. Typed' /\ SamplesOK' /\ CalmInv' /\ MaxGap \in Nat /\ Skew \in Nat /\ now \in Int /\ now' \in Int /\ now <= now'
  <2>1. now \in Int /\ now' \in Int
    BY DEF Typed
  <2>2. now' = now \/ now' = now + 1
    BY OthersKept DEF Next, ThreadStep, Tick, StepWallClock, vars
  <2> QED
    BY <2>1, <2>2, TimesAssumption, SkewAssumption
<1>1. CASE health # NoHealth
  <2>1. /\ health' # NoHealth /\ faults <= faults'
        /\ health'.initialWall = health.initialWall /\ health'.initialHealth = health.initialHealth
        /\ health'.latestHealth <= now
    BY <1>0, <1>1, HealthKept
  <2>2. /\ health \in Healths /\ health' \in Healths
        /\ health'.latestHealth \in Int /\ health.initialHealth \in Int /\ health.initialWall \in Int
    BY <1>0, <1>1, <2>1 DEF Typed, Healths
  <2>3. health'.latestHealth <= now' /\ health'.initialHealth <= now'
    BY <1>0, <1>1, <2>1, <2>2 DEF HealthInv
  <2>4. health'.initialWall >= health'.initialHealth - Skew - MaxGap
    BY <1>1, <2>1 DEF HealthInv
  <2>5. ASSUME faults' = 0
        PROVE  /\ health'.initialWall <= health'.initialHealth + off'
               /\ health'.initialWall >= health'.initialHealth + off' - MaxGap
               /\ \A t \in Threads : pc'[t] # "idle" => sample'[t].wall >= health'.initialWall
    <3>1. faults = 0 /\ off' = off
      <4>1. faults = 0
        BY <2>1, <2>5 DEF Typed
      <4>2. ~StepWallClock
        BY <2>5, <4>1 DEF StepWallClock
      <4> QED
        BY <4>1, <4>2, OthersKept DEF Next, ThreadStep, Tick, vars
    <3>2. /\ health.initialWall <= health.initialHealth + off
          /\ health.initialWall >= health.initialHealth + off - MaxGap
          /\ \A t \in Threads : pc[t] # "idle" => sample[t].wall >= health.initialWall
      BY <1>1, <3>1 DEF HealthInv
    <3>3. Wall >= health.initialWall
      BY <1>0, <1>1, <2>2, <3>2 DEF HealthInv, Wall, Typed
    <3>4. ASSUME NEW t \in Threads, ThreadStep(t), pc'[t] # "idle"
          PROVE  sample'[t].wall >= health.initialWall
      <4>1. CASE pc[t] = "idle"
        <5>1. \/ sample'[t] = [wall |-> Wall, mono |-> NoReading, health |-> NoReading, at |-> now]
              \/ sample'[t] = [wall |-> Wall, mono |-> now, health |-> NoReading, at |-> now]
          BY <3>4, <4>1, OwnStep
        <5>2. sample'[t].wall = Wall
          BY <5>1
        <5> QED
          BY <3>3, <5>2
      <4>2. CASE pc[t] # "idle"
        <5>1. sample[t] \in Samples
          BY <4>2 DEF SamplesOK, SampleOK
        <5>2. sample'[t].wall = sample[t].wall
          BY <3>4, <4>2, <5>1, OwnStep DEF Samples
        <5> QED
          BY <3>2, <4>2, <5>2
      <4> QED
        BY <4>1, <4>2
    <3>5. \A t \in Threads : pc'[t] # "idle" => sample'[t].wall >= health.initialWall
      <4>1. CASE \E t \in Threads : ThreadStep(t)
        <5>1. PICK t \in Threads : ThreadStep(t)
          BY <4>1
        <5> QED
          BY <3>2, <3>4, <5>1, OthersKept
      <4>2. CASE UNCHANGED <<pc, sample>>
        BY <3>2, <4>2
      <4> QED
        BY <4>1, <4>2 DEF Next, ThreadStep, Tick, StepWallClock, vars
    <3> QED
      BY <2>1, <3>1, <3>2, <3>5
  <2> QED
    BY <2>3, <2>4, <2>5 DEF HealthInv
<1>2. CASE health = NoHealth /\ health' # NoHealth
  <2>1. PICK t \in Threads : /\ FirstUse(t) /\ sample[t].health # NoReading
                             /\ health' = NewHealth(sample[t].wall, sample[t].health)
                             /\ UNCHANGED <<pc, sample>>
    BY <1>2 DEF Next, Tick, StepWallClock, ReadWall, ReadMono, ReadHealth, FirstUse, Bind, ReadToJudge, Judge, Served, vars, StartInv, Judging
  <2>2. pc[t] = "observe" /\ now' = now /\ off' = off
    BY <2>1 DEF FirstUse
  <2>3. PICK s \in Samples : s = sample[t]
    BY <2>2 DEF SamplesOK, SampleOK
  <2>4. SampleOK("observe", s)
    BY <2>2, <2>3 DEF SamplesOK
  <2>5. /\ s.wall \in Int /\ s.at \in Int /\ s.health \in Int
        /\ s.at <= s.health /\ s.health <= s.at + MaxGap /\ s.health <= now
    BY <2>1, <2>3, <2>4 DEF SampleOK, Samples, Readings
  <2>6. s.wall = s.at + off /\ off \in Int /\ -Skew <= off /\ off <= Skew
    BY <1>2, <2>2, <2>3 DEF CalmInv, Calm, Typed
  <2>7. health'.initialWall = s.wall /\ health'.initialHealth = s.health /\ health'.latestHealth = s.health
    BY <2>1, <2>3 DEF NewHealth
  <2>8. s.wall >= s.health - Skew - MaxGap /\ s.wall <= s.health + off /\ s.wall >= s.health + off - MaxGap
    BY <1>0, <2>5, <2>6
  <2>9. \A u \in Threads : pc'[u] # "idle" => sample'[u].wall >= s.wall
    <3>1. \A u \in Threads : pc[u] # "idle" => u = t
      BY <1>2, <2>2 DEF StartInv
    <3>2. s.wall >= s.wall
      BY <2>5
    <3> QED
      BY <2>1, <2>3, <3>1, <3>2
  <2> QED
    BY <2>2, <2>5, <2>7, <2>8, <2>9 DEF HealthInv
<1> QED
  BY <1>1, <1>2 DEF HealthInv

LEMMA InvStep == Inv /\ [Next]_vars => Inv'
<1> SUFFICES ASSUME Inv, [Next]_vars PROVE Inv'
  OBVIOUS
<1>1. Typed'
  BY TypeStep
<1>2. SamplesOK'
  BY <1>1, SamplesStep
<1>3. StartInv' /\ HeldInv' /\ CalmInv' /\ ReadInv'
  BY <1>1, <1>2, StartStep, CalmStep
<1>4. HealthInv'
  BY <1>1, <1>2, <1>3, HealthStep
<1> QED
  BY <1>1, <1>2, <1>3, <1>4 DEF Inv

LEMMA InvInit == Init => Inv
<1> SUFFICES ASSUME Init PROVE Inv
  OBVIOUS
<1>1. Typed
  BY TimesAssumption, OffsetsAssumption DEF Init, Typed, Places, Maps, NoMap
<1>2. off \in Int /\ -Skew <= off /\ off <= Skew
  BY SkewAssumption, OffsetsAssumption DEF Init
<1>3. /\ \A t \in Threads : pc[t] = "idle"
      /\ health = NoHealth /\ lease = NoLease
  BY DEF Init
<1> QED
  BY <1>1, <1>2, <1>3 DEF Inv, SamplesOK, SampleOK, StartInv, HeldInv, CalmInv, HealthInv, ReadInv, Judging

LEMMA InvCorrect == Spec => []Inv
BY InvInit, InvStep, PTL DEF Spec

-----------------------------------------------------------------------------
(***************************************************************************)
(* A steady clock stays healthy.                                           *)
(***************************************************************************)

\* A sample of the first offset, read within the budget, is in step.
LEMMA SteadyInStep ==
  ASSUME MaxGap <= Skew, NEW h \in Healths, NEW d \in Int, NEW at \in Int, NEW wall \in Int, NEW mono \in Int,
         wall = at + d, at <= mono, mono <= at + MaxGap, mono >= h.latestHealth, wall >= h.initialWall,
         h.initialWall <= h.initialHealth + d, h.initialWall >= h.initialHealth + d - MaxGap
  PROVE  InStep(h, wall, mono)
<1>1. h.initialWall \in Int /\ h.initialHealth \in Int /\ MaxGap \in Nat /\ Skew \in Nat
  BY TimesAssumption, SkewAssumption DEF Healths
<1>2. ASSUME NEW iw \in Int, NEW ih \in Int, iw <= ih + d, iw >= ih + d - MaxGap
      PROVE  Distance(wall - iw, mono - ih) <= Skew
  BY <1>1, <1>2 DEF Distance
<1> QED
  BY <1>1, <1>2 DEF InStep

\* A thread that brings its sample to the observer does not latch it.
LEMMA SteadyConfirm ==
  ASSUME MaxGap <= Skew, Inv, NEW t \in Threads, pc[t] \in {"observe", "judge"}, health # NoHealth,
         health.healthy, faults' = 0, Confirm(sample[t].wall, sample[t].health)
  PROVE  health'.healthy
<1> USE DEF Inv
<1>1. PICK s \in Samples : s = sample[t] /\ s.wall \in Int /\ s.health \in Readings /\ (s.health # NoReading => s.health <= now)
  BY AtObserver
<1>2. health \in Healths /\ health.latestHealth <= now /\ health.initialHealth <= now /\ now \in Int /\ off \in Int
  BY DEF Typed, HealthInv
<1>3. Confirm(s.wall, s.health)
  BY <1>1
<1>4. faults = 0
  <2>1. faults' \in Nat /\ faults <= faults'
    BY <1>1, <1>2, <1>3, ConfirmEffect
  <2> QED
    BY <2>1 DEF Typed
<1>5. s.health # NoReading /\ s.health \in Int
  BY <1>1, <1>4 DEF ReadInv, Readings
<1>6. /\ health.initialWall <= health.initialHealth + off
      /\ health.initialWall >= health.initialHealth + off - MaxGap
      /\ s.wall >= health.initialWall
  BY <1>1, <1>4 DEF HealthInv
<1>7. /\ s.wall = s.at + off /\ s.at \in Int
      /\ s.at <= s.health /\ s.health <= s.at + MaxGap
  <2>1. SampleOK(pc[t], s)
    BY <1>1 DEF SamplesOK
  <2>2. s.at \in Int
    BY DEF Samples
  <2>3. s.wall = s.at + off
    BY <1>1, <1>4 DEF CalmInv, Calm
  <2> QED
    BY <1>5, <2>1, <2>2, <2>3 DEF SampleOK
<1>8. PICK d \in Int, n \in Int, h \in Healths : d = off /\ n = now /\ h = health
  BY <1>2
<1>9. CASE MayPrecedeLatest(health, s.wall, s.health)
  <2>1. h.initialWall \in Int /\ h.initialHealth \in Int /\ MaxGap \in Nat
    BY TimesAssumption DEF Healths
  <2>2. n <= n + MaxGap /\ n <= n
    BY <2>1
  <2>3. n + d >= h.initialWall
    BY <1>2, <1>6, <1>8, <2>1
  <2>4. n >= h.latestHealth
    BY <1>2, <1>8 DEF Healths
  <2>5. n + d \in Int
    OBVIOUS
  <2>6. InStep(h, n + d, n)
    BY <1>6, <1>8, <2>2, <2>3, <2>4, <2>5, SteadyInStep
  <2>7. InStep(health, Wall, now)
    BY <1>8, <2>6 DEF Wall
  <2> QED
    BY <1>1, <1>2, <1>3, <1>5, <1>9, <2>7, ConfirmEffect
<1>10. CASE ~MayPrecedeLatest(health, s.wall, s.health)
  <2>1. s.health >= h.latestHealth
    BY <1>5, <1>8, <1>10 DEF MayPrecedeLatest, Healths
  <2>2. InStep(h, s.wall, s.health)
    BY <1>1, <1>5, <1>6, <1>7, <1>8, <2>1, SteadyInStep
  <2> QED
    BY <1>1, <1>2, <1>3, <1>5, <1>8, <1>10, <2>2, ConfirmEffect
<1> QED
  BY <1>9, <1>10

\* As long as no clock is stepped or fails, and the reads of a sample lie no
\* further apart than the skew budget, the process-wide observer is never
\* latched, whatever the number of threads and the order in which their samples
\* reach it (observe_with_older_sample_confirmation).
THEOREM SteadyClockStaysHealthyCorrect ==
  ASSUME MaxGap <= Skew
  PROVE  Spec => []SteadyClockStaysHealthy
<1>1. Init => SteadyClockStaysHealthy
  BY DEF Init, SteadyClockStaysHealthy
<1>2. Inv /\ SteadyClockStaysHealthy /\ [Next]_vars => SteadyClockStaysHealthy'
  <2> SUFFICES ASSUME Inv, SteadyClockStaysHealthy, [Next]_vars, faults' = 0, health' # NoHealth
               PROVE  health'.healthy
    BY DEF SteadyClockStaysHealthy
  <2>1. CASE health = NoHealth
    <3>1. PICK t \in Threads : health' = NewHealth(sample[t].wall, sample[t].health)
      BY <2>1 DEF Next, Tick, StepWallClock, ReadWall, ReadMono, ReadHealth, FirstUse, Bind, ReadToJudge, Judge, Served, vars, Inv, StartInv, Judging
    <3> QED
      BY <3>1 DEF NewHealth
  <2>2. CASE health # NoHealth
    <3>0. Typed'
      BY TypeStep
    <3>1. faults = 0
      BY <2>2, <3>0, HealthKept DEF Typed, Inv
    <3>2. health.healthy
      BY <2>2, <3>1 DEF SteadyClockStaysHealthy
    <3>3. CASE \E t \in Threads : Bind(t) \/ Judge(t)
      BY <2>2, <3>2, <3>3, SteadyConfirm DEF Bind, Judge
    <3>4. CASE UNCHANGED health
      BY <3>2, <3>4
    <3> QED
      BY <2>2, <3>3, <3>4 DEF Next, Tick, StepWallClock, ReadWall, ReadMono, ReadHealth, FirstUse, ReadToJudge, Served, vars
  <2> QED
    BY <2>1, <2>2
<1> QED
  BY <1>1, <1>2, InvCorrect, PTL DEF Spec

-----------------------------------------------------------------------------
(***************************************************************************)
(* No lease is used when a successor may be active.                        *)
(***************************************************************************)

\* A lease that is already over at time n, or ends before a successor that
\* waits out its deadline, the skew budget and twice the time a sample takes.
Bounded(l, n) == l.deadline <= n \/ l.deadline <= l.until + Skew + 2 * MaxGap

\* Samples show the first offset, or the one a single step of the clock has led
\* to.
OffsetInv ==
  \A t \in Threads : pc[t] # "idle" =>
    \/ sample[t].wall = sample[t].at + off
    \/ sample[t].at - Skew <= sample[t].wall

BoundInv ==
  /\ lease # NoLease => Bounded(lease, now)
  /\ \A t \in Threads : pc[t] \in Judging => Bounded(held[t], sample[t].mono)
  /\ \A t \in Threads : pc[t] = "serving" => sample[t].mono < held[t].deadline

LEMMA OffsetStep ==
  ASSUME MaxFaults <= 1, Inv, Inv', OffsetInv, [Next]_vars
  PROVE  OffsetInv'
<1> USE DEF Inv
<1>1. CASE \E t \in Threads : ThreadStep(t)
  <2>1. PICK t \in Threads : ThreadStep(t)
    BY <1>1
  <2>2. off' = off /\ \A u \in Threads \ {t} : pc'[u] = pc[u] /\ sample'[u] = sample[u]
    BY <2>1, OthersKept
  <2>3. ASSUME pc'[t] # "idle"
        PROVE  sample'[t].wall = sample'[t].at + off \/ sample'[t].at - Skew <= sample'[t].wall
    <3>1. CASE pc[t] = "idle"
      <4>1. \/ sample'[t] = [wall |-> Wall, mono |-> NoReading, health |-> NoReading, at |-> now]
            \/ sample'[t] = [wall |-> Wall, mono |-> now, health |-> NoReading, at |-> now]
        BY <2>1, <2>3, <3>1, OwnStep
      <4>2. sample'[t].wall = Wall /\ sample'[t].at = now
        BY <4>1
      <4> QED
        BY <4>2 DEF Wall
    <3>2. CASE pc[t] # "idle"
      <4>1. sample[t] \in Samples
        BY <3>2 DEF SamplesOK, SampleOK
      <4>2. sample'[t].wall = sample[t].wall /\ sample'[t].at = sample[t].at
        BY <2>1, <2>3, <3>2, <4>1, OwnStep DEF Samples
      <4> QED
        BY <3>2, <4>2 DEF OffsetInv
    <3> QED
      BY <3>1, <3>2
  <2> QED
    BY <2>2, <2>3 DEF OffsetInv
<1>2. CASE StepWallClock
  <2>1. faults = 0 /\ UNCHANGED <<pc, sample>>
    BY <1>2, TimesAssumption DEF StepWallClock, Typed
  <2>2. ASSUME NEW t \in Threads, pc[t] # "idle" PROVE sample[t].at - Skew <= sample[t].wall
    <3>1. sample[t].wall = sample[t].at + off /\ -Skew <= off
      BY <2>1, <2>2 DEF CalmInv, Calm
    <3>2. sample[t].at \in Int /\ off \in Int /\ Skew \in Nat
      BY <2>2, SkewAssumption DEF SamplesOK, SampleOK, Samples, Typed
    <3> QED
      BY <3>1, <3>2
  <2> QED
    BY <2>1, <2>2 DEF OffsetInv
<1>3. CASE Tick \/ UNCHANGED vars
  BY <1>3 DEF Tick, vars, OffsetInv
<1> QED
  BY <1>1, <1>2, <1>3 DEF Next, ThreadStep

\* A wall clock in step with the observer is behind the health clock by no more
\* than twice the budget and the time of the first sample.
LEMMA InStepBehind ==
  ASSUME NEW h \in Healths, NEW wall \in Int, NEW mono \in Int, InStep(h, wall, mono),
         h.initialWall >= h.initialHealth - Skew - MaxGap
  PROVE  mono - wall <= 2 * Skew + MaxGap
<1>1. h.initialWall \in Int /\ h.initialHealth \in Int /\ MaxGap \in Nat /\ Skew \in Nat
  BY TimesAssumption, SkewAssumption DEF Healths
<1>2. ASSUME NEW iw \in Int, NEW ih \in Int, iw >= ih - Skew - MaxGap, Distance(wall - iw, mono - ih) <= Skew
      PROVE  mono - wall <= 2 * Skew + MaxGap
  BY <1>1, <1>2 DEF Distance
<1> QED
  BY <1>1, <1>2 DEF InStep

\* What a thread binds to its clocks.
LEMMA BindBounded ==
  ASSUME Inv, OffsetInv, NEW t \in Threads, Bind(t), health'.healthy
  PROVE  LET l == [until    |-> map[t].until,
                   deadline |-> BindDeadline(map[t].until, sample[t].wall, sample[t].mono)]
         IN  Bounded(l, now)
<1> USE DEF Inv
<1>1. PICK s \in Samples : s = sample[t] /\ s.wall \in Int /\ s.health \in Readings /\ (s.health # NoReading => s.health <= now)
  BY AtObserver DEF Bind
<1>2. health \in Healths /\ health # NoHealth /\ health.latestHealth <= now /\ now \in Int /\ off \in Int
  BY DEF Typed, HealthInv, Bind
<1>3. Confirm(s.wall, s.health)
  BY <1>1 DEF Bind
<1>4. s.health \in Int /\ (InStep(health, s.wall, s.health) \/ InStep(health, Wall, now))
  BY <1>1, <1>2, <1>3, ConfirmEffect DEF Readings
<1>5. SampleOK("observe", s)
  BY <1>1 DEF SamplesOK, Bind
<1>6. s.health # NoReading
  BY <1>4, AbsentAssumption
<1>7. /\ s.at \in Int /\ s.mono \in Int /\ s.mono <= s.at + MaxGap /\ s.mono <= s.health
      /\ s.mono <= now
  BY <1>5, <1>6 DEF SampleOK, Samples
<1>8. PICK d \in Int, n \in Int, h \in Healths : d = off /\ n = now /\ h = health
  BY <1>2
<1>9. h.initialWall >= h.initialHealth - Skew - MaxGap /\ MaxGap \in Nat /\ Skew \in Nat
  BY <1>2, <1>8, TimesAssumption, SkewAssumption DEF HealthInv
<1>10. s.mono - s.wall <= 2 * Skew + 2 * MaxGap
  <2>1. CASE InStep(h, s.wall, s.health)
    <3>1. s.health - s.wall <= 2 * Skew + MaxGap
      BY <1>1, <1>4, <1>9, <2>1, InStepBehind
    <3> QED
      BY <1>1, <1>4, <1>7, <1>9, <3>1
  <2>2. CASE InStep(h, n + d, n)
    <3>1. n - (n + d) <= 2 * Skew + MaxGap
      BY <1>9, <2>2, InStepBehind
    <3>2. s.wall = s.at + d \/ s.at - Skew <= s.wall
      BY <1>1, <1>8 DEF OffsetInv, Bind
    <3> QED
      BY <1>1, <1>7, <1>9, <3>1, <3>2
  <2> QED
    BY <1>4, <1>8, <2>1, <2>2 DEF Wall
<1>11. ASSUME NEW v \in Int
       PROVE  Bounded([until |-> v, deadline |-> BindDeadline(v, s.wall, s.mono)], n)
  <2>1. \/ BindDeadline(v, s.wall, s.mono) <= n
        \/ BindDeadline(v, s.wall, s.mono) <= v + Skew + 2 * MaxGap
    <3>1. CASE 0 < v - Skew - s.wall
      <4>1. BindDeadline(v, s.wall, s.mono) = s.mono + (v - Skew - s.wall)
        BY <1>1, <1>7, <1>9, <3>1 DEF BindDeadline, Later
      <4> QED
        BY <1>1, <1>7, <1>9, <1>10, <4>1
    <3>2. CASE ~(0 < v - Skew - s.wall)
      <4>1. BindDeadline(v, s.wall, s.mono) = s.mono
        BY <1>1, <1>7, <1>9, <3>2 DEF BindDeadline, Later
      <4> QED
        BY <1>7, <1>8, <4>1
    <3> QED
      BY <3>1, <3>2
  <2> QED
    BY <2>1 DEF Bounded
<1>12. map[t].until \in Int
  BY DEF Typed, Maps
<1> QED
  BY <1>1, <1>8, <1>11, <1>12

LEMMA BoundStep ==
  ASSUME Inv, Inv', OffsetInv, BoundInv, [Next]_vars
  PROVE  BoundInv'
<1> USE DEF Inv
<1>0. now \in Int /\ MaxGap \in Nat /\ Skew \in Nat
  BY TimesAssumption, SkewAssumption DEF Typed
<1>1. CASE Tick
  <2>1. now' = now + 1 /\ UNCHANGED <<lease, pc, sample, held>>
    BY <1>1 DEF Tick
  <2>2. lease # NoLease => lease.deadline \in Int
    BY DEF Typed, Leases
  <2>3. lease # NoLease => Bounded(lease, now)'
    BY <1>0, <2>1, <2>2 DEF BoundInv, Bounded
  <2> QED
    BY <2>1, <2>3 DEF BoundInv, Bounded
<1>2. CASE \E t \in Threads : ThreadStep(t)
  <2>1. PICK t \in Threads : ThreadStep(t)
    BY <1>2
  <2>2. now' = now /\ \A u \in Threads \ {t} : pc'[u] = pc[u] /\ sample'[u] = sample[u] /\ held'[u] = held[u]
    BY <2>1, OthersKept
  <2>3. lease' # NoLease => Bounded(lease', now)
    <3>1. CASE lease' \in {lease, NoLease}
      BY <3>1 DEF BoundInv
    <3>2. CASE lease' \notin {lease, NoLease}
      <4>1. /\ Bind(t) /\ health'.healthy
            /\ lease' = [until |-> map[t].until, deadline |-> BindDeadline(map[t].until, sample[t].wall, sample[t].mono)]
        BY <2>1, <3>2 DEF ThreadStep, ReadWall, ReadMono, ReadHealth, FirstUse, Bind, ReadToJudge, Judge, Served
      <4> QED
        BY <4>1, BindBounded
    <3> QED
      BY <3>1, <3>2
  <2>4. pc'[t] \in Judging => Bounded(held'[t], sample'[t].mono)
    <3>1. CASE pc[t] = "idle" /\ pc'[t] \in Judging
      <4>1. /\ lease # NoLease /\ held'[t] = lease
            /\ sample'[t] = [wall |-> Wall, mono |-> now, health |-> NoReading, at |-> now]
        BY <2>1, <3>1, OwnStep DEF Judging
      <4> QED
        BY <4>1 DEF BoundInv
    <3>2. CASE pc[t] # "idle" /\ pc'[t] \in Judging
      <4>1. pc[t] \in Judging /\ sample[t] \in Samples /\ held'[t] = held[t]
        BY <2>1, <3>2, OwnStep DEF Judging, SamplesOK, SampleOK
      <4>2. sample'[t].mono = sample[t].mono
        BY <2>1, <3>2, <4>1, OwnStep DEF Judging, Samples
      <4> QED
        BY <4>1, <4>2 DEF BoundInv
    <3> QED
      BY <3>1, <3>2
  <2>5. pc'[t] = "serving" => sample'[t].mono < held'[t].deadline
    <3> SUFFICES ASSUME pc'[t] = "serving" PROVE sample'[t].mono < held'[t].deadline
      OBVIOUS
    <3>1. pc[t] = "judge" /\ sample'[t] = sample[t] /\ held'[t] = held[t]
      BY <2>1, OwnStep
    <3>2. Judge(t)
      BY <2>1, <3>1 DEF ThreadStep, ReadWall, ReadMono, ReadHealth, FirstUse, Bind, ReadToJudge, Judge, Served, Idle, Typed
    <3>3. IsValidAtMonotonic(held[t].deadline, sample[t].mono)
      <4>1. ~Idle(t)
        BY DEF Idle, Typed
      <4> QED
        BY <3>2, <4>1 DEF Judge
    <3>4. held[t].deadline \in Int /\ sample[t].mono \in Int
      <4>1. held[t] \in Leases /\ sample[t] \in Samples /\ sample[t].mono = sample[t].at
        BY <3>1 DEF HeldInv, SamplesOK, SampleOK, Judging
      <4> QED
        BY <4>1 DEF Leases, Samples
    <3> QED
      BY <3>1, <3>3, <3>4 DEF IsValidAtMonotonic
  <2> QED
    BY <2>2, <2>3, <2>4, <2>5 DEF BoundInv, Bounded
<1>3. CASE StepWallClock \/ UNCHANGED vars
  BY <1>3 DEF StepWallClock, vars, BoundInv, Bounded
<1> QED
  BY <1>1, <1>2, <1>3 DEF Next, ThreadStep

\* ServesBeforeSuccessor for samples that take time: the reads of the sample
\* that set the observer up and of the sample that was bound may each add
\* MaxGap.
ServesWithinGap ==
  \A t \in Threads : pc[t] = "serving" => sample[t].mono < held[t].until + Skew + 2 * MaxGap

\* However long the reads of one sample take, a lease is used for no more than
\* deadline, skew budget and twice that time, although the wall clock of the
\* process is set once, by any amount, or a clock cannot be read once, while
\* maps and samples are on their way.
THEOREM ServesWithinGapCorrect ==
  ASSUME MaxFaults <= 1
  PROVE  Spec => []ServesWithinGap
<1>1. Init => OffsetInv /\ BoundInv
  BY DEF Init, OffsetInv, BoundInv, Judging
<1>2. Inv /\ Inv' /\ OffsetInv /\ BoundInv /\ [Next]_vars => OffsetInv' /\ BoundInv'
  BY OffsetStep, BoundStep
<1>3. Inv /\ BoundInv => ServesWithinGap
  <2> SUFFICES ASSUME Inv, BoundInv, NEW t \in Threads, pc[t] = "serving"
               PROVE  sample[t].mono < held[t].until + Skew + 2 * MaxGap
    BY DEF ServesWithinGap
  <2>1. /\ sample[t].mono < held[t].deadline
        /\ held[t].deadline <= sample[t].mono \/ held[t].deadline <= held[t].until + Skew + 2 * MaxGap
    BY DEF BoundInv, Bounded, Judging
  <2>2. held[t] \in Leases /\ sample[t] \in Samples /\ sample[t].mono = sample[t].at
    BY DEF Inv, HeldInv, SamplesOK, SampleOK, Judging
  <2>3. held[t].deadline \in Int /\ held[t].until \in Int /\ sample[t].mono \in Int /\ Skew \in Nat /\ MaxGap \in Nat
    BY <2>2, SkewAssumption, TimesAssumption DEF Leases, Samples
  <2> QED
    BY <2>1, <2>3
<1> QED
  BY <1>1, <1>2, <1>3, InvCorrect, PTL DEF Spec

\* With samples read at one time, no lease is used when a successor that waits
\* out its deadline and the skew budget may be active.
THEOREM ServesBeforeSuccessorCorrect ==
  ASSUME MaxFaults <= 1, MaxGap = 0
  PROVE  Spec => []ServesBeforeSuccessor
<1>1. Inv /\ ServesWithinGap => ServesBeforeSuccessor
  <2> SUFFICES ASSUME Inv, ServesWithinGap, NEW t \in Threads, pc[t] = "serving"
               PROVE  sample[t].mono < held[t].until + Skew
    BY DEF ServesBeforeSuccessor
  <2>1. held[t].until \in Int /\ Skew \in Nat
    BY SkewAssumption DEF Inv, HeldInv, Judging, Leases
  <2>2. sample[t].mono < held[t].until + Skew + 2 * MaxGap
    BY DEF ServesWithinGap
  <2>3. held[t].until + Skew + 2 * MaxGap = held[t].until + Skew
    BY <2>1
  <2> QED
    BY <2>2, <2>3
<1> QED
  BY <1>1, ServesWithinGapCorrect, InvCorrect, PTL

=============================================================================
