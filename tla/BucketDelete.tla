---------------------------- MODULE BucketDelete ----------------------------
(***************************************************************************)
(* Deletion of a bucket while others write to it.                          *)
(*                                                                         *)
(* A writer takes a reservation on the bucket's placement group (PG) and   *)
(* then commits on the PG of its object; the commit is checked against the *)
(* reservation once, before its publication starts, and from then on must  *)
(* be finished.  DeleteBucket installs a drain row that keeps new          *)
(* reservations out, finishes the pending commands, waits until the        *)
(* reservations are gone, finishes the pending commands again, looks for   *)
(* visible data and only then installs the command that marks the bucket   *)
(* as deleting.  Drain and reservation are leases: both can run out while  *)
(* their owner is still at work.  How far a deletion has got is kept in an *)
(* attempt row, from which a later attempt on the same drain resumes.      *)
(*                                                                         *)
(* Source, under crates/storage/src: cluster/request_ops/bucket_delete.rs  *)
(* (deletion), pg_store/metadata/bucket_drain_begin.rs,                    *)
(* bucket_reservation_acquire.rs, metadata_store.rs and command_apply.rs   *)
(* (the rows on the bucket's PG), pg_store/command_log.rs (its pending     *)
(* slot), node_client/local.rs (the check of a reservation).               *)
(*                                                                         *)
(* Faults.  A deletion can stop at any step, and fail at any step with an  *)
(* error that keeps the drain or with one that rolls it back.  Recording   *)
(* an attempt is best effort.  Leases run out at any time.  A commit can   *)
(* lose its section.  Whoever installed a command, anyone may finish it.   *)
(***************************************************************************)
EXTENDS Naturals, FiniteSets

CONSTANTS Writers,       \* requests that write to the bucket, one commit each
          Deleters,      \* workers and requests that delete the bucket
          NoWriter,      \* no commit is pending
          PGs,           \* number of PGs that hold objects of the bucket
          MaxDrains,     \* bound on the drains that are begun
          MaxAttempts,   \* bound on the calls of begin_bucket_delete
          MaxGeneration  \* bound on the changes of the bucket's configuration

ASSUME SetsAssumption == IsFiniteSet(Writers) /\ NoWriter \notin Writers
ASSUME NumbersAssumption == /\ PGs \in Nat \ {0}
                            /\ MaxDrains \in Nat
                            /\ MaxAttempts \in Nat
                            /\ MaxGeneration \in Nat

Phases == {"Initial", "StreamCleanup", "ReservationWait",
           "PostReservationObjectDrain", "PostReservationStreamCleanup",
           "FinalVisibilityCheck", "FinalVisibilityProven", "MarkDeleting"}
Outcomes == {"Retryable", "NotEmpty", "StaleGeneration", "MarkDeleting"}
Stages == {"idle", "loop", "probe1", "record1", "recheck1", "cleanup1",
           "cleaned", "wait", "waiting", "probe2", "record2", "cleanup2",
           "recheck2", "check", "scan", "notempty", "proven", "mark",
           "install", "finish", "finishing"}

VARIABLES
    bucket,       \* the bucket's state
    generation,   \* its execution generation
    drain,        \* the drain row; id 0 stands for no row
    drains,       \* drain ids used
    current,      \* deleters whose copy of the row has its present deadline
    attempt,      \* the attempt row
    slot,         \* the pending command of the bucket's PG
    reservation,  \* the reservation row of each writer
    wrote,        \* writers that are through with their request
    commit,       \* the pending command of each object PG
    objects,      \* PGs on which the bucket has visible data
    attempts,     \* calls of begin_bucket_delete so far
    op            \* what each deleter is doing

rowVars == <<bucket, generation, drain, drains, current>>
writeVars == <<reservation, wrote, commit, objects>>
vars == <<rowVars, attempt, slot, writeVars, attempts, op>>

PG == 0 .. PGs - 1
NoDrain == [id |-> 0, generation |-> 0, live |-> FALSE]
NoCommit == [writer |-> NoWriter, put |-> FALSE, stage |-> "none"]
Idle == [stage |-> "idle", drain |-> 0, from |-> "Initial",
         phase |-> "Initial", next |-> 0]

TypeOK ==
    /\ bucket \in {"Active", "Deleting", "Gone"}
    /\ generation \in 0 .. MaxGeneration
    /\ drain \in [id : 0 .. MaxDrains, generation : 0 .. MaxGeneration,
                  live : BOOLEAN]
    /\ drains \in 0 .. MaxDrains
    /\ current \subseteq Deleters
    /\ attempt \in [drain : 0 .. MaxDrains, outcome : Outcomes, phase : Phases,
                    cursor : 0 .. PGs, scan : 0 .. PGs]
    /\ slot \in {"None", "Control", "Mark"}
    /\ reservation \in [Writers -> {"none", "live", "expired"}]
    /\ wrote \subseteq Writers
    /\ commit \in [PG -> [writer : Writers, put : BOOLEAN,
                          stage : {"installed", "validated", "started"}]
                         \cup {NoCommit}]
    /\ objects \subseteq PG
    /\ attempts \in 0 .. MaxAttempts
    /\ op \in [Deleters -> [stage : Stages, drain : 0 .. MaxDrains,
                            from : Phases, phase : Phases, next : 0 .. PGs]]

Init ==
    /\ bucket = "Active"
    /\ generation = 0
    /\ drain = NoDrain
    /\ drains = 0
    /\ current = {}
    /\ attempt = [drain |-> 0, outcome |-> "Retryable", phase |-> "Initial",
                  cursor |-> 0, scan |-> 0]
    /\ slot = "None"
    /\ reservation = [w \in Writers |-> "none"]
    /\ wrote = {}
    /\ commit = [g \in PG |-> NoCommit]
    /\ objects \in SUBSET PG
    /\ attempts = 0
    /\ op = [d \in Deleters |-> Idle]

-----------------------------------------------------------------------------
(* Writers. *)

\* acquire_durable_bucket_write_reservation
Acquire(w) ==
    /\ reservation[w] = "none"
    /\ w \notin wrote
    /\ bucket = "Active"
    /\ drain.id = 0
    /\ reservation' = [reservation EXCEPT ![w] = "live"]
    /\ UNCHANGED <<rowVars, attempt, slot, wrote, commit, objects, attempts, op>>

ReservationExpires(w) ==
    /\ reservation[w] = "live"
    /\ reservation' = [reservation EXCEPT ![w] = "expired"]
    /\ UNCHANGED <<rowVars, attempt, slot, wrote, commit, objects, attempts, op>>

\* The writer ends without a commit.
Release(w) ==
    /\ reservation[w] # "none"
    /\ w \notin wrote
    /\ reservation' = [reservation EXCEPT ![w] = "none"]
    /\ wrote' = wrote \cup {w}
    /\ UNCHANGED <<rowVars, attempt, slot, commit, objects, attempts, op>>

\* The writer's commit enters the slot of an object PG.  Nothing looks at
\* the reservation yet, and its lease may be over.  (With the row gone too,
\* the commit could only be abandoned, as if it had never been installed.)
InstallCommit(w, g, put) ==
    /\ reservation[w] # "none"
    /\ w \notin wrote
    /\ commit[g] = NoCommit
    /\ commit' = [commit EXCEPT ![g] = [writer |-> w, put |-> put,
                                        stage |-> "installed"]]
    /\ wrote' = wrote \cup {w}
    /\ UNCHANGED <<rowVars, attempt, slot, reservation, objects, attempts, op>>

\* validate_bucket_write_reservation_proof
ReservationProved(w) == reservation[w] = "live" /\ bucket = "Active"

\* Whoever finishes the commit holds the section of its PG.
ValidateCommit(g) ==
    /\ commit[g].stage = "installed"
    /\ ReservationProved(commit[g].writer)
    /\ commit' = [commit EXCEPT ![g].stage = "validated"]
    /\ UNCHANGED <<rowVars, attempt, slot, reservation, wrote, objects,
                   attempts, op>>

LoseSection(g) ==
    /\ commit[g].stage = "validated"
    /\ commit' = [commit EXCEPT ![g].stage = "installed"]
    /\ UNCHANGED <<rowVars, attempt, slot, reservation, wrote, objects,
                   attempts, op>>

StartCommit(g) ==
    /\ commit[g].stage = "validated"
    /\ commit' = [commit EXCEPT ![g].stage = "started"]
    /\ UNCHANGED <<rowVars, attempt, slot, reservation, wrote, objects,
                   attempts, op>>

\* The end of a commit releases the reservation it names.
EndCommit(g) ==
    /\ commit' = [commit EXCEPT ![g] = NoCommit]
    /\ reservation' = [reservation EXCEPT ![commit[g].writer] = "none"]
    /\ UNCHANGED <<rowVars, attempt, slot, wrote, attempts, op>>

ApplyCommit(g) ==
    /\ commit[g].stage = "started"
    /\ objects' = IF commit[g].put THEN objects \cup {g} ELSE objects \ {g}
    /\ EndCommit(g)

AbandonCommit(g) ==
    /\ commit[g].stage \in {"installed", "validated"}
    /\ UNCHANGED objects
    /\ EndCommit(g)

-----------------------------------------------------------------------------
(* The rows of the bucket's PG. *)

\* try_insert_bucket_control_pending_metadata_command_slot
InstallControl ==
    /\ slot = "None"
    /\ bucket = "Active"
    /\ drain.id = 0
    /\ generation < MaxGeneration
    /\ slot' = "Control"
    /\ UNCHANGED <<rowVars, attempt, writeVars, attempts, op>>

FinishControl ==
    /\ slot = "Control"
    /\ slot' = "None"
    /\ generation' \in {generation, generation + 1}
    /\ UNCHANGED <<bucket, drain, drains, current, attempt, writeVars,
                   attempts, op>>

\* The pending mark is applied by whoever finishes it, or abandoned before
\* its publication has started.
FinishMark ==
    /\ slot = "Mark"
    /\ slot' = "None"
    /\ bucket' \in {"Active", "Deleting"}
    /\ UNCHANGED <<generation, drain, drains, current, attempt, writeVars,
                   attempts, op>>

DrainExpires ==
    /\ drain.live
    /\ drain' = [drain EXCEPT !.live = FALSE]
    /\ UNCHANGED <<bucket, generation, drains, current, attempt, slot,
                   writeVars, attempts, op>>

\* Variant: a pending command does not protect the drain.
ClearableWhilePending ==
    drain.id # 0 /\ ~drain.live /\ bucket = "Active" /\ drain.generation = generation

\* Variant: the drain is cleared while its lease holds, not after.
ClearableWhileLive ==
    /\ drain.id # 0 /\ drain.live /\ bucket = "Active"
    /\ drain.generation = generation /\ slot = "None"

\* clear_expired_durable_bucket_write_drain
Clearable ==
    /\ drain.id # 0
    /\ ~drain.live
    /\ bucket = "Active"
    /\ drain.generation = generation
    /\ slot = "None"

\* A writer that waits for the drain, or a deletion that found it in its
\* way, rolls back a drain whose lease has run out.
ClearExpired ==
    /\ Clearable
    /\ drain' = NoDrain
    /\ current' = {}
    /\ UNCHANGED <<bucket, generation, drains, attempt, slot, writeVars,
                   attempts, op>>

-----------------------------------------------------------------------------
(* What a deleter does to the rows. *)

Matches(d) == attempt.drain = op[d].drain

\* bucket_delete_post_reservation_next_object_pg_id
Cursor(d) == IF Matches(d) THEN attempt.cursor ELSE 0

\* heartbeat_durable_bucket_write_drain
Beats(d) ==
    /\ drain.id = op[d].drain
    /\ drain.live
    /\ bucket = "Active"
    /\ drain.generation = generation

Heartbeat(d) ==
    /\ Beats(d)
    /\ current' = {d}

\* record_bucket_delete_attempt_outcome_with_client
Recorded(d, outcome, phase) ==
    [drain   |-> op[d].drain,
     outcome |-> outcome,
     phase   |-> phase,
     cursor  |-> Cursor(d),
     scan    |-> IF Matches(d) /\ attempt.phase = phase THEN attempt.scan ELSE 0]

\* The row is written, or the failure to write it is only logged.
Record(d, outcome, phase) ==
    attempt' \in {attempt}
                 \cup IF bucket = "Gone" THEN {} ELSE {Recorded(d, outcome, phase)}

\* record_bucket_delete_post_reservation_next_object_pg_id
WithCursor(d, row, phase, next) ==
    IF row.drain = op[d].drain
    THEN [row EXCEPT !.cursor = next]
    ELSE [drain |-> op[d].drain, outcome |-> "Retryable", phase |-> phase,
          cursor |-> next, scan |-> 0]

\* record_bucket_delete_final_visibility_progress
WithScan(d, next) ==
    [drain |-> op[d].drain, outcome |-> "Retryable",
     phase |-> "FinalVisibilityCheck", cursor |-> Cursor(d), scan |-> next]

\* The deleter goes on at stage s.
Goto(d, s) == op' = [op EXCEPT ![d].stage = s]
GotoPhase(d, s, p) == op' = [op EXCEPT ![d].stage = s, ![d].phase = p]
Restart(d) == op' = [op EXCEPT ![d].stage = "loop", ![d].phase = "Initial"]
Stop(d) == op' = [op EXCEPT ![d] = Idle]

-----------------------------------------------------------------------------
(* begin_durable_bucket_delete_drain *)

\* Variant: the phase of any drain is taken up.
ResumeFromAnyDrain(id) ==
    IF attempt.outcome = "Retryable" /\ attempt.phase # "MarkDeleting"
    THEN attempt.phase ELSE "Initial"

\* The phase from which an attempt on drain id goes on.
ResumeFrom(id) ==
    IF /\ attempt.drain = id
       /\ attempt.outcome = "Retryable"
       /\ attempt.phase # "MarkDeleting"
    THEN attempt.phase ELSE "Initial"

Enter(d, id) ==
    /\ attempts' = attempts + 1
    /\ current' = {d}
    /\ op' = [op EXCEPT ![d] = [Idle EXCEPT !.stage = "loop", !.drain = id,
                                            !.from = ResumeFrom(id)]]

BeginDrain(d) ==
    /\ op[d].stage = "idle"
    /\ attempts < MaxAttempts
    /\ bucket = "Active"
    /\ drain.id = 0
    /\ drains < MaxDrains
    /\ drains' = drains + 1
    /\ drain' = [id |-> drains + 1, generation |-> generation, live |-> TRUE]
    /\ Enter(d, drains + 1)
    /\ UNCHANGED <<bucket, generation, attempt, slot, writeVars>>

\* The drain of somebody else is renewed and taken over.
AdoptDrain(d) ==
    /\ op[d].stage = "idle"
    /\ attempts < MaxAttempts
    /\ drain.live
    /\ bucket = "Active"
    /\ drain.generation = generation
    /\ Enter(d, drain.id)
    /\ UNCHANGED <<bucket, generation, drain, drains, attempt, slot, writeVars>>

\* A drain of an older generation is removed on the way, unless a command
\* is pending.
ClearStale(d) ==
    /\ op[d].stage = "idle"
    /\ attempts < MaxAttempts
    /\ bucket = "Active"
    /\ drain.id # 0
    /\ drain.generation # generation
    /\ slot = "None"
    /\ drain' = NoDrain
    /\ current' = {}
    /\ attempt' \in {attempt,
                     [drain |-> drain.id, outcome |-> "StaleGeneration",
                      phase |-> "Initial",
                      cursor |-> IF attempt.drain = drain.id
                                 THEN attempt.cursor ELSE 0,
                      scan |-> IF attempt.drain = drain.id
                                  /\ attempt.phase = "Initial"
                               THEN attempt.scan ELSE 0]}
    /\ UNCHANGED <<bucket, generation, drains, slot, writeVars, attempts, op>>

-----------------------------------------------------------------------------
(* begin_bucket_delete_if_current: one step per remote call or check. *)

\* The stage at which an attempt that resumes from a phase goes on.
Entry == [p \in Phases |->
            CASE p = "StreamCleanup"                -> "cleanup1"
              [] p = "ReservationWait"              -> "wait"
              [] p = "PostReservationObjectDrain"   -> "probe2"
              [] p = "PostReservationStreamCleanup" -> "cleanup2"
              [] p = "FinalVisibilityCheck"         -> "check"
              [] p = "FinalVisibilityProven"        -> "mark"
              [] OTHER                              -> "probe1"]

\* With no command pending the attempt goes on where it was.
LoopProceed(d) ==
    /\ op[d].stage = "loop"
    /\ slot = "None"
    /\ op' = [op EXCEPT ![d].stage = Entry[op[d].from],
                        ![d].phase = IF op[d].from = "PostReservationObjectDrain"
                                     THEN op[d].from ELSE "Initial",
                        ![d].next = Cursor(d)]
    /\ UNCHANGED <<rowVars, attempt, slot, writeVars, attempts>>

\* A pending command is finished first, and what was proved is proved anew.
LoopControl(d) ==
    /\ op[d].stage = "loop"
    /\ slot = "Control"
    /\ op[d].from # "Initial"
    /\ op' = [op EXCEPT ![d].from = "Initial"]
    /\ UNCHANGED <<rowVars, attempt, slot, writeVars, attempts>>

LoopMark(d) ==
    /\ op[d].stage = "loop"
    /\ slot = "Mark"
    /\ Heartbeat(d)
    /\ op' = [op EXCEPT ![d].stage = "finish", ![d].phase = "MarkDeleting",
                        ![d].from = "Initial"]
    /\ UNCHANGED <<bucket, generation, drain, drains, attempt, slot, writeVars,
                   attempts>>

\* The next PG is found without a pending commit of the bucket, once anyone
\* has finished the one that was there.
Probe(d, n) ==
    /\ op[d].stage = <<"probe1", "probe2">>[n]
    /\ op[d].next \in PG
    /\ commit[op[d].next] = NoCommit
    /\ op' = [op EXCEPT ![d].stage = <<"record1", "record2">>[n],
                        ![d].next = @ + 1]
    /\ UNCHANGED <<rowVars, attempt, slot, writeVars, attempts>>

\* Variant: the cursor is recorded one PG too far.
RecordCursorPastNext(d, n) ==
    /\ op[d].stage = <<"record1", "record2">>[n]
    /\ bucket # "Gone"
    /\ attempt' = WithCursor(d, attempt, op[d].phase, op[d].next + 1)
    /\ Goto(d, <<"probe1", "probe2">>[n])
    /\ UNCHANGED <<rowVars, slot, writeVars, attempts>>

RecordCursor(d, n) ==
    /\ op[d].stage = <<"record1", "record2">>[n]
    /\ bucket # "Gone"
    /\ attempt' = WithCursor(d, attempt, op[d].phase, op[d].next)
    /\ Goto(d, <<"probe1", "probe2">>[n])
    /\ UNCHANGED <<rowVars, slot, writeVars, attempts>>

Probed(d, n) ==
    /\ op[d].stage = <<"probe1", "probe2">>[n]
    /\ op[d].next = PGs
    /\ IF n = 1 THEN Goto(d, "recheck1")
                ELSE GotoPhase(d, "cleanup2", "PostReservationStreamCleanup")
    /\ UNCHANGED <<rowVars, attempt, slot, writeVars, attempts>>

\* Is a command pending on the bucket's PG?
Recheck(d, n) ==
    /\ op[d].stage = <<"recheck1", "recheck2">>[n]
    /\ IF slot # "None" THEN Restart(d)
       ELSE IF n = 1 THEN GotoPhase(d, "cleanup1", "StreamCleanup")
       ELSE GotoPhase(d, "check", "FinalVisibilityCheck")
    /\ UNCHANGED <<rowVars, attempt, slot, writeVars, attempts>>

\* Variant: the cursor of the first pass is left for the second.
CleanupKeepingCursor(d) ==
    /\ op[d].stage = "cleanup1"
    /\ bucket # "Gone"
    /\ Heartbeat(d)
    /\ attempt' = Recorded(d, "Retryable", "StreamCleanup")
    /\ GotoPhase(d, "cleaned", "StreamCleanup")
    /\ UNCHANGED <<bucket, generation, drain, drains, slot, writeVars, attempts>>

\* Stream cleanup starts; the cursor goes back for the second pass.
Cleanup(d) ==
    /\ op[d].stage = "cleanup1"
    /\ bucket # "Gone"
    /\ Heartbeat(d)
    /\ \E row \in {attempt, Recorded(d, "Retryable", "StreamCleanup")} :
          attempt' = WithCursor(d, row, "StreamCleanup", 0)
    /\ GotoPhase(d, "cleaned", "StreamCleanup")
    /\ UNCHANGED <<bucket, generation, drain, drains, slot, writeVars, attempts>>

Cleaned(d) ==
    /\ op[d].stage = "cleaned"
    /\ Record(d, "Retryable", "ReservationWait")
    /\ op' = [op EXCEPT ![d].stage = "wait", ![d].phase = "ReservationWait",
                        ![d].from = "ReservationWait"]
    /\ UNCHANGED <<rowVars, slot, writeVars, attempts>>

StartWait(d) ==
    /\ op[d].stage = "wait"
    /\ Heartbeat(d)
    /\ GotoPhase(d, "waiting", "ReservationWait")
    /\ UNCHANGED <<bucket, generation, drain, drains, attempt, slot, writeVars,
                   attempts>>

\* wait_for_durable_bucket_write_reservations_empty
ReleaseExpired(d, w) ==
    /\ op[d].stage = "waiting"
    /\ reservation[w] = "expired"
    /\ reservation' = [reservation EXCEPT ![w] = "none"]
    /\ UNCHANGED <<rowVars, attempt, slot, wrote, commit, objects, attempts, op>>

\* What the wait waits for.
NoReservations == \A w \in Writers : reservation[w] = "none"

Waited(d) ==
    /\ op[d].stage = "waiting"
    /\ NoReservations
    /\ op' = [op EXCEPT ![d].stage = "probe2",
                        ![d].phase = "PostReservationObjectDrain",
                        ![d].next = Cursor(d)]
    /\ UNCHANGED <<rowVars, attempt, slot, writeVars, attempts>>

Cleanup2(d) ==
    /\ op[d].stage = "cleanup2"
    /\ Heartbeat(d)
    /\ IF op[d].from = "PostReservationStreamCleanup" THEN UNCHANGED attempt
       ELSE Record(d, "Retryable", "PostReservationStreamCleanup")
    /\ op' = [op EXCEPT ![d].stage = "recheck2",
                        ![d].phase = "PostReservationStreamCleanup",
                        ![d].from = "PostReservationStreamCleanup"]
    /\ UNCHANGED <<bucket, generation, drain, drains, slot, writeVars, attempts>>

\* The visibility check goes on after the PGs an earlier attempt has seen.
StartCheck(d) ==
    /\ op[d].stage = "check"
    /\ Heartbeat(d)
    /\ Record(d, "Retryable", "FinalVisibilityCheck")
    /\ op' = [op EXCEPT ![d].stage = "scan", ![d].phase = "FinalVisibilityCheck",
                        ![d].next = IF /\ attempt'.drain = op[d].drain
                                       /\ attempt'.phase = "FinalVisibilityCheck"
                                    THEN attempt'.scan ELSE 0]
    /\ UNCHANGED <<bucket, generation, drain, drains, slot, writeVars, attempts>>

Scan(d) ==
    /\ op[d].stage = "scan"
    /\ op[d].next \in PG
    /\ bucket # "Gone"
    /\ IF op[d].next \in objects
       THEN Goto(d, "notempty") /\ UNCHANGED attempt
       ELSE /\ attempt' = WithScan(d, op[d].next + 1)
            /\ op' = [op EXCEPT ![d].next = @ + 1]
    /\ UNCHANGED <<rowVars, slot, writeVars, attempts>>

\* The bucket is not empty.
RecordNotEmpty(d) ==
    /\ op[d].stage = "notempty"
    /\ Record(d, "NotEmpty", "FinalVisibilityCheck")
    /\ IF /\ drain.id = op[d].drain /\ d \in current
          /\ slot = "None"
       THEN drain' = NoDrain /\ current' = {}
       ELSE UNCHANGED <<drain, current>>
    /\ Stop(d)
    /\ UNCHANGED <<bucket, generation, drains, slot, writeVars, attempts>>

Scanned(d) ==
    /\ op[d].stage = "scan"
    /\ op[d].next = PGs
    /\ Heartbeat(d)
    /\ GotoPhase(d, "proven", "FinalVisibilityProven")
    /\ UNCHANGED <<bucket, generation, drain, drains, attempt, slot, writeVars,
                   attempts>>

\* The proof must be on record before the attempt goes on.
RecordProven(d) ==
    /\ op[d].stage = "proven"
    /\ bucket # "Gone"
    /\ attempt' = Recorded(d, "Retryable", "FinalVisibilityProven")
    /\ op' = [op EXCEPT ![d].stage = "mark", ![d].from = "FinalVisibilityProven"]
    /\ UNCHANGED <<rowVars, slot, writeVars, attempts>>

StartMark(d) ==
    /\ op[d].stage = "mark"
    /\ Heartbeat(d)
    /\ Goto(d, "install")
    /\ UNCHANGED <<bucket, generation, drain, drains, attempt, slot, writeVars,
                   attempts>>

\* require_mark_bucket_deleting_install_authorization
Authorized ==
    /\ drain.live
    /\ attempt.drain = drain.id
    /\ \/ attempt.outcome = "Retryable" /\ attempt.phase = "FinalVisibilityProven"
       \/ attempt.outcome = "MarkDeleting" /\ attempt.phase = "MarkDeleting"

InstallMark(d) ==
    /\ op[d].stage = "install"
    /\ IF bucket = "Deleting"   \* somebody else has marked the bucket
       THEN /\ Record(d, "MarkDeleting", "MarkDeleting")
            /\ Stop(d)
            /\ UNCHANGED slot
       ELSE /\ bucket = "Active"
            /\ IF slot = "None"
               THEN /\ Authorized
                    /\ slot' = "Mark"
                    /\ GotoPhase(d, "finish", "MarkDeleting")
               ELSE UNCHANGED slot /\ Restart(d)
            /\ UNCHANGED attempt
    /\ UNCHANGED <<rowVars, writeVars, attempts>>

StartFinish(d) ==
    /\ op[d].stage = "finish"
    /\ Heartbeat(d)
    /\ Goto(d, "finishing")
    /\ UNCHANGED <<bucket, generation, drain, drains, attempt, slot, writeVars,
                   attempts>>

\* The pending mark has been finished, by this deleter or another.
Finish(d) ==
    /\ op[d].stage = "finishing"
    /\ slot # "Mark"
    /\ IF bucket = "Active" THEN Restart(d) /\ UNCHANGED attempt
       ELSE Stop(d) /\ Record(d, "MarkDeleting", "MarkDeleting")
    /\ UNCHANGED <<rowVars, slot, writeVars, attempts>>

-----------------------------------------------------------------------------
(* Errors. *)

\* Contention, a lost route or a lost peer: the drain stays, and the phase
\* reached is recorded.  A deleter that dies leaves the row as it is.
FailKeeping(d) ==
    /\ op[d].stage # "idle"
    /\ Record(d, "Retryable", op[d].phase)
    /\ Stop(d)
    /\ UNCHANGED <<rowVars, slot, writeVars, attempts>>

\* Any other error rolls the drain back, if it is still the one this
\* deleter knows and no command is pending; never once the mark is pending.
FailRollingBack(d) ==
    /\ op[d].stage \notin {"idle", "notempty"}
    /\ op[d].phase # "MarkDeleting"
    /\ drain.id = op[d].drain
    /\ d \in current
    /\ slot = "None"
    /\ drain' = NoDrain
    /\ current' = {}
    /\ Stop(d)
    /\ UNCHANGED <<bucket, generation, drains, attempt, slot, writeVars, attempts>>

\* try_finalize_bucket_delete: the rows of the bucket go, and with them the
\* drain, the attempt and any reservation.
Finalize ==
    /\ bucket = "Deleting"
    /\ slot = "None"
    /\ objects = {}
    /\ bucket' = "Gone"
    /\ drain' = NoDrain
    /\ current' = {}
    /\ attempt' = [attempt EXCEPT !.drain = 0]
    /\ reservation' = [w \in Writers |-> "none"]
    /\ UNCHANGED <<generation, drains, slot, wrote, commit, objects, attempts, op>>

-----------------------------------------------------------------------------

Write(w) ==
    \/ Acquire(w)
    \/ ReservationExpires(w)
    \/ Release(w)
    \/ \E g \in PG, put \in BOOLEAN : InstallCommit(w, g, put)

FinishCommit(g) ==
    \/ ValidateCommit(g)
    \/ LoseSection(g)
    \/ StartCommit(g)
    \/ ApplyCommit(g)
    \/ AbandonCommit(g)

Delete(d) ==
    \/ BeginDrain(d) \/ AdoptDrain(d) \/ ClearStale(d)
    \/ LoopProceed(d) \/ LoopControl(d) \/ LoopMark(d)
    \/ \E n \in {1, 2} : Probe(d, n) \/ RecordCursor(d, n) \/ Probed(d, n)
                         \/ Recheck(d, n)
    \/ Cleanup(d) \/ Cleaned(d) \/ StartWait(d)
    \/ \E w \in Writers : ReleaseExpired(d, w)
    \/ Waited(d) \/ Cleanup2(d) \/ StartCheck(d) \/ Scan(d) \/ Scanned(d)
    \/ RecordNotEmpty(d) \/ RecordProven(d) \/ StartMark(d) \/ InstallMark(d)
    \/ StartFinish(d) \/ Finish(d)
    \/ FailKeeping(d) \/ FailRollingBack(d)

Next ==
    \/ \E w \in Writers : Write(w)
    \/ \E g \in PG : FinishCommit(g)
    \/ InstallControl \/ FinishControl \/ FinishMark
    \/ DrainExpires \/ ClearExpired
    \/ \E d \in Deleters : Delete(d)
    \/ Finalize

\* Leases run out, pending commands of the bucket's PG are recovered, and
\* writers that wait for a drain keep looking at it.  Nobody has to call
\* DeleteBucket again.
Fairness ==
    /\ WF_vars(DrainExpires)
    /\ WF_vars(ClearExpired)
    /\ WF_vars(FinishControl)
    /\ WF_vars(FinishMark)

Spec == Init /\ [][Next]_vars
FairSpec == Spec /\ Fairness

-----------------------------------------------------------------------------
(* Properties. *)

\* The slot of a PG is not yet past the point of no return.
Unpublished(g) == commit[g].stage \notin {"validated", "started"}

\* From the moment the mark is pending, the bucket has no visible data and
\* no commit that could still make some: whatever a writer had started
\* before the drain was finished before the emptiness check.
DeletingIsEmpty ==
    slot = "Mark" \/ bucket # "Active" =>
        objects = {} /\ \A g \in PG : Unpublished(g)

\* A pending mark keeps the drain row in place, whatever its lease says, and
\* no writer has a reservation: otherwise a write could be admitted between
\* the emptiness check and the mark.
MarkIsFenced ==
    slot = "Mark" => drain.id # 0 /\ NoReservations

\* An attempt row that belongs to the drain in place proves what its phase
\* says: from the second pass on, there is no reservation.
PhaseIsEvidence ==
    /\ drain.id # 0
    /\ attempt.drain = drain.id
    /\ attempt.outcome = "Retryable"
    /\ attempt.phase \in {"PostReservationObjectDrain",
                          "PostReservationStreamCleanup",
                          "FinalVisibilityCheck", "FinalVisibilityProven"}
    => NoReservations

\* A drain whose deletion is given up does not keep writers out forever, as
\* long as the configuration of the bucket is the one it was begun under: a
\* drain of an earlier configuration stays until somebody deletes the bucket
\* anew, since neither its expiry nor a retry of the deletion may clear it.
DrainEnds ==
    \A i \in 1 .. MaxDrains :
        drain.id = i /\ bucket = "Active" ~>
            drain.id # i \/ bucket # "Active" \/ drain.generation # generation
=============================================================================
