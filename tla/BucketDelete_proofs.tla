------------------------ MODULE BucketDelete_proofs -------------------------
(***************************************************************************)
(* Proofs about BucketDelete for every set of writers, every number of     *)
(* placement groups and every bound on drains, attempts and generations.   *)
(***************************************************************************)
EXTENDS BucketDelete, TLAPS

-----------------------------------------------------------------------------
(***************************************************************************)
(* The inductive invariant.                                                *)
(***************************************************************************)

\* Phases in which the reservations are gone.
Post == {"PostReservationObjectDrain", "PostReservationStreamCleanup",
         "FinalVisibilityCheck", "FinalVisibilityProven"}

\* Stages an attempt reaches only after the wait for the reservations.
Late == {"probe2", "record2", "cleanup2", "recheck2", "check", "scan",
         "notempty", "proven", "mark", "install"}

\* The drain row is that of the newest drain, the rows and copies of others
\* are older, and a pending mark keeps it.
RowInv ==
    /\ drain.id \in {0, drains}
    /\ drain.live => drain.id # 0
    /\ attempt.drain <= drains
    /\ \A d \in Deleters : op[d].drain <= drains
    /\ slot = "Mark" => drain.id # 0 /\ bucket = "Active"
    /\ slot = "Control" => generation < MaxGeneration

\* What is written together in an attempt row.
AttemptInv ==
    /\ attempt.outcome = "MarkDeleting" => bucket # "Active"
    /\ attempt.phase = "ReservationWait" => attempt.outcome = "Retryable"

\* The phase that a failing deleter would record, and the phase it resumed
\* from, at each stage.
FlowOK(o) ==
    /\ o.phase = "ReservationWait" => o.stage \in {"wait", "waiting"}
    /\ o.phase = "PostReservationObjectDrain" => o.stage \in {"probe2", "record2"}
    /\ o.phase = "PostReservationStreamCleanup" => o.stage \in {"cleanup2", "recheck2"}
    /\ o.phase = "FinalVisibilityCheck" => o.stage \in {"check", "scan", "notempty"}
    /\ o.phase = "FinalVisibilityProven" => o.stage \in {"proven", "mark", "install"}
    /\ o.phase = "MarkDeleting" => o.stage \in {"finish", "finishing"}
    /\ o.stage \in {"finish", "finishing"} => o.phase = "MarkDeleting"
    /\ o.stage \in {"probe1", "record1", "recheck1"} => o.from = "Initial"
    /\ o.stage \in {"idle", "loop", "probe1", "record1", "recheck1"} => o.phase = "Initial"
    /\ o.stage \in {"mark", "install"} => o.from = "FinalVisibilityProven"
    /\ o.stage = "recheck2" => o.from = "PostReservationStreamCleanup"
    /\ o.stage \in {"probe2", "record2"} => o.phase = "PostReservationObjectDrain"
    /\ o.from # "MarkDeleting"

FlowInv == \A d \in Deleters : FlowOK(op[d])

\* Attempt rows and deleters that claim the reservations of the drain in place
\* are gone are right.
Claims(o) == o.from \in Post \/ o.stage \in Late

EvidenceInv ==
    drain.id # 0 =>
        /\ attempt.drain = drain.id /\ attempt.phase \in Post => NoReservations
        /\ \A d \in Deleters : op[d].drain = drain.id /\ Claims(op[d]) => NoReservations
        /\ slot = "Mark" => NoReservations

Inv == TypeOK /\ RowInv /\ AttemptInv /\ FlowInv /\ EvidenceInv

-----------------------------------------------------------------------------
(***************************************************************************)
(* One deleter at a time: what its cursors stand for.                      *)
(***************************************************************************)

\* The first n placement groups have no commit, and never will.
Clean(n) == NoReservations /\ \A g \in PG : g < n => commit[g] = NoCommit

\* No data is visible on them.
Empty(n) == \A g \in PG : g < n => g \notin objects

Proving == {"PostReservationStreamCleanup", "FinalVisibilityCheck", "FinalVisibilityProven"}
SecondPass == {"cleaned", "wait", "waiting"} \cup Late

\* A deleter works on the drain in place, and a pending command stops it.
OwnInv ==
    drain.id # 0 =>
        \A d \in Deleters :
            /\ op[d].stage # "idle" => op[d].drain = drain.id
            /\ slot # "None" => op[d].stage \in {"idle", "loop", "finish", "finishing"}

\* A pass over the placement groups that starts anew finds no cursor of a pass
\* that was to wait for reservations.
AnewInv ==
    drain.id # 0 /\ attempt.drain = drain.id /\ attempt.phase = "ReservationWait" =>
        /\ slot = "None"
        /\ \A d \in Deleters :
             /\ op[d].stage \in {"loop", "probe1", "record1", "recheck1", "finish", "finishing"}
             /\ op[d].drain = drain.id
             => op[d].from # "Initial"

\* The cursor in row a, which a deleter with operation o may take up.
CursorOK(a, o) ==
    /\ drain.id # 0 /\ a.drain = drain.id
    /\ \/ a.phase \in Post \cup {"ReservationWait"}
       \/ /\ o.drain = drain.id
          /\ o.stage \in SecondPass \/ o.from \in Post \cup {"ReservationWait"}
    => a.cursor = 0 \/ Clean(a.cursor)

\* What row a proves.
RowOK(a) ==
    drain.id # 0 /\ a.drain = drain.id =>
        /\ a.phase \in Proving => Clean(PGs)
        /\ a.phase = "FinalVisibilityCheck" => Empty(a.scan)
        /\ a.phase = "FinalVisibilityProven" => Empty(PGs)

\* What a deleter with operation o has proved.
OpOK(a, o) ==
    drain.id # 0 /\ o.drain = drain.id =>
        /\ o.stage \in {"probe2", "record2"} => Clean(o.next)
        /\ o.stage \in {"probe1", "record1"} /\ a.drain = drain.id /\ a.phase \in Post => Clean(o.next)
        /\ o.stage \in Late \ {"probe2", "record2"} \/ o.from \in Proving => Clean(PGs)
        /\ o.stage = "scan" => Empty(o.next)
        /\ o.stage \in {"proven", "mark", "install"} \/ o.from = "FinalVisibilityProven" => Empty(PGs)

CursorInv == \A d \in Deleters : CursorOK(attempt, op[d])
RowProof == RowOK(attempt)
OpProofs == \A d \in Deleters : OpOK(attempt, op[d])

ProofInv == OwnInv /\ AnewInv /\ CursorInv /\ RowProof /\ OpProofs /\ DeletingIsEmpty

-----------------------------------------------------------------------------
(***************************************************************************)
(* Types.                                                                  *)
(***************************************************************************)

Operations == [stage : Stages, drain : 0 .. MaxDrains, from : Phases, phase : Phases, next : 0 .. PGs]
Attempts == [drain : 0 .. MaxDrains, outcome : Outcomes, phase : Phases, cursor : 0 .. PGs, scan : 0 .. PGs]
Drains == [id : 0 .. MaxDrains, generation : 0 .. MaxGeneration, live : BOOLEAN]
Commits == [writer : Writers, put : BOOLEAN, stage : {"installed", "validated", "started"}]

\* TypeOK by the names of the sets.
LEMMA TypeNamed ==
    TypeOK <=> /\ bucket \in {"Active", "Deleting", "Gone"}
               /\ generation \in 0 .. MaxGeneration
               /\ drain \in Drains
               /\ drains \in 0 .. MaxDrains
               /\ current \subseteq Deleters
               /\ attempt \in Attempts
               /\ slot \in {"None", "Control", "Mark"}
               /\ reservation \in [Writers -> {"none", "live", "expired"}]
               /\ wrote \subseteq Writers
               /\ commit \in [PG -> Commits \cup {NoCommit}]
               /\ objects \subseteq PG
               /\ attempts \in 0 .. MaxAttempts
               /\ op \in [Deleters -> Operations]
BY DEF TypeOK, Operations, Attempts, Drains, Commits

\* The values that stand for nothing.
LEMMA DefaultTypes ==
    /\ NoDrain \in Drains
    /\ Idle \in Operations
    /\ 0 \in 0 .. PGs /\ PGs \in 0 .. PGs /\ 0 \in 0 .. MaxDrains
    /\ \A g \in PG : g \in Nat /\ g \in 0 .. PGs /\ g + 1 \in 0 .. PGs /\ g < PGs
<1>1. PGs \in Nat /\ MaxDrains \in Nat /\ MaxGeneration \in Nat
  BY NumbersAssumption
<1>2. 0 \in 0 .. PGs /\ PGs \in 0 .. PGs /\ 0 \in 0 .. MaxDrains /\ 0 \in 0 .. MaxGeneration
  BY <1>1
<1>3. \A g \in PG : g \in Nat /\ g \in 0 .. PGs /\ g + 1 \in 0 .. PGs /\ g < PGs
  BY NumbersAssumption DEF PG
<1>4. NoDrain \in Drains
  BY <1>2 DEF NoDrain, Drains
<1>5. Idle \in Operations
  BY <1>2 DEF Idle, Operations, Stages, Phases
<1> QED
  BY <1>2, <1>3, <1>4, <1>5

\* Writers and commits.
LEMMA WriteType ==
    ASSUME TypeOK, \/ \E w \in Writers : Write(w)
                   \/ \E g \in PG : FinishCommit(g)
    PROVE  TypeOK'
<1> USE DEF rowVars, writeVars
<1>1. ASSUME NEW w \in Writers, Acquire(w) \/ ReservationExpires(w) \/ Release(w) PROVE TypeOK'
  BY <1>1 DEF Acquire, ReservationExpires, Release, TypeOK
<1>2. ASSUME NEW w \in Writers, NEW g \in PG, NEW put \in BOOLEAN, InstallCommit(w, g, put) PROVE TypeOK'
  <2>1. commit' \in [PG -> Commits \cup {NoCommit}]
    BY <1>2, TypeNamed DEF InstallCommit, Commits
  <2>2. wrote' \subseteq Writers
    BY <1>2 DEF InstallCommit, TypeOK
  <2> QED
    BY <1>2, <2>1, <2>2 DEF InstallCommit, TypeOK, Commits
<1>3. ASSUME NEW g \in PG, commit[g].stage # "none" PROVE commit[g] \in Commits
  BY <1>3, TypeNamed DEF NoCommit
<1>4. ASSUME NEW g \in PG, ValidateCommit(g) \/ LoseSection(g) \/ StartCommit(g) PROVE TypeOK'
  <2>1. commit[g] \in Commits
    BY <1>3, <1>4 DEF ValidateCommit, LoseSection, StartCommit
  <2>2. commit' \in [PG -> Commits \cup {NoCommit}]
    BY <1>4, <2>1, TypeNamed DEF ValidateCommit, LoseSection, StartCommit, Commits
  <2> QED
    BY <1>4, <2>2 DEF ValidateCommit, LoseSection, StartCommit, TypeOK, Commits
<1>5. ASSUME NEW g \in PG, ApplyCommit(g) \/ AbandonCommit(g) PROVE TypeOK'
  <2>1. commit[g] \in Commits
    BY <1>3, <1>5 DEF ApplyCommit, AbandonCommit
  <2>2. commit' \in [PG -> Commits \cup {NoCommit}] /\ objects' \subseteq PG
    BY <1>5, TypeNamed DEF ApplyCommit, AbandonCommit, EndCommit
  <2>3. reservation' \in [Writers -> {"none", "live", "expired"}]
    BY <1>5, TypeNamed DEF ApplyCommit, AbandonCommit, EndCommit
  <2> QED
    BY <1>5, <2>2, <2>3 DEF ApplyCommit, AbandonCommit, EndCommit, TypeOK, Commits
<1> QED
  BY <1>1, <1>2, <1>4, <1>5 DEF Write, FinishCommit

\* The rows of the bucket's PG.
LEMMA RowStepType ==
    ASSUME TypeOK, RowInv,
                   \/ InstallControl \/ FinishControl \/ FinishMark
                   \/ DrainExpires \/ ClearExpired \/ Finalize
    PROVE  TypeOK'
<1> USE DEF rowVars, writeVars
<1>1. CASE InstallControl \/ FinishMark
  BY <1>1 DEF InstallControl, FinishMark, TypeOK
<1>2. CASE FinishControl
  <2>1. generation' \in 0 .. MaxGeneration
    BY <1>2, NumbersAssumption DEF FinishControl, TypeOK, RowInv
  <2> QED
    BY <1>2, <2>1 DEF FinishControl, TypeOK
<1>3. CASE DrainExpires
  BY <1>3 DEF DrainExpires, TypeOK
<1>4. CASE ClearExpired
  BY <1>4, DefaultTypes DEF ClearExpired, TypeOK, Drains
<1>5. CASE Finalize
  <2>1. attempt' \in Attempts
    BY <1>5, TypeNamed, DefaultTypes DEF Finalize, Attempts
  <2> QED
    BY <1>5, <2>1, DefaultTypes DEF Finalize, TypeOK, Drains, Attempts
<1> QED
  BY <1>1, <1>2, <1>3, <1>4, <1>5

\* What a deleter's steps make of its operation.
LEMMA OpTypes ==
    ASSUME TypeOK, NEW d \in Deleters
    PROVE  /\ \A s \in Stages : Goto(d, s) => op' \in [Deleters -> Operations]
           /\ \A s \in Stages, p \in Phases : GotoPhase(d, s, p) => op' \in [Deleters -> Operations]
           /\ Restart(d) => op' \in [Deleters -> Operations]
           /\ Stop(d) => op' \in [Deleters -> Operations]
<1>1. op \in [Deleters -> Operations]
  BY TypeNamed
<1>2. ASSUME NEW s \in Stages, NEW p \in Phases
      PROVE  /\ [op EXCEPT ![d].stage = s] \in [Deleters -> Operations]
             /\ [op EXCEPT ![d].stage = s, ![d].phase = p] \in [Deleters -> Operations]
  BY <1>1 DEF Operations
<1>3. "loop" \in Stages /\ "Initial" \in Phases
  BY DEF Stages, Phases
<1>4. ASSUME NEW s \in Stages, Goto(d, s) PROVE op' \in [Deleters -> Operations]
  BY <1>2, <1>3, <1>4 DEF Goto
<1>5. ASSUME NEW s \in Stages, NEW p \in Phases, GotoPhase(d, s, p) PROVE op' \in [Deleters -> Operations]
  BY <1>2, <1>5 DEF GotoPhase
<1>6. Restart(d) => op' \in [Deleters -> Operations]
  BY <1>1, <1>3, ZenonT(40) DEF Restart, Operations
<1>7. Stop(d) => op' \in [Deleters -> Operations]
  BY <1>1, DefaultTypes DEF Stop
<1> QED
  BY <1>4, <1>5, <1>6, <1>7

\* What a deleter's steps make of the attempt row.
LEMMA AttemptTypes ==
    ASSUME TypeOK, NEW d \in Deleters
    PROVE  /\ Cursor(d) \in 0 .. PGs
           /\ \A out \in Outcomes, p \in Phases : Recorded(d, out, p) \in Attempts
           /\ \A out \in Outcomes, p \in Phases : Record(d, out, p) => attempt' \in Attempts
           /\ \A row \in Attempts, p \in Phases, n \in 0 .. PGs : WithCursor(d, row, p, n) \in Attempts
           /\ \A n \in 0 .. PGs : WithScan(d, n) \in Attempts
<1>1. attempt \in Attempts /\ op[d] \in Operations
  BY TypeNamed
<1>2. /\ attempt.cursor \in 0 .. PGs /\ attempt.scan \in 0 .. PGs /\ op[d].drain \in 0 .. MaxDrains
      /\ 0 \in 0 .. PGs
  BY <1>1, DefaultTypes DEF Attempts, Operations
<1>3. Cursor(d) \in 0 .. PGs
  BY <1>2 DEF Cursor
<1>4. ASSUME NEW out \in Outcomes, NEW p \in Phases PROVE Recorded(d, out, p) \in Attempts
  BY <1>2, <1>3 DEF Recorded, Attempts
<1>5. ASSUME NEW out \in Outcomes, NEW p \in Phases, Record(d, out, p) PROVE attempt' \in Attempts
  BY <1>1, <1>4, <1>5 DEF Record
<1>6. "Retryable" \in Outcomes /\ "FinalVisibilityCheck" \in Phases
  BY DEF Outcomes, Phases
<1>7. ASSUME NEW row \in Attempts, NEW p \in Phases, NEW n \in 0 .. PGs PROVE WithCursor(d, row, p, n) \in Attempts
  BY <1>2, <1>6 DEF WithCursor, Attempts
<1>8. ASSUME NEW n \in 0 .. PGs PROVE WithScan(d, n) \in Attempts
  BY <1>2, <1>3, <1>6 DEF WithScan, Attempts
<1> QED
  BY <1>3, <1>4, <1>5, <1>7, <1>8

\* Where an attempt resumes.
LEMMA EntryTypes ==
    /\ \A p \in Phases : Entry[p] \in Stages
    /\ \A id \in 0 .. MaxDrains : attempt \in Attempts => ResumeFrom(id) \in Phases
<1>1. \A p \in Phases : Entry[p] \in Stages
  BY DEF Entry, Stages, Phases
<1>2. \A id \in 0 .. MaxDrains : attempt \in Attempts => ResumeFrom(id) \in Phases
  BY DEF ResumeFrom, Attempts, Phases
<1> QED
  BY <1>1, <1>2

\* Beginning, adopting and clearing drains.
LEMMA EnterType ==
    ASSUME TypeOK, NEW d \in Deleters, BeginDrain(d) \/ AdoptDrain(d) \/ ClearStale(d)
    PROVE  TypeOK'
<1> USE DEF rowVars, writeVars
<1>0. /\ op \in [Deleters -> Operations] /\ attempt \in Attempts /\ drain \in Drains
      /\ drains \in 0 .. MaxDrains /\ attempts \in 0 .. MaxAttempts /\ generation \in 0 .. MaxGeneration
      /\ drain.id \in 0 .. MaxDrains
  BY TypeNamed DEF Drains
<1>1. ASSUME NEW id \in 0 .. MaxDrains, Enter(d, id), attempts < MaxAttempts
      PROVE  op' \in [Deleters -> Operations] /\ attempts' \in 0 .. MaxAttempts /\ current' \subseteq Deleters
  <2>1. PICK p \in Phases : p = ResumeFrom(id)
    BY <1>0, EntryTypes
  <2>2. [Idle EXCEPT !.stage = "loop", !.drain = id, !.from = p] \in Operations
    BY DefaultTypes DEF Operations, Stages
  <2>3. attempts + 1 \in 0 .. MaxAttempts
    BY <1>0, <1>1, NumbersAssumption
  <2> QED
    BY <1>0, <1>1, <2>1, <2>2, <2>3 DEF Enter
<1>2. CASE BeginDrain(d)
  <2>1. drains + 1 \in 0 .. MaxDrains
    BY <1>0, <1>2, NumbersAssumption DEF BeginDrain
  <2>2. drain' \in Drains
    BY <1>0, <1>2, <2>1 DEF BeginDrain, Drains
  <2>3. op' \in [Deleters -> Operations] /\ attempts' \in 0 .. MaxAttempts /\ current' \subseteq Deleters
    BY <1>1, <1>2, <2>1 DEF BeginDrain
  <2> QED
    BY <1>2, <2>1, <2>2, <2>3 DEF BeginDrain, TypeOK, Drains, Operations
<1>3. CASE AdoptDrain(d)
  <2>1. op' \in [Deleters -> Operations] /\ attempts' \in 0 .. MaxAttempts /\ current' \subseteq Deleters
    BY <1>0, <1>1, <1>3 DEF AdoptDrain
  <2> QED
    BY <1>3, <2>1 DEF AdoptDrain, TypeOK, Operations
<1>4. CASE ClearStale(d)
  <2>1. attempt' \in Attempts
    <3>1. /\ attempt.cursor \in 0 .. PGs /\ attempt.scan \in 0 .. PGs /\ 0 \in 0 .. PGs
          /\ "StaleGeneration" \in Outcomes /\ "Initial" \in Phases
      BY <1>0, DefaultTypes DEF Attempts, Outcomes, Phases
    <3> QED
      BY <1>0, <1>4, <3>1 DEF ClearStale, Attempts
  <2> QED
    BY <1>4, <2>1, DefaultTypes DEF ClearStale, TypeOK, Drains, Attempts
<1> QED
  BY <1>2, <1>3, <1>4

\* The steps of an attempt.
LEMMA AttemptStepType ==
    ASSUME TypeOK, NEW d \in Deleters, Delete(d), ~(BeginDrain(d) \/ AdoptDrain(d) \/ ClearStale(d))
    PROVE  TypeOK'
<1> USE DEF rowVars, writeVars
<1>0. /\ op \in [Deleters -> Operations] /\ attempt \in Attempts /\ drain \in Drains /\ op[d] \in Operations
      /\ op[d].phase \in Phases /\ op[d].from \in Phases /\ op[d].next \in 0 .. PGs /\ op[d].drain \in 0 .. MaxDrains
  BY TypeNamed DEF Operations
<1>1. op' \in [Deleters -> Operations]
  <2>1. CASE LoopProceed(d)
    <3>1. Entry[op[d].from] \in Stages /\ Cursor(d) \in 0 .. PGs
      BY <1>0, EntryTypes, AttemptTypes
    <3> QED
      BY <1>0, <2>1, <3>1 DEF LoopProceed, Operations, Phases
  <2>2. CASE LoopControl(d) \/ LoopMark(d)
    BY <1>0, <2>2 DEF LoopControl, LoopMark, Operations, Stages, Phases
  <2>3. ASSUME NEW n \in {1, 2}, Probe(d, n) PROVE op' \in [Deleters -> Operations]
    <3>1. op[d].next + 1 \in 0 .. PGs
      BY <2>3, DefaultTypes DEF Probe
    <3>2. <<"record1", "record2">>[n] \in Stages
      BY DEF Stages
    <3> QED
      BY <1>0, <2>3, <3>1, <3>2 DEF Probe, Operations
  <2>4. ASSUME NEW n \in {1, 2}, RecordCursor(d, n) \/ Probed(d, n) \/ Recheck(d, n) PROVE op' \in [Deleters -> Operations]
    <3>1. <<"probe1", "probe2">>[n] \in Stages /\ {"recheck1", "cleanup2", "cleanup1", "check"} \subseteq Stages
          /\ {"PostReservationStreamCleanup", "StreamCleanup", "FinalVisibilityCheck"} \subseteq Phases
      BY DEF Stages, Phases
    <3> QED
      BY <2>4, <3>1, OpTypes DEF RecordCursor, Probed, Recheck
  <2>5. CASE Cleanup(d) \/ StartWait(d) \/ Scanned(d) \/ StartMark(d) \/ StartFinish(d)
    <3>1. /\ {"cleaned", "waiting", "proven", "install", "finishing"} \subseteq Stages
          /\ {"StreamCleanup", "ReservationWait", "FinalVisibilityProven"} \subseteq Phases
      BY DEF Stages, Phases
    <3> QED
      BY <2>5, <3>1, OpTypes DEF Cleanup, StartWait, Scanned, StartMark, StartFinish
  <2>6. CASE Cleaned(d) \/ Cleanup2(d) \/ RecordProven(d)
    BY <1>0, <2>6 DEF Cleaned, Cleanup2, RecordProven, Operations, Stages, Phases
  <2>7. CASE Waited(d)
    <3>1. Cursor(d) \in 0 .. PGs
      BY AttemptTypes
    <3> QED
      BY <1>0, <2>7, <3>1 DEF Waited, Operations, Stages, Phases
  <2>8. CASE StartCheck(d)
    <3>1. attempt' \in Attempts
      BY <2>8, AttemptTypes DEF StartCheck, Outcomes, Phases
    <3>2. PICK n \in 0 .. PGs : n = IF attempt'.drain = op[d].drain /\ attempt'.phase = "FinalVisibilityCheck" THEN attempt'.scan ELSE 0
      BY <3>1, DefaultTypes DEF Attempts
    <3> QED
      BY <1>0, <2>8, <3>2 DEF StartCheck, Operations, Stages, Phases
  <2>9. CASE Scan(d)
    <3>1. op[d].next + 1 \in 0 .. PGs
      BY <2>9, DefaultTypes DEF Scan
    <3>2. [op EXCEPT ![d].next = op[d].next + 1] \in [Deleters -> Operations]
      BY <1>0, <3>1 DEF Operations
    <3>3. "notempty" \in Stages
      BY DEF Stages
    <3> QED
      BY <2>9, <3>2, <3>3, OpTypes DEF Scan
  <2>10. CASE RecordNotEmpty(d) \/ FailKeeping(d) \/ FailRollingBack(d)
    BY <2>10, OpTypes DEF RecordNotEmpty, FailKeeping, FailRollingBack
  <2>11. CASE InstallMark(d) \/ Finish(d)
    <3>1. "finish" \in Stages /\ "MarkDeleting" \in Phases
      BY DEF Stages, Phases
    <3> QED
      BY <2>11, <3>1, OpTypes DEF InstallMark, Finish
  <2>12. ASSUME NEW w \in Writers, ReleaseExpired(d, w) PROVE op' \in [Deleters -> Operations]
    BY <1>0, <2>12 DEF ReleaseExpired
  <2> QED
    BY <2>1, <2>2, <2>3, <2>4, <2>5, <2>6, <2>7, <2>8, <2>9, <2>10, <2>11, <2>12 DEF Delete
<1>2. attempt' \in Attempts
  <2>0. Outcomes = {"Retryable", "NotEmpty", "StaleGeneration", "MarkDeleting"} /\ {"StreamCleanup", "ReservationWait", "PostReservationStreamCleanup", "FinalVisibilityCheck", "FinalVisibilityProven", "MarkDeleting"} \subseteq Phases
    BY DEF Outcomes, Phases
  <2>1. CASE UNCHANGED attempt
    BY <1>0, <2>1
  <2>2. ASSUME NEW n \in {1, 2}, RecordCursor(d, n) PROVE attempt' \in Attempts
    BY <1>0, <2>2, AttemptTypes DEF RecordCursor
  <2>3. CASE Cleanup(d)
    BY <1>0, <2>0, <2>3, AttemptTypes, DefaultTypes, SMTT(30) DEF Cleanup
  <2>4. CASE \E out \in Outcomes, p \in Phases : Record(d, out, p)
    BY <2>4, AttemptTypes
  <2>5. CASE Scan(d)
    BY <1>0, <2>5, AttemptTypes, DefaultTypes DEF Scan
  <2>6. CASE RecordProven(d)
    BY <2>0, <2>6, AttemptTypes DEF RecordProven
  <2>7. CASE Cleaned(d) \/ Cleanup2(d) \/ StartCheck(d) \/ RecordNotEmpty(d) \/ InstallMark(d) \/ Finish(d) \/ FailKeeping(d)
    BY <1>0, <2>0, <2>1, <2>4, <2>7 DEF Cleaned, Cleanup2, StartCheck, RecordNotEmpty, InstallMark, Finish, FailKeeping
  <2> QED
    BY <2>1, <2>2, <2>3, <2>5, <2>6, <2>7
       DEF Delete, LoopProceed, LoopControl, LoopMark, Probe, Probed, Recheck, StartWait, ReleaseExpired, Waited,
           Scanned, StartMark, StartFinish, FailRollingBack
<1>3. drain' \in Drains /\ current' \subseteq Deleters /\ slot' \in {"None", "Control", "Mark"}
  <2>1. CASE UNCHANGED <<drain, slot>> /\ current' \in {current, {d}}
    BY <1>0, <2>1 DEF TypeOK
  <2>2. CASE drain' = NoDrain /\ current' = {} /\ UNCHANGED slot
    BY <2>2, DefaultTypes DEF TypeOK
  <2>3. CASE InstallMark(d)
    BY <1>0, <2>3 DEF InstallMark, TypeOK
  <2> QED
    BY <2>1, <2>2, <2>3
       DEF Delete, LoopProceed, LoopControl, LoopMark, Probe, RecordCursor, Probed, Recheck, Cleanup, Cleaned, StartWait,
           ReleaseExpired, Waited, Cleanup2, StartCheck, Scan, Scanned, RecordNotEmpty, RecordProven, StartMark,
           StartFinish, Finish, FailKeeping, FailRollingBack, Heartbeat
<1>4. reservation' \in [Writers -> {"none", "live", "expired"}]
  BY DEF TypeOK, Delete, LoopProceed, LoopControl, LoopMark, Probe, RecordCursor, Probed, Recheck, Cleanup, Cleaned,
         StartWait, ReleaseExpired, Waited, Cleanup2, StartCheck, Scan, Scanned, RecordNotEmpty, RecordProven, StartMark,
         InstallMark, StartFinish, Finish, FailKeeping, FailRollingBack
<1>5. UNCHANGED <<bucket, generation, drains, wrote, commit, objects, attempts>>
  BY DEF Delete, LoopProceed, LoopControl, LoopMark, Probe, RecordCursor, Probed, Recheck, Cleanup, Cleaned,
         StartWait, ReleaseExpired, Waited, Cleanup2, StartCheck, Scan, Scanned, RecordNotEmpty, RecordProven, StartMark,
         InstallMark, StartFinish, Finish, FailKeeping, FailRollingBack
<1> QED
  BY <1>1, <1>2, <1>3, <1>4, <1>5 DEF TypeOK, Operations, Attempts, Drains

LEMMA TypeStep ==
    ASSUME TypeOK, RowInv, [Next]_vars
    PROVE  TypeOK'
<1>1. CASE UNCHANGED vars
  BY <1>1 DEF vars, rowVars, writeVars, TypeOK
<1> QED
  BY <1>1, WriteType, RowStepType, EnterType, AttemptStepType DEF Next

-----------------------------------------------------------------------------
(***************************************************************************)
(* Rows and stages.                                                        *)
(***************************************************************************)

\* A deleter changes its own operation only.
LEMMA OthersKept ==
    ASSUME TypeOK, NEW d \in Deleters, Delete(d)
    PROVE  \A e \in Deleters \ {d} : op'[e] = op[e]
BY SMTT(90)
   DEF TypeOK, Delete, BeginDrain, AdoptDrain, ClearStale, Enter, LoopProceed, LoopControl, LoopMark, Probe, RecordCursor,
       Probed, Recheck, Cleanup, Cleaned, StartWait, ReleaseExpired, Waited, Cleanup2, StartCheck, Scan, Scanned,
       RecordNotEmpty, RecordProven, StartMark, InstallMark, StartFinish, Finish, FailKeeping, FailRollingBack,
       Goto, GotoPhase, Restart, Stop

\* Everything else leaves the operations alone.
LEMMA OthersIdle ==
    ASSUME [Next]_vars
    PROVE  \/ \E d \in Deleters : Delete(d)
           \/ UNCHANGED op
BY DEF Next, Write, Acquire, ReservationExpires, Release, InstallCommit, FinishCommit, ValidateCommit, LoseSection,
       StartCommit, ApplyCommit, AbandonCommit, EndCommit, InstallControl, FinishControl, FinishMark, DrainExpires,
       ClearExpired, Finalize, vars, rowVars, writeVars

\* A deleter keeps the drain it entered with until it stops.
LEMMA OwnDrain ==
    ASSUME TypeOK, RowInv, NEW d \in Deleters, Delete(d)
    PROVE  \/ op'[d] = Idle
           \/ op'[d].drain = op[d].drain
           \/ /\ op[d].stage = "idle" /\ op'[d].stage = "loop" /\ op'[d].phase = "Initial"
              /\ op'[d].drain = drain'.id /\ drain'.id # 0 /\ op'[d].from = ResumeFrom(op'[d].drain)
              /\ BeginDrain(d) \/ (AdoptDrain(d) /\ UNCHANGED drain)
<1> USE DEF rowVars, writeVars
<1>0. op \in [Deleters -> Operations] /\ op[d] \in Operations
  BY TypeNamed
<1>1. CASE BeginDrain(d)
  <2>1. op'[d] = [Idle EXCEPT !.stage = "loop", !.drain = drains + 1, !.from = ResumeFrom(drains + 1)]
    BY <1>0, <1>1 DEF BeginDrain, Enter
  <2>2. drain'.id = drains + 1 /\ drains + 1 # 0
    BY <1>1 DEF BeginDrain, TypeOK
  <2> QED
    BY <1>1, <2>1, <2>2 DEF BeginDrain, Idle
<1>2. CASE AdoptDrain(d) /\ drain.id # 0
  <2>1. op'[d] = [Idle EXCEPT !.stage = "loop", !.drain = drain.id, !.from = ResumeFrom(drain.id)]
    BY <1>0, <1>2 DEF AdoptDrain, Enter
  <2> QED
    BY <1>2, <2>1 DEF AdoptDrain, Idle
<1>3. ~(AdoptDrain(d) /\ drain.id = 0)
  BY DEF AdoptDrain, RowInv
<1> QED
  BY <1>0, <1>1, <1>2, <1>3, SMTT(90)
     DEF Delete, ClearStale, LoopProceed, LoopControl, LoopMark, Probe, RecordCursor,
       Probed, Recheck, Cleanup, Cleaned, StartWait, ReleaseExpired, Waited, Cleanup2, StartCheck, Scan, Scanned,
       RecordNotEmpty, RecordProven, StartMark, InstallMark, StartFinish, Finish, FailKeeping, FailRollingBack,
       Goto, GotoPhase, Restart, Stop, Operations

LEMMA FlowStep ==
    ASSUME Inv, [Next]_vars
    PROVE  FlowInv'
<1> USE DEF Inv
<1>1. ASSUME NEW d \in Deleters, Delete(d) PROVE FlowOK(op'[d])
  <2>0. op \in [Deleters -> Operations] /\ op[d] \in Operations /\ FlowOK(op[d])
    BY TypeNamed DEF FlowInv
  <2>1. CASE op'[d] = Idle
    BY <2>1 DEF FlowOK, Idle
  <2>2. CASE BeginDrain(d) \/ AdoptDrain(d)
    <3>1. PICK id \in 0 .. MaxDrains : op'[d] = [Idle EXCEPT !.stage = "loop", !.drain = id, !.from = ResumeFrom(id)]
      <4>1. drain.id \in 0 .. MaxDrains
        BY DEF TypeOK
      <4>2. BeginDrain(d) => drains + 1 \in 0 .. MaxDrains
        BY NumbersAssumption DEF TypeOK, BeginDrain
      <4> QED
        BY <2>0, <2>2, <4>1, <4>2 DEF BeginDrain, AdoptDrain, Enter
    <3>2. ResumeFrom(id) # "MarkDeleting"
      BY DEF ResumeFrom
    <3> QED
      BY <3>1, <3>2 DEF FlowOK, Idle
  <2>3. CASE LoopProceed(d)
    <3>1. /\ op'[d].stage = Entry[op[d].from] /\ op'[d].from = op[d].from
          /\ op'[d].phase = IF op[d].from = "PostReservationObjectDrain" THEN op[d].from ELSE "Initial"
      BY <2>0, <2>3 DEF LoopProceed, Operations
    <3>2. op[d].from \in Phases
      BY <2>0 DEF Operations
    <3> QED
      BY <2>0, <3>1, <3>2 DEF FlowOK, Entry, Phases
  <2>4. CASE LoopControl(d) \/ LoopMark(d)
    BY <2>0, <2>4 DEF LoopControl, LoopMark, FlowOK, Operations
  <2>5. ASSUME NEW n \in {1, 2}, Probe(d, n) \/ RecordCursor(d, n) PROVE FlowOK(op'[d])
    <3>1. CASE n = 1
      BY <2>0, <2>5, <3>1 DEF Probe, RecordCursor, Goto, FlowOK, Operations
    <3>2. CASE n = 2
      BY <2>0, <2>5, <3>2 DEF Probe, RecordCursor, Goto, FlowOK, Operations
    <3> QED
      BY <3>1, <3>2
  <2>6. ASSUME NEW n \in {1, 2}, Probed(d, n) \/ Recheck(d, n) PROVE FlowOK(op'[d])
    <3>1. CASE n = 1
      BY <2>0, <2>6, <3>1 DEF Probed, Recheck, Goto, GotoPhase, Restart, FlowOK, Operations
    <3>2. CASE n = 2
      BY <2>0, <2>6, <3>2 DEF Probed, Recheck, Goto, GotoPhase, Restart, FlowOK, Operations
    <3> QED
      BY <3>1, <3>2
  <2>7. CASE Cleanup(d) \/ Cleaned(d) \/ StartWait(d) \/ Waited(d) \/ Cleanup2(d)
    BY <2>0, <2>7 DEF Cleanup, Cleaned, StartWait, Waited, Cleanup2, GotoPhase, FlowOK, Operations
  <2>8. CASE StartCheck(d) \/ Scan(d) \/ Scanned(d) \/ RecordProven(d) \/ StartMark(d)
    BY <2>0, <2>8 DEF StartCheck, Scan, Scanned, RecordProven, StartMark, Goto, GotoPhase, FlowOK, Operations
  <2>9. CASE InstallMark(d) \/ StartFinish(d) \/ Finish(d)
    BY <2>0, <2>1, <2>9 DEF InstallMark, StartFinish, Finish, Goto, GotoPhase, Restart, Stop, FlowOK, Operations
  <2>10. CASE RecordNotEmpty(d) \/ FailKeeping(d) \/ FailRollingBack(d)
    BY <2>0, <2>1, <2>10 DEF RecordNotEmpty, FailKeeping, FailRollingBack, Stop
  <2>11. CASE ClearStale(d) \/ \E w \in Writers : ReleaseExpired(d, w)
    BY <2>0, <2>11 DEF ClearStale, ReleaseExpired
  <2> QED
    BY <1>1, <2>2, <2>3, <2>4, <2>5, <2>6, <2>7, <2>8, <2>9, <2>10, <2>11 DEF Delete
<1>2. CASE \E d \in Deleters : Delete(d)
  <2>1. PICK d \in Deleters : Delete(d)
    BY <1>2
  <2> QED
    BY <1>1, <2>1, OthersKept DEF FlowInv
<1>3. CASE UNCHANGED op
  BY <1>3 DEF FlowInv
<1> QED
  BY <1>2, <1>3, OthersIdle

\* How a step moves the drain.
LEMMA DrainMoves ==
    ASSUME TypeOK, RowInv, [Next]_vars
    PROVE  \/ /\ drain'.id = drain.id /\ drains' = drains
              /\ drain.id # 0 => \A w \in Writers : reservation[w] = "none" => reservation'[w] = "none"
              /\ drain.live = FALSE => drain'.live = FALSE
           \/ drain' = NoDrain /\ drains' = drains /\ slot' = "None" /\ UNCHANGED op
           \/ drain' = NoDrain /\ drains' = drains /\ slot' = "None" /\ \E d \in Deleters : Delete(d) /\ op'[d] = Idle
           \/ drain.id = 0 /\ drains' = drains + 1 /\ drain'.id = drains + 1 /\ \E d \in Deleters : BeginDrain(d)
<1> USE DEF rowVars, writeVars
<1>0. op \in [Deleters -> Operations] /\ drain \in Drains
  BY TypeNamed
<1>1. CASE \E w \in Writers : Write(w)
  BY <1>1 DEF Write, Acquire, ReservationExpires, Release, InstallCommit, TypeOK
<1>2. CASE \E g \in PG : FinishCommit(g)
  BY <1>2 DEF FinishCommit, ValidateCommit, LoseSection, StartCommit, ApplyCommit, AbandonCommit, EndCommit, TypeOK
<1>3. CASE InstallControl \/ FinishControl \/ FinishMark \/ UNCHANGED vars
  BY <1>3 DEF InstallControl, FinishControl, FinishMark, vars
<1>4. CASE DrainExpires
  BY <1>0, <1>4 DEF DrainExpires, Drains
<1>5. CASE ClearExpired \/ Finalize
  BY <1>5 DEF ClearExpired, Clearable, Finalize
<1>6. ASSUME NEW d \in Deleters, Delete(d)
      PROVE  \/ UNCHANGED <<drain, drains, reservation>>
             \/ UNCHANGED <<drain, drains>> /\ \E w \in Writers : reservation' = [reservation EXCEPT ![w] = "none"]
             \/ drain' = NoDrain /\ drains' = drains /\ slot' = "None" /\ UNCHANGED op
             \/ drain' = NoDrain /\ drains' = drains /\ slot' = "None" /\ op'[d] = Idle
             \/ BeginDrain(d)
  BY <1>0, <1>6
     DEF Delete, AdoptDrain, ClearStale, LoopProceed, LoopControl, LoopMark, Probe, RecordCursor,
       Probed, Recheck, Cleanup, Cleaned, StartWait, ReleaseExpired, Waited, Cleanup2, StartCheck, Scan, Scanned,
       RecordNotEmpty, RecordProven, StartMark, InstallMark, StartFinish, Finish, FailKeeping, FailRollingBack, Stop
<1>7. CASE \E d \in Deleters : Delete(d)
  <2>1. PICK d \in Deleters : Delete(d)
    BY <1>7
  <2>2. CASE UNCHANGED <<drain, drains, reservation>>
    BY <2>2
  <2>3. CASE UNCHANGED <<drain, drains>> /\ \E w \in Writers : reservation' = [reservation EXCEPT ![w] = "none"]
    BY <2>3 DEF TypeOK
  <2>4. CASE BeginDrain(d)
    BY <2>4 DEF BeginDrain
  <2> QED
    BY <1>6, <2>1, <2>2, <2>3, <2>4
<1> QED
  BY <1>1, <1>2, <1>3, <1>4, <1>5, <1>7 DEF Next

\* What a step writes into the attempt row.
RowKept(d) ==
    /\ attempt.drain = op[d].drain /\ attempt'.drain = attempt.drain
    /\ attempt'.phase = attempt.phase /\ attempt'.outcome = attempt.outcome
    /\ attempt'.scan = attempt.scan

RowWritten(d) ==
    /\ attempt'.drain = op[d].drain
    /\ attempt'.cursor \in {Cursor(d), op[d].next} \/ attempt'.cursor = 0
    /\ \/ /\ attempt'.outcome = "Retryable"
          /\ \/ attempt'.phase = op[d].phase
             \/ attempt'.phase = "StreamCleanup"
             \/ attempt'.phase = "ReservationWait" /\ op[d].stage = "cleaned"
             \/ attempt'.phase = "PostReservationStreamCleanup" /\ op[d].stage = "cleanup2"
             \/ attempt'.phase = "FinalVisibilityCheck" /\ op[d].stage \in {"check", "scan"}
             \/ attempt'.phase = "FinalVisibilityProven" /\ op[d].stage = "proven"
       \/ attempt'.outcome = "NotEmpty" /\ attempt'.phase = "FinalVisibilityCheck" /\ op[d].stage = "notempty"
       \/ attempt'.outcome = "MarkDeleting" /\ attempt'.phase = "MarkDeleting" /\ bucket # "Active"

LEMMA AttemptMoves ==
    ASSUME TypeOK, [Next]_vars
    PROVE  \/ UNCHANGED attempt
           \/ /\ attempt'.drain = 0 /\ attempt'.outcome = attempt.outcome /\ attempt'.phase = attempt.phase
              /\ drain' = NoDrain /\ UNCHANGED op
           \/ /\ attempt'.drain = drain.id /\ attempt'.outcome = "StaleGeneration" /\ attempt'.phase = "Initial"
              /\ drain' = NoDrain /\ UNCHANGED op
           \/ \E d \in Deleters : Delete(d) /\ (RowKept(d) \/ RowWritten(d))
<1> USE DEF rowVars, writeVars
<1>0. attempt \in Attempts
  BY TypeNamed
<1>1. ASSUME NEW d \in Deleters, NEW p \in Phases, NEW n \in 0 .. PGs, attempt' = WithCursor(d, attempt, p, n),
             p \in {op[d].phase, "StreamCleanup"}, n \in {0, op[d].next}
      PROVE  RowKept(d) \/ RowWritten(d)
  <2>1. CASE attempt.drain = op[d].drain
    BY <1>0, <1>1, <2>1 DEF WithCursor, RowKept, Attempts
  <2>2. CASE attempt.drain # op[d].drain
    BY <1>1, <2>2 DEF WithCursor, RowWritten
  <2> QED
    BY <2>1, <2>2
<1>2. ASSUME NEW d \in Deleters, NEW n \in {1, 2}, RecordCursor(d, n) PROVE RowKept(d) \/ RowWritten(d)
  <2>1. op[d].phase \in Phases /\ op[d].next \in 0 .. PGs
    BY TypeNamed DEF Operations
  <2> QED
    BY <1>1, <1>2, <2>1 DEF RecordCursor
<1>3. ASSUME NEW d \in Deleters, Cleanup(d) PROVE RowKept(d) \/ RowWritten(d)
  <2>1. PICK row \in {attempt, Recorded(d, "Retryable", "StreamCleanup")} : attempt' = WithCursor(d, row, "StreamCleanup", 0)
    BY <1>3 DEF Cleanup
  <2>2. CASE row = attempt
    BY <1>1, <2>1, <2>2, DefaultTypes DEF Phases
  <2>3. CASE row = Recorded(d, "Retryable", "StreamCleanup")
    BY <2>1, <2>3 DEF WithCursor, Recorded, RowWritten
  <2> QED
    BY <2>1, <2>2, <2>3
<1>4. ASSUME NEW d \in Deleters, NEW out, NEW p, Record(d, out, p),
             \/ out = "Retryable" /\ p = op[d].phase
             \/ out = "Retryable" /\ p = "ReservationWait" /\ op[d].stage = "cleaned"
             \/ out = "Retryable" /\ p = "PostReservationStreamCleanup" /\ op[d].stage = "cleanup2"
             \/ out = "Retryable" /\ p = "FinalVisibilityCheck" /\ op[d].stage = "check"
             \/ out = "NotEmpty" /\ p = "FinalVisibilityCheck" /\ op[d].stage = "notempty"
             \/ out = "MarkDeleting" /\ p = "MarkDeleting" /\ bucket # "Active"
      PROVE  UNCHANGED attempt \/ RowWritten(d)
  BY <1>4 DEF Record, Recorded, RowWritten
<1>5. ASSUME NEW d \in Deleters, Cleaned(d) \/ Cleanup2(d) \/ StartCheck(d) \/ RecordNotEmpty(d) \/ FailKeeping(d)
                                  \/ InstallMark(d) \/ Finish(d)
      PROVE  UNCHANGED attempt \/ RowWritten(d)
  <2>1. CASE Cleaned(d)
    BY <1>4, <2>1 DEF Cleaned
  <2>2. CASE Cleanup2(d)
    BY <1>4, <2>2 DEF Cleanup2
  <2>3. CASE StartCheck(d)
    BY <1>4, <2>3 DEF StartCheck
  <2>4. CASE RecordNotEmpty(d)
    BY <1>4, <2>4 DEF RecordNotEmpty
  <2>5. CASE FailKeeping(d)
    BY <1>4, <2>5 DEF FailKeeping
  <2>6. CASE InstallMark(d)
    BY <1>4, <2>6 DEF InstallMark
  <2>7. CASE Finish(d)
    BY <1>4, <2>7 DEF Finish
  <2> QED
    BY <1>5, <2>1, <2>2, <2>3, <2>4, <2>5, <2>6, <2>7
<1>6. ASSUME NEW d \in Deleters, Scan(d) \/ RecordProven(d) PROVE UNCHANGED attempt \/ RowWritten(d)
  BY <1>6 DEF Scan, RecordProven, WithScan, Recorded, RowWritten
<1>7. ASSUME NEW d \in Deleters, ClearStale(d)
      PROVE  \/ UNCHANGED attempt
             \/ /\ attempt'.drain = drain.id /\ attempt'.outcome = "StaleGeneration" /\ attempt'.phase = "Initial"
                /\ drain' = NoDrain /\ UNCHANGED op
  BY <1>7 DEF ClearStale
<1>8. ASSUME NEW d \in Deleters, Delete(d)
      PROVE  \/ UNCHANGED attempt \/ RowKept(d) \/ RowWritten(d)
             \/ /\ attempt'.drain = drain.id /\ attempt'.outcome = "StaleGeneration" /\ attempt'.phase = "Initial"
                /\ drain' = NoDrain /\ UNCHANGED op
  <2>1. ASSUME ~UNCHANGED attempt
        PROVE  \/ ClearStale(d) \/ (\E n \in {1, 2} : RecordCursor(d, n)) \/ Cleanup(d) \/ Scan(d) \/ RecordProven(d)
               \/ Cleaned(d) \/ Cleanup2(d) \/ StartCheck(d) \/ RecordNotEmpty(d) \/ FailKeeping(d)
               \/ InstallMark(d) \/ Finish(d)
    BY <1>8, <2>1
       DEF Delete, BeginDrain, AdoptDrain, LoopProceed, LoopControl, LoopMark, Probe, Probed, Recheck, StartWait,
           ReleaseExpired, Waited, Scanned, StartMark, StartFinish, FailRollingBack
  <2> QED
    BY <1>2, <1>3, <1>5, <1>6, <1>7, <2>1
<1>9. CASE Finalize
  BY <1>0, <1>9 DEF Finalize, Attempts
<1>10. CASE \E d \in Deleters : Delete(d)
  BY <1>8, <1>10
<1>11. ASSUME ~Finalize, ~\E d \in Deleters : Delete(d) PROVE UNCHANGED attempt
  BY <1>11 DEF Next, Write, Acquire, ReservationExpires, Release, InstallCommit, FinishCommit, ValidateCommit, LoseSection,
       StartCommit, ApplyCommit, AbandonCommit, EndCommit, InstallControl, FinishControl, FinishMark, DrainExpires,
       ClearExpired, vars
<1> QED
  BY <1>9, <1>10, <1>11

\* How a step moves the pending command and the state of the bucket.
LEMMA SlotMoves ==
    ASSUME [Next]_vars
    PROVE  \/ UNCHANGED <<slot, bucket, generation>>
           \/ InstallControl \/ FinishControl \/ FinishMark \/ Finalize
           \/ \E d \in Deleters : InstallMark(d)
<1> USE DEF rowVars, writeVars
<1>1. ASSUME NEW d \in Deleters, Delete(d), ~InstallMark(d) PROVE UNCHANGED <<slot, bucket, generation>>
  BY <1>1
     DEF Delete, BeginDrain, AdoptDrain, ClearStale, LoopProceed, LoopControl, LoopMark, Probe, RecordCursor, Probed,
         Recheck, Cleanup, Cleaned, StartWait, ReleaseExpired, Waited, Cleanup2, StartCheck, Scan, Scanned,
         RecordNotEmpty, RecordProven, StartMark, StartFinish, Finish, FailKeeping, FailRollingBack
<1>2. ASSUME NEW w \in Writers, Write(w) PROVE UNCHANGED <<slot, bucket, generation>>
  BY <1>2 DEF Write, Acquire, ReservationExpires, Release, InstallCommit
<1>3. ASSUME NEW g \in PG, FinishCommit(g) PROVE UNCHANGED <<slot, bucket, generation>>
  BY <1>3 DEF FinishCommit, ValidateCommit, LoseSection, StartCommit, ApplyCommit, AbandonCommit, EndCommit
<1>4. DrainExpires \/ ClearExpired \/ UNCHANGED vars => UNCHANGED <<slot, bucket, generation>>
  BY DEF DrainExpires, ClearExpired, vars
<1> QED
  BY <1>1, <1>2, <1>3, <1>4 DEF Next

LEMMA RowStep ==
    ASSUME Inv, TypeOK', [Next]_vars
    PROVE  RowInv' /\ AttemptInv'
<1> USE DEF Inv
<1>0. /\ drains \in Nat /\ drains' \in Nat /\ op \in [Deleters -> Operations] /\ op' \in [Deleters -> Operations]
      /\ attempt.drain \in Nat /\ drain \in Drains /\ generation \in Nat
  <2>1. TypeOK /\ TypeOK'
    OBVIOUS
  <2>2. op' \in [Deleters -> Operations]
    BY DEF TypeOK, Operations
  <2> QED
    BY <2>1, <2>2, NumbersAssumption DEF TypeOK, Operations, Drains
<1>a. drains' = drains \/ drains' = drains + 1
  BY DrainMoves
<1>1. drains <= drains'
  BY <1>0, <1>a
<1>2. drain'.id \in {0, drains'}
  <2>1. \/ drain'.id = drain.id /\ drains' = drains
        \/ drain' = NoDrain
        \/ drains' = drains + 1 /\ drain'.id = drains + 1
    BY DrainMoves
  <2> QED
    BY <2>1 DEF RowInv, NoDrain
<1>3. drain'.live => drain'.id # 0
  <2>1. \/ drain'.id = drain.id /\ (drain.live = FALSE => drain'.live = FALSE)
        \/ drain' = NoDrain
        \/ drain'.id = drains + 1
    BY DrainMoves
  <2>2. drain.live = FALSE \/ drain.id # 0
    BY <1>0 DEF RowInv, Drains
  <2>3. drains + 1 # 0
    BY <1>0
  <2>4. NoDrain.live = FALSE
    BY DEF NoDrain
  <2> QED
    BY <2>1, <2>2, <2>3, <2>4
<1>4. \A d \in Deleters : op'[d].drain <= drains'
  <2>1. ASSUME NEW d \in Deleters, Delete(d) PROVE op'[d].drain <= drains'
    <3>1. CASE op'[d] = Idle
      BY <1>0, <3>1 DEF Idle
    <3>2. CASE op'[d].drain = op[d].drain
      <4>1. op[d].drain \in Nat
        BY <1>0 DEF Operations
      <4> QED
        BY <1>0, <1>1, <3>2, <4>1 DEF RowInv
    <3>3. CASE op'[d].drain = drain'.id
      BY <1>0, <1>2, <3>3
    <3> QED
      BY <2>1, <3>1, <3>2, <3>3, OwnDrain
  <2>2. \A d \in Deleters : op[d].drain <= drains'
    <3>1. \A d \in Deleters : op[d].drain \in Nat
      BY <1>0 DEF Operations
    <3> QED
      BY <1>0, <1>1, <3>1 DEF RowInv
  <2> QED
    BY <2>1, <2>2, OthersIdle, OthersKept
<1>5. attempt'.drain <= drains'
  <2>1. attempt.drain <= drains'
    BY <1>0, <1>1 DEF RowInv
  <2>2. drain.id <= drains'
    BY <1>0, <1>1 DEF RowInv
  <2>3. \A d \in Deleters : op[d].drain <= drains'
    <3>1. \A d \in Deleters : op[d].drain \in Nat
      BY <1>0 DEF Operations
    <3> QED
      BY <1>0, <1>1, <3>1 DEF RowInv
  <2>4. 0 <= drains'
    BY <1>0
  <2> QED
    BY <2>1, <2>2, <2>3, <2>4, AttemptMoves DEF RowKept, RowWritten
<1>6. slot' = "Mark" => drain'.id # 0 /\ bucket' = "Active"
  <2> SUFFICES ASSUME slot' = "Mark" PROVE drain'.id # 0 /\ bucket' = "Active"
    OBVIOUS
  <2>1. CASE slot = "Mark"
    <3>1. bucket' = "Active"
      BY <2>1, SlotMoves DEF RowInv, InstallControl, FinishControl, FinishMark, Finalize, InstallMark, rowVars
    <3>2. drain.id # 0
      BY <2>1 DEF RowInv
    <3>3. drain'.id = drain.id
      BY <3>2, DrainMoves
    <3> QED
      BY <3>1, <3>2, <3>3
  <2>2. CASE slot # "Mark"
    <3>1. PICK d \in Deleters : InstallMark(d)
      BY <2>2, SlotMoves DEF InstallControl, FinishControl, FinishMark, Finalize
    <3> QED
      BY <2>2, <3>1 DEF InstallMark, Authorized, RowInv, rowVars
  <2> QED
    BY <2>1, <2>2
<1>7. slot' = "Control" => generation' < MaxGeneration
  BY SlotMoves DEF RowInv, InstallControl, FinishControl, FinishMark, Finalize, InstallMark, rowVars
<1>8. bucket # "Active" => bucket' # "Active"
  BY SlotMoves DEF RowInv, InstallControl, FinishControl, FinishMark, Finalize, InstallMark, rowVars
<1>9. AttemptInv'
  BY <1>8, AttemptMoves DEF AttemptInv, RowKept, RowWritten
<1> QED
  BY <1>2, <1>3, <1>4, <1>5, <1>6, <1>7, <1>9 DEF RowInv

\* How a deleter enters a drain.
LEMMA EnterEffect ==
    ASSUME TypeOK, RowInv, NEW d \in Deleters, BeginDrain(d) \/ AdoptDrain(d)
    PROVE  /\ op[d].stage = "idle" /\ drain'.id # 0
           /\ op'[d].stage = "loop" /\ op'[d].phase = "Initial" /\ op'[d].next = 0
           /\ op'[d].drain = drain'.id /\ op'[d].from = ResumeFrom(op'[d].drain)
           /\ UNCHANGED <<attempt, slot, commit, objects, reservation>>
           /\ drain'.id = drains + 1 \/ drain'.id = drain.id
<1>0. op \in [Deleters -> Operations]
  BY TypeNamed
<1>1. PICK id \in 0 .. MaxDrains : Enter(d, id) /\ id = drain'.id /\ id # 0 /\ (id = drains + 1 \/ id = drain.id)
  <2>1. CASE BeginDrain(d)
    <3>1. drains + 1 \in 0 .. MaxDrains /\ drains + 1 # 0
      BY <2>1, NumbersAssumption DEF TypeOK, BeginDrain
    <3> QED
      BY <2>1, <3>1 DEF BeginDrain
  <2>2. CASE AdoptDrain(d)
    BY <2>2 DEF AdoptDrain, RowInv, TypeOK
  <2> QED
    BY <2>1, <2>2
<1>2. op'[d] = [Idle EXCEPT !.stage = "loop", !.drain = id, !.from = ResumeFrom(id)]
  BY <1>0, <1>1 DEF Enter
<1>3. op[d].stage = "idle" /\ UNCHANGED <<attempt, slot, commit, objects, reservation>>
  BY DEF BeginDrain, AdoptDrain, writeVars
<1> QED
  BY <1>1, <1>2, <1>3 DEF Idle

\* How a deleter comes to claim that the reservations are gone.
LEMMA ClaimStep ==
    ASSUME Inv, NEW d \in Deleters, Delete(d), Claims(op'[d])
    PROVE  \/ op'[d].drain = op[d].drain /\ Claims(op[d])
           \/ NoReservations
           \/ /\ op'[d].drain = drain.id /\ UNCHANGED drain
              /\ attempt.drain = drain.id /\ attempt.phase \in Post
<1> USE DEF Inv, rowVars, writeVars
<1>0. op \in [Deleters -> Operations] /\ op[d] \in Operations /\ FlowOK(op[d])
  BY TypeNamed DEF FlowInv
<1>1. op'[d] # Idle
  BY DEF Claims, Idle, Post, Late
<1>2. CASE BeginDrain(d) \/ AdoptDrain(d)
  <2>1. /\ op'[d].stage = "loop" /\ op'[d].from = ResumeFrom(op'[d].drain)
        /\ (op'[d].drain = drain'.id /\ drain'.id # 0)
    BY <1>2, EnterEffect
  <2>2. op'[d].from \in Post
    BY <2>1 DEF Claims, Late
  <2>3. attempt.drain = op'[d].drain /\ attempt.phase \in Post
    BY <2>1, <2>2 DEF ResumeFrom, Post
  <2>4. ~BeginDrain(d)
    <3>1. BeginDrain(d) => attempt.drain = drains + 1
      BY <2>1, <2>3 DEF BeginDrain
    <3>2. attempt.drain # drains + 1
      BY DEF RowInv, TypeOK
    <3> QED
      BY <3>1, <3>2
  <2> QED
    BY <1>2, <2>1, <2>3, <2>4 DEF AdoptDrain
<1>3. CASE ~(BeginDrain(d) \/ AdoptDrain(d))
  <2>1. op'[d].drain = op[d].drain
    BY <1>1, <1>3, OwnDrain
  <2>2. CASE LoopProceed(d)
    <3>1. op'[d].stage = Entry[op[d].from] /\ op'[d].from = op[d].from /\ op[d].from \in Phases
      BY <1>0, <2>2 DEF LoopProceed, Operations
    <3> QED
      BY <1>0, <2>1, <3>1 DEF Claims, Entry, Late, Post, Phases, FlowOK
  <2>3. ASSUME NEW n \in {1, 2}, Probe(d, n) \/ RecordCursor(d, n) \/ Probed(d, n) \/ Recheck(d, n) PROVE Claims(op[d])
    <3>1. CASE n = 2
      BY <2>3, <3>1 DEF Probe, RecordCursor, Probed, Recheck, Claims, Late
    <3>2. CASE n = 1
      BY <1>0, <2>3, <3>2 DEF Probe, RecordCursor, Probed, Recheck, Claims, Late, Goto, GotoPhase, Restart, Operations
    <3> QED
      BY <3>1, <3>2
  <2>4. CASE Waited(d)
    BY <2>4 DEF Waited
  <2>5. CASE LoopControl(d) \/ LoopMark(d) \/ Cleanup(d) \/ Cleaned(d) \/ StartWait(d) \/ ClearStale(d)
             \/ (\E w \in Writers : ReleaseExpired(d, w))
    BY <1>0, <2>1, <2>5 DEF LoopControl, LoopMark, Cleanup, Cleaned, StartWait, ClearStale, ReleaseExpired, GotoPhase,
                            Claims, Late, Post, Operations
  <2>6. CASE Cleanup2(d) \/ StartCheck(d) \/ Scan(d) \/ Scanned(d) \/ RecordProven(d) \/ StartMark(d) \/ InstallMark(d)
    BY <2>1, <2>6 DEF Cleanup2, StartCheck, Scan, Scanned, RecordProven, StartMark, InstallMark, Claims, Late
  <2>7. CASE StartFinish(d) \/ Finish(d)
    BY <1>0, <1>1, <2>1, <2>7 DEF StartFinish, Finish, Goto, Restart, Stop, Claims, Late, Operations
  <2>8. CASE RecordNotEmpty(d) \/ FailKeeping(d) \/ FailRollingBack(d)
    BY <1>0, <1>1, <2>8 DEF RecordNotEmpty, FailKeeping, FailRollingBack, Stop
  <2> QED
    BY <1>3, <2>1, <2>2, <2>3, <2>4, <2>5, <2>6, <2>7, <2>8 DEF Delete
<1> QED
  BY <1>2, <1>3

LEMMA EvidenceStep ==
    ASSUME Inv, TypeOK', RowInv', [Next]_vars
    PROVE  EvidenceInv'
<1> USE DEF Inv
<1> SUFFICES ASSUME drain'.id # 0
             PROVE  /\ attempt'.drain = drain'.id /\ attempt'.phase \in Post => NoReservations'
                    /\ \A d \in Deleters : op'[d].drain = drain'.id /\ Claims(op'[d]) => NoReservations'
                    /\ slot' = "Mark" => NoReservations'
  BY DEF EvidenceInv, Claims
<1>0. drains \in Nat /\ op \in [Deleters -> Operations] /\ NoDrain.id = 0
  BY TypeNamed DEF NoDrain
<1>1. CASE drain'.id = drain.id
  <2>1. NoReservations => NoReservations'
    BY <1>0, <1>1, DrainMoves DEF NoReservations, RowInv
  <2>2. /\ attempt.drain = drain.id /\ attempt.phase \in Post => NoReservations
        /\ \A d \in Deleters : op[d].drain = drain.id /\ Claims(op[d]) => NoReservations
        /\ slot = "Mark" => NoReservations
    BY <1>1 DEF EvidenceInv
  <2>3. attempt'.drain = drain.id /\ attempt'.phase \in Post => NoReservations
    <3>1. ASSUME NEW d \in Deleters, RowWritten(d), attempt'.drain = drain.id, attempt'.phase \in Post PROVE NoReservations
      <4>1. op[d].drain = drain.id /\ op[d].stage \in Late
        BY <3>1 DEF RowWritten, FlowInv, FlowOK, Post, Late
      <4> QED
        BY <2>2, <4>1 DEF Claims
    <3> QED
      BY <1>1, <2>2, <3>1, AttemptMoves DEF RowKept, Post, NoDrain
  <2>4. ASSUME NEW d \in Deleters, op'[d].drain = drain.id, Claims(op'[d]) PROVE NoReservations
    <3>1. CASE op'[d] = op[d]
      BY <2>2, <2>4, <3>1
    <3>2. CASE Delete(d)
      BY <2>2, <2>4, <3>2, ClaimStep
    <3> QED
      BY <3>1, <3>2, OthersIdle, OthersKept
  <2>5. slot' = "Mark" => NoReservations
    <3>1. ASSUME NEW d \in Deleters, InstallMark(d), slot' = "Mark", slot # "Mark" PROVE NoReservations
      BY <2>2, <3>1 DEF InstallMark, Authorized, AttemptInv, Post
    <3>2. ASSUME slot' = "Mark", slot # "Mark" PROVE \E d \in Deleters : InstallMark(d)
      BY <3>2, SlotMoves DEF InstallControl, FinishControl, FinishMark, Finalize
    <3> QED
      BY <2>2, <3>1, <3>2
  <2> QED
    BY <1>1, <2>1, <2>3, <2>4, <2>5
<1>2. CASE drain.id = 0 /\ drain'.id = drains + 1 /\ \E d \in Deleters : BeginDrain(d)
  <2>1. PICK d \in Deleters : BeginDrain(d)
    BY <1>2
  <2>2. attempt' = attempt /\ slot' = slot /\ attempt.drain # drains + 1 /\ \A e \in Deleters : op[e].drain # drains + 1
    <3>1. attempt' = attempt /\ slot' = slot
      BY <2>1 DEF BeginDrain
    <3>2. \A n \in 0 .. MaxDrains : n <= drains => n # drains + 1
      BY <1>0
    <3>3. attempt.drain \in 0 .. MaxDrains /\ \A e \in Deleters : op[e].drain \in 0 .. MaxDrains
      BY DEF TypeOK
    <3> QED
      BY <3>1, <3>2, <3>3 DEF RowInv
  <2>3. slot # "Mark"
    BY <1>2 DEF RowInv
  <2>5. \A e \in Deleters \ {d} : op'[e] = op[e]
    BY <2>1, OthersKept DEF Delete
  <2>6. ~Claims(op'[d])
    <3>1. op'[d] = [Idle EXCEPT !.stage = "loop", !.drain = drains + 1, !.from = ResumeFrom(drains + 1)]
      BY <1>0, <2>1 DEF BeginDrain, Enter
    <3>2. ResumeFrom(drains + 1) = "Initial"
      BY <2>2 DEF ResumeFrom
    <3> QED
      BY <3>1, <3>2 DEF Claims, Idle, Late, Post
  <2> QED
    BY <1>2, <2>2, <2>3, <2>5, <2>6
<1> QED
  BY <1>0, <1>1, <1>2, DrainMoves

-----------------------------------------------------------------------------
(***************************************************************************)
(* Any number of deleters.                                                 *)
(***************************************************************************)

LEMMA InvInit == Init => Inv
<1> SUFFICES ASSUME Init PROVE Inv
  OBVIOUS
<1>1. MaxDrains \in Nat /\ MaxAttempts \in Nat /\ MaxGeneration \in Nat /\ PGs \in Nat
  BY NumbersAssumption
<1>2. 0 \in 0 .. MaxDrains /\ 0 \in 0 .. MaxAttempts /\ 0 \in 0 .. MaxGeneration /\ 0 \in 0 .. PGs
  BY <1>1
<1>3. attempt \in Attempts
  BY <1>2 DEF Init, Attempts, Outcomes, Phases
<1>4. op \in [Deleters -> Operations] /\ drain \in Drains
  BY DefaultTypes DEF Init
<1>5. TypeOK
  BY <1>2, <1>3, <1>4, TypeNamed DEF Init
<1>6. RowInv /\ AttemptInv
  BY DEF Init, RowInv, AttemptInv, NoDrain, Idle
<1>7. FlowInv
  BY DEF Init, FlowInv, FlowOK, Idle
<1>8. EvidenceInv
  BY DEF Init, EvidenceInv, NoDrain
<1> QED
  BY <1>5, <1>6, <1>7, <1>8 DEF Inv

LEMMA InvStep == Inv /\ [Next]_vars => Inv'
<1> SUFFICES ASSUME Inv, [Next]_vars PROVE Inv'
  OBVIOUS
<1>1. TypeOK'
  BY TypeStep DEF Inv
<1>2. RowInv' /\ AttemptInv'
  BY <1>1, RowStep
<1>3. FlowInv'
  BY FlowStep
<1>4. EvidenceInv'
  BY <1>1, <1>2, EvidenceStep
<1> QED
  BY <1>1, <1>2, <1>3, <1>4 DEF Inv

LEMMA InvCorrect == Spec => []Inv
BY InvInit, InvStep, PTL DEF Spec

\* Every row, copy and pending command has its type.
THEOREM TypeCorrect == Spec => []TypeOK
<1>1. Inv => TypeOK
  BY DEF Inv
<1> QED
  BY <1>1, InvCorrect, PTL

\* However many requests and workers delete the bucket at once, a pending mark
\* keeps the drain in place and finds no reservation, whatever leases run out.
THEOREM MarkIsFencedCorrect == Spec => []MarkIsFenced
<1>1. Inv => MarkIsFenced
  BY DEF Inv, RowInv, EvidenceInv, MarkIsFenced
<1> QED
  BY <1>1, InvCorrect, PTL

\* However many delete the bucket, an attempt row of the drain in place whose
\* phase lies behind the wait for reservations is evidence that they are gone:
\* an attempt that resumes from it need not wait again.
THEOREM PhaseIsEvidenceCorrect == Spec => []PhaseIsEvidence
<1>1. Inv => PhaseIsEvidence
  BY DEF Inv, EvidenceInv, PhaseIsEvidence, Post
<1> QED
  BY <1>1, InvCorrect, PTL

-----------------------------------------------------------------------------
(***************************************************************************)
(* One deleter: what it has proved stays proved while its drain is in      *)
(* place.                                                                  *)
(***************************************************************************)

Good(a, o) == CursorOK(a, o) /\ RowOK(a) /\ OpOK(a, o)

\* No commit enters a placement group without a reservation, and none is left
\* there.
LEMMA CleanKept ==
    ASSUME Inv, [Next]_vars, drain.id # 0, drain'.id = drain.id, NEW n \in 0 .. PGs, Clean(n)
    PROVE  Clean(n)' /\ (n = PGs => objects' = objects)
<1> USE DEF Inv, rowVars, writeVars
<1>0. commit \in [PG -> Commits \cup {NoCommit}] /\ NoCommit.stage = "none" /\ \A g \in PG : g < PGs
  BY TypeNamed, DefaultTypes DEF NoCommit
<1>1. NoReservations'
  <2>1. NoDrain.id = 0
    BY DEF NoDrain
  <2>2. \A w \in Writers : reservation[w] = "none" => reservation'[w] = "none"
    BY <2>1, DrainMoves
  <2> QED
    BY <2>2 DEF NoReservations, Clean
<1>2. CASE \E w \in Writers : Write(w)
  <2>1. UNCHANGED <<commit, objects>>
    BY <1>2 DEF Write, Acquire, ReservationExpires, Release, InstallCommit, Clean, NoReservations
  <2> QED
    BY <1>1, <2>1 DEF Clean
<1>3. CASE \E g \in PG : FinishCommit(g)
  <2>1. PICK g \in PG : FinishCommit(g)
    BY <1>3
  <2>2. commit[g].stage # "none"
    BY <2>1 DEF FinishCommit, ValidateCommit, LoseSection, StartCommit, ApplyCommit, AbandonCommit
  <2>3. commit[g] # NoCommit /\ ~(g < n) /\ n # PGs
    BY <1>0, <2>2 DEF Clean
  <2>4. \A h \in PG \ {g} : commit'[h] = commit[h]
    BY <1>0, <2>1 DEF FinishCommit, ValidateCommit, LoseSection, StartCommit, ApplyCommit, AbandonCommit, EndCommit
  <2>5. ASSUME NEW h \in PG, h < n PROVE commit'[h] = NoCommit
    <3>1. h # g
      BY <2>3, <2>5
    <3> QED
      BY <2>4, <2>5, <3>1 DEF Clean
  <2> QED
    BY <1>1, <2>3, <2>5 DEF Clean
<1>4. ASSUME NEW d \in Deleters, Delete(d) PROVE UNCHANGED <<commit, objects>>
  BY <1>4
     DEF Delete, BeginDrain, AdoptDrain, ClearStale, LoopProceed, LoopControl, LoopMark, Probe, RecordCursor,
       Probed, Recheck, Cleanup, Cleaned, StartWait, ReleaseExpired, Waited, Cleanup2, StartCheck, Scan, Scanned,
       RecordNotEmpty, RecordProven, StartMark, InstallMark, StartFinish, Finish, FailKeeping, FailRollingBack
<1>5. InstallControl \/ FinishControl \/ FinishMark \/ DrainExpires \/ ClearExpired \/ Finalize \/ UNCHANGED vars
      => UNCHANGED <<commit, objects>>
  BY DEF InstallControl, FinishControl, FinishMark, DrainExpires, ClearExpired, Finalize, vars
<1>6. CASE UNCHANGED <<commit, objects>>
  BY <1>1, <1>6 DEF Clean
<1> QED
  BY <1>2, <1>3, <1>4, <1>5, <1>6 DEF Next

\* What a row and a deleter stand for survives every step on the same drain.
LEMMA Carry ==
    ASSUME Inv, [Next]_vars, drain.id # 0, drain'.id = drain.id, NEW a \in Attempts, NEW o \in Operations, Good(a, o)
    PROVE  Good(a, o)'
<1>1. a.cursor \in 0 .. PGs /\ a.scan \in 0 .. PGs /\ o.next \in 0 .. PGs /\ PGs \in 0 .. PGs
  BY DefaultTypes DEF Attempts, Operations
<1>2. \A n \in 0 .. PGs : Clean(n) => Clean(n)'
  BY CleanKept
<1>3. ASSUME NEW n \in 0 .. PGs, Clean(PGs), Empty(n) PROVE Empty(n)'
  <2>1. objects' = objects
    BY <1>1, <1>3, CleanKept
  <2> QED
    BY <1>3, <2>1 DEF Empty
<1>4. /\ Clean(a.cursor) => Clean(a.cursor)'
      /\ Clean(o.next) => Clean(o.next)'
      /\ Clean(PGs) => Clean(PGs)'
      /\ Clean(PGs) /\ Empty(a.scan) => Empty(a.scan)'
      /\ Clean(PGs) /\ Empty(o.next) => Empty(o.next)'
      /\ Clean(PGs) /\ Empty(PGs) => Empty(PGs)'
  BY <1>1, <1>2, <1>3
<1>5. CursorOK(a, o)'
  BY <1>4 DEF Good, CursorOK
<1>6. RowOK(a)'
  BY <1>4 DEF Good, RowOK, Proving
<1>7. OpOK(a, o)'
  BY <1>4 DEF Good, OpOK, Late, Proving
<1> QED
  BY <1>5, <1>6, <1>7 DEF Good

\* The cursor that a deleter on its second pass, or one that resumes behind the
\* wait, would take up.
LEMMA CursorClean ==
    ASSUME Inv, NEW d \in Deleters, drain.id # 0, op[d].drain = drain.id, CursorOK(attempt, op[d]),
           op[d].stage \in SecondPass \/ op[d].from \in Post \cup {"ReservationWait"}
    PROVE  Cursor(d) = 0 \/ Clean(Cursor(d))
BY DEF CursorOK, Cursor, Matches

\* With the reservations gone, nothing more is claimed of no placement group.
LEMMA CleanNone ==
    NoReservations => Clean(0)
BY NumbersAssumption DEF Clean, PG

LEMMA EmptyNone == Empty(0)
BY NumbersAssumption DEF Empty, PG

\* One more placement group.
LEMMA OneMore ==
    ASSUME NEW n \in PG
    PROVE  /\ Clean(n) /\ commit[n] = NoCommit => Clean(n + 1)
           /\ Empty(n) /\ n \notin objects => Empty(n + 1)
<1>1. \A g \in PG : g < n + 1 => g < n \/ g = n
  BY NumbersAssumption DEF PG
<1> QED
  BY <1>1 DEF Clean, Empty

\* A row that is recorded stands for what the deleter has proved.
LEMMA RecordedGood ==
    ASSUME Inv, NEW d \in Deleters, drain.id # 0, op[d].drain = drain.id, Good(attempt, op[d]),
           NEW out, NEW p, NEW o,
           \/ p \in Post \cup {"ReservationWait"} \/ o.stage \in SecondPass \/ o.from \in Post \cup {"ReservationWait"}
           => op[d].stage \in SecondPass \/ op[d].from \in Post \cup {"ReservationWait"},
           p \in Proving => Clean(PGs),
           p = "FinalVisibilityProven" => Empty(PGs)
    PROVE  CursorOK(Recorded(d, out, p), o) /\ RowOK(Recorded(d, out, p))
<1> DEFINE r == Recorded(d, out, p)
<1>1. r.drain = drain.id /\ r.phase = p /\ r.cursor = Cursor(d)
  BY DEF Recorded
<1>2. r.scan = IF attempt.drain = drain.id /\ attempt.phase = p THEN attempt.scan ELSE 0
  BY DEF Recorded, Matches
<1>3. CursorOK(attempt, op[d]) /\ RowOK(attempt)
  BY DEF Good
<1> HIDE DEF r
<1>4. CursorOK(r, o)
  <2>1. CASE op[d].stage \in SecondPass \/ op[d].from \in Post \cup {"ReservationWait"}
    BY <1>1, <1>3, <2>1, CursorClean DEF CursorOK
  <2>2. CASE ~(op[d].stage \in SecondPass \/ op[d].from \in Post \cup {"ReservationWait"})
    BY <1>1, <2>2 DEF CursorOK
  <2> QED
    BY <2>1, <2>2
<1>5. p = "FinalVisibilityCheck" => Empty(r.scan)
  BY <1>2, <1>3, EmptyNone DEF RowOK
<1>6. RowOK(r)
  BY <1>1, <1>5 DEF RowOK
<1> QED
  BY <1>4, <1>6 DEF r

\* The same for the best-effort recording.
LEMMA RecordGood ==
    ASSUME Inv, NEW d \in Deleters, drain.id # 0, op[d].drain = drain.id, Good(attempt, op[d]),
           NEW out, NEW p, NEW o, Record(d, out, p),
           \/ p \in Post \cup {"ReservationWait"} \/ o.stage \in SecondPass \/ o.from \in Post \cup {"ReservationWait"}
           => op[d].stage \in SecondPass \/ op[d].from \in Post \cup {"ReservationWait"},
           p \in Proving => Clean(PGs),
           p = "FinalVisibilityProven" => Empty(PGs),
           NEW a, a = attempt'
    PROVE  CursorOK(a, o) /\ RowOK(a)
<1>1. CASE a = attempt
  BY <1>1 DEF Good, CursorOK
<1>2. CASE a = Recorded(d, out, p)
  BY <1>2, RecordedGood
<1> QED
  BY <1>1, <1>2 DEF Record

\* What a step of the deleter writes down, in its row or in its operation, it
\* has proved.  Values of the next state are named: a is the row, o the
\* operation.
LEMMA EnterGood ==
    ASSUME Inv, NEW d \in Deleters, AdoptDrain(d), drain.id # 0, drain'.id = drain.id, Good(attempt, op[d]),
           NEW o, o = op'[d]
    PROVE  Good(attempt, o)
<1>1. o.stage = "loop" /\ o.drain = drain.id /\ o.from = ResumeFrom(drain.id)
  BY EnterEffect DEF Inv
<1>2. o.from # "Initial" => attempt.drain = drain.id /\ attempt.phase = o.from
  BY <1>1 DEF ResumeFrom
<1>3. CursorOK(attempt, o)
  BY <1>1, <1>2 DEF Good, CursorOK, Post, SecondPass, Late
<1>4. OpOK(attempt, o)
  BY <1>1, <1>2 DEF Good, RowOK, OpOK, Proving, Late
<1> QED
  BY <1>3, <1>4 DEF Good

LEMMA LoopGood ==
    ASSUME Inv, NEW d \in Deleters, LoopProceed(d) \/ LoopControl(d) \/ LoopMark(d), drain.id # 0,
           op[d].drain = drain.id, Good(attempt, op[d]), NEW o, o = op'[d]
    PROVE  Good(attempt, o)
<1>0. op \in [Deleters -> Operations] /\ op[d] \in Operations /\ op[d].from \in Phases
  BY TypeNamed DEF Inv, Operations
<1>1. CASE LoopProceed(d)
  <2>1. o.stage = Entry[op[d].from] /\ o.from = op[d].from /\ o.drain = drain.id /\ o.next = Cursor(d)
    BY <1>0, <1>1 DEF LoopProceed, Operations
  <2>2. /\ o.stage \in SecondPass => o.from \in Post \cup {"ReservationWait"}
        /\ o.stage = "probe2" => o.from = "PostReservationObjectDrain"
        /\ o.stage \in Late \ {"probe2"} => o.from \in Proving
        /\ o.stage \in {"mark", "install"} => o.from = "FinalVisibilityProven"
        /\ o.stage \notin {"record1", "record2", "scan", "proven"}
    BY <1>0, <2>1 DEF Entry, Phases, SecondPass, Late, Post, Proving
  <2>3. CursorOK(attempt, o)
    BY <2>1, <2>2 DEF Good, CursorOK
  <2>4. op[d].from \in Post => NoReservations
    BY DEF Inv, EvidenceInv, Claims
  <2>5. o.stage = "probe2" => Clean(o.next)
    <3>1. o.stage = "probe2" => (Cursor(d) = 0 \/ Clean(Cursor(d))) /\ NoReservations
      BY <2>1, <2>2, <2>4, CursorClean DEF Good, Post
    <3> QED
      BY <2>1, <3>1, CleanNone
  <2>6. o.stage = "probe1" /\ attempt.drain = drain.id /\ attempt.phase \in Post => Clean(o.next)
    <3>1. attempt.drain = drain.id /\ attempt.phase \in Post => NoReservations
      BY DEF Inv, EvidenceInv
    <3>2. attempt.drain = drain.id /\ attempt.phase \in Post => attempt.cursor = 0 \/ Clean(attempt.cursor)
      BY DEF Good, CursorOK
    <3>3. attempt.drain = drain.id => o.next = attempt.cursor
      BY <2>1 DEF Cursor, Matches
    <3> QED
      BY <3>1, <3>2, <3>3, CleanNone
  <2>7. op[d].from \in Proving => Clean(PGs)
    BY DEF Good, OpOK
  <2>8. op[d].from = "FinalVisibilityProven" => Empty(PGs)
    BY DEF Good, OpOK
  <2>9. OpOK(attempt, o)
    BY <2>1, <2>2, <2>5, <2>6, <2>7, <2>8 DEF OpOK, Late
  <2> QED
    BY <2>3, <2>9 DEF Good
<1>2. CASE LoopControl(d) \/ LoopMark(d)
  <2>1. o.stage \in {"loop", "finish"} /\ o.from = "Initial" /\ o.drain = drain.id
    BY <1>0, <1>2 DEF LoopControl, LoopMark, Operations
  <2> QED
    BY <2>1 DEF Good, CursorOK, OpOK, SecondPass, Late, Post, Proving
<1> QED
  BY <1>1, <1>2

LEMMA PassGood ==
    ASSUME Inv, AnewInv, NEW d \in Deleters, NEW n \in {1, 2},
           Probe(d, n) \/ RecordCursor(d, n) \/ Probed(d, n) \/ Recheck(d, n),
           drain.id # 0, op[d].drain = drain.id, Good(attempt, op[d]), NEW a, a = attempt', NEW o, o = op'[d]
    PROVE  Good(a, o)
<1>0. op \in [Deleters -> Operations] /\ op[d] \in Operations /\ FlowOK(op[d]) /\ attempt \in Attempts
  BY TypeNamed DEF Inv, FlowInv
<1>1. CASE Probe(d, n)
  <2>1. /\ a = attempt /\ o.from = op[d].from /\ o.drain = drain.id /\ o.next = op[d].next + 1
        /\ o.stage = <<"record1", "record2">>[n] /\ op[d].stage = <<"probe1", "probe2">>[n]
        /\ op[d].next \in PG /\ commit[op[d].next] = NoCommit
    BY <1>0, <1>1 DEF Probe, Operations
  <2>2. Clean(op[d].next) => Clean(o.next)
    BY <2>1, OneMore
  <2>3. CASE n = 1
    BY <2>1, <2>2, <2>3 DEF Good, CursorOK, OpOK, SecondPass, Late
  <2>4. CASE n = 2
    BY <2>1, <2>2, <2>4 DEF Good, CursorOK, OpOK, SecondPass, Late
  <2> QED
    BY <2>3, <2>4
<1>2. CASE RecordCursor(d, n)
  <2>1. /\ o.from = op[d].from /\ o.drain = drain.id /\ o.next = op[d].next
        /\ o.stage = <<"probe1", "probe2">>[n] /\ op[d].stage = <<"record1", "record2">>[n]
        /\ a = WithCursor(d, attempt, op[d].phase, op[d].next)
    BY <1>0, <1>2 DEF RecordCursor, Goto, Operations
  <2>2. /\ a.drain = drain.id /\ a.cursor = o.next
        /\ \/ attempt.drain = drain.id /\ a.phase = attempt.phase /\ a.scan = attempt.scan
           \/ attempt.drain # drain.id /\ a.phase = op[d].phase
    BY <1>0, <2>1 DEF WithCursor, Attempts
  <2>3. CASE n = 1
    <3>1. o.stage = "probe1" /\ op[d].stage = "record1" /\ op[d].from = "Initial" /\ op[d].phase = "Initial"
      BY <1>0, <2>1, <2>3 DEF FlowOK
    <3>2. ~(attempt.drain = drain.id /\ attempt.phase = "ReservationWait")
      BY <3>1 DEF AnewInv
    <3>3. a.phase \in Post => attempt.drain = drain.id /\ attempt.phase = a.phase
      BY <2>2, <3>1 DEF Post
    <3>4. a.phase # "ReservationWait"
      BY <2>2, <3>1, <3>2
    <3>5. a.phase \in Post => Clean(o.next)
      BY <2>1, <3>1, <3>3 DEF Good, OpOK
    <3>6. CursorOK(a, o)
      BY <2>1, <2>2, <3>1, <3>4, <3>5 DEF CursorOK, SecondPass, Late, Post
    <3>7. RowOK(a)
      BY <2>2, <3>1 DEF Good, RowOK, Proving
    <3>8. OpOK(a, o)
      BY <2>1, <2>2, <3>1, <3>5 DEF OpOK, Late, Proving
    <3> QED
      BY <3>6, <3>7, <3>8 DEF Good
  <2>4. CASE n = 2
    <3>1. o.stage = "probe2" /\ op[d].stage = "record2" /\ op[d].phase = "PostReservationObjectDrain"
      BY <1>0, <2>1, <2>4 DEF FlowOK
    <3>2. Clean(o.next)
      BY <2>1, <3>1 DEF Good, OpOK
    <3>3. CursorOK(a, o)
      BY <2>2, <3>2 DEF CursorOK
    <3>4. RowOK(a)
      BY <2>2, <3>1 DEF Good, RowOK, Proving
    <3>5. OpOK(a, o)
      BY <2>1, <3>1, <3>2 DEF Good, OpOK, Late
    <3> QED
      BY <3>3, <3>4, <3>5 DEF Good
  <2> QED
    BY <2>3, <2>4
<1>3. CASE Probed(d, n)
  <2>1. a = attempt /\ o.from = op[d].from /\ o.drain = drain.id /\ op[d].next = PGs
    BY <1>0, <1>3 DEF Probed, Goto, GotoPhase, Operations
  <2>2. CASE n = 1
    <3>1. o.stage = "recheck1"
      BY <1>0, <1>3, <2>2 DEF Probed, Goto, Operations
    <3> QED
      BY <2>1, <3>1 DEF Good, CursorOK, OpOK, SecondPass, Late
  <2>3. CASE n = 2
    <3>1. o.stage = "cleanup2" /\ op[d].stage = "probe2"
      BY <1>0, <1>3, <2>3 DEF Probed, GotoPhase, Operations
    <3> QED
      BY <2>1, <3>1 DEF Good, CursorOK, OpOK, SecondPass, Late
  <2> QED
    BY <2>2, <2>3
<1>4. CASE Recheck(d, n)
  <2>1. a = attempt /\ o.from = op[d].from /\ o.drain = drain.id
    BY <1>0, <1>4 DEF Recheck, Restart, GotoPhase, Operations
  <2>2. CASE n = 1
    <3>1. o.stage \in {"loop", "cleanup1"}
      BY <1>0, <1>4, <2>2 DEF Recheck, Restart, GotoPhase, Operations
    <3> QED
      BY <2>1, <3>1 DEF Good, CursorOK, OpOK, SecondPass, Late
  <2>3. CASE n = 2
    <3>1. o.stage \in {"loop", "check"} /\ op[d].stage = "recheck2"
      BY <1>0, <1>4, <2>3 DEF Recheck, Restart, GotoPhase, Operations
    <3> QED
      BY <2>1, <3>1 DEF Good, CursorOK, OpOK, SecondPass, Late
  <2> QED
    BY <2>2, <2>3
<1> QED
  BY <1>1, <1>2, <1>3, <1>4

LEMMA WaitGood ==
    ASSUME Inv, NEW d \in Deleters,
           \/ Cleanup(d) \/ Cleaned(d) \/ StartWait(d) \/ Waited(d) \/ \E w \in Writers : ReleaseExpired(d, w),
           drain.id # 0, op[d].drain = drain.id, Good(attempt, op[d]), NEW a, a = attempt', NEW o, o = op'[d]
    PROVE  Good(a, o)
<1> USE DEF writeVars
<1>0. op \in [Deleters -> Operations] /\ op[d] \in Operations /\ FlowOK(op[d]) /\ attempt \in Attempts
  BY TypeNamed DEF Inv, FlowInv
<1>1. CASE Cleanup(d)
  <2>1. o.stage = "cleaned" /\ o.from = op[d].from /\ o.drain = drain.id
    BY <1>0, <1>1 DEF Cleanup, GotoPhase, Operations
  <2>2. PICK row \in {attempt, Recorded(d, "Retryable", "StreamCleanup")} : a = WithCursor(d, row, "StreamCleanup", 0)
    BY <1>1 DEF Cleanup
  <2>3. /\ a.drain = drain.id /\ a.cursor = 0
        /\ \/ attempt.drain = drain.id /\ a.phase = attempt.phase /\ a.scan = attempt.scan
           \/ a.phase = "StreamCleanup"
    <3>1. CASE row = attempt
      BY <1>0, <2>2, <3>1 DEF WithCursor, Attempts
    <3>2. CASE row = Recorded(d, "Retryable", "StreamCleanup")
      BY <2>2, <3>2 DEF WithCursor, Recorded
    <3> QED
      BY <2>2, <3>1, <3>2
  <2>4. RowOK(a)
    BY <2>3 DEF Good, RowOK, Proving
  <2>5. CursorOK(a, o) /\ OpOK(a, o)
    BY <2>1, <2>3 DEF Good, CursorOK, OpOK, Late
  <2> QED
    BY <2>4, <2>5 DEF Good
<1>2. CASE Cleaned(d)
  <2>1. o.stage = "wait" /\ o.from = "ReservationWait" /\ op[d].stage = "cleaned" /\ Record(d, "Retryable", "ReservationWait")
    BY <1>0, <1>2 DEF Cleaned, Operations
  <2>2. CursorOK(a, o) /\ RowOK(a)
    BY <2>1, RecordGood DEF SecondPass, Proving
  <2>3. OpOK(a, o)
    BY <2>1 DEF OpOK, Late, Proving
  <2> QED
    BY <2>2, <2>3 DEF Good
<1>3. CASE StartWait(d)
  <2>1. o.stage = "waiting" /\ o.from = op[d].from /\ o.drain = drain.id /\ op[d].stage = "wait" /\ a = attempt
    BY <1>0, <1>3 DEF StartWait, GotoPhase, Operations
  <2> QED
    BY <2>1 DEF Good, CursorOK, OpOK, Late, SecondPass
<1>4. CASE Waited(d)
  <2>1. /\ o.stage = "probe2" /\ o.from = op[d].from /\ o.drain = drain.id /\ o.next = Cursor(d)
        /\ op[d].stage = "waiting" /\ a = attempt /\ NoReservations
    BY <1>0, <1>4 DEF Waited, Operations
  <2>2. Clean(o.next)
    BY <2>1, CursorClean, CleanNone DEF Good, SecondPass
  <2> QED
    BY <2>1, <2>2 DEF Good, CursorOK, OpOK, Late, SecondPass
<1>5. CASE \E w \in Writers : ReleaseExpired(d, w)
  <2>1. a = attempt /\ o = op[d]
    BY <1>5 DEF ReleaseExpired
  <2> QED
    BY <2>1
<1> QED
  BY <1>1, <1>2, <1>3, <1>4, <1>5

LEMMA CheckGood ==
    ASSUME Inv, NEW d \in Deleters,
           Cleanup2(d) \/ StartCheck(d) \/ Scan(d) \/ Scanned(d) \/ RecordNotEmpty(d) \/ RecordProven(d) \/ StartMark(d),
           drain.id # 0, op[d].drain = drain.id, Good(attempt, op[d]), NEW a, a = attempt', NEW o, o = op'[d]
    PROVE  Good(a, o)
<1>0. op \in [Deleters -> Operations] /\ op[d] \in Operations /\ FlowOK(op[d]) /\ attempt \in Attempts
  BY TypeNamed DEF Inv, FlowInv
<1>1. CASE Cleanup2(d)
  <2>1. o.stage = "recheck2" /\ o.from = "PostReservationStreamCleanup" /\ o.drain = drain.id /\ op[d].stage = "cleanup2"
    BY <1>0, <1>1 DEF Cleanup2, Operations
  <2>2. a = attempt \/ Record(d, "Retryable", "PostReservationStreamCleanup")
    BY <1>1 DEF Cleanup2
  <2>3. Clean(PGs)
    BY <2>1 DEF Good, OpOK, Late
  <2>4. CursorOK(a, o) /\ RowOK(a)
    <3>1. CASE a = attempt
      BY <2>1, <3>1 DEF Good, CursorOK, SecondPass, Late
    <3>2. CASE Record(d, "Retryable", "PostReservationStreamCleanup")
      BY <2>1, <2>3, <3>2, RecordGood DEF SecondPass, Late
    <3> QED
      BY <2>2, <3>1, <3>2
  <2>5. OpOK(a, o)
    BY <2>1, <2>3 DEF OpOK
  <2> QED
    BY <2>4, <2>5 DEF Good
<1>2. CASE StartCheck(d)
  <2>1. /\ o.stage = "scan" /\ o.from = op[d].from /\ o.drain = drain.id /\ op[d].stage = "check"
        /\ Record(d, "Retryable", "FinalVisibilityCheck")
        /\ o.next = IF a.drain = drain.id /\ a.phase = "FinalVisibilityCheck" THEN a.scan ELSE 0
    BY <1>0, <1>2 DEF StartCheck, Operations
  <2>3. Clean(PGs)
    BY <2>1 DEF Good, OpOK, Late
  <2>4. CursorOK(a, o) /\ RowOK(a)
    BY <2>1, <2>3, RecordGood DEF SecondPass, Late
  <2>5. Empty(o.next)
    BY <2>1, <2>4, EmptyNone DEF RowOK
  <2>6. OpOK(a, o)
    BY <2>1, <2>3, <2>5 DEF Good, OpOK
  <2> QED
    BY <2>4, <2>6 DEF Good
<1>3. CASE Scan(d)
  <2>1. /\ o.from = op[d].from /\ o.drain = drain.id /\ op[d].stage = "scan" /\ op[d].next \in PG
        /\ \/ o.stage = "notempty" /\ a = attempt
           \/ o.stage = "scan" /\ o.next = op[d].next + 1 /\ op[d].next \notin objects /\ a = WithScan(d, op[d].next + 1)
    BY <1>0, <1>3 DEF Scan, Goto, Operations
  <2>2. Clean(PGs) /\ Empty(op[d].next)
    BY <2>1 DEF Good, OpOK, Late
  <2>3. CASE o.stage = "notempty" /\ a = attempt
    BY <2>1, <2>2, <2>3 DEF Good, CursorOK, OpOK, SecondPass, Late
  <2>4. CASE /\ o.stage = "scan" /\ o.next = op[d].next + 1 /\ op[d].next \notin objects
             /\ a = WithScan(d, op[d].next + 1)
    <3>1. Empty(o.next)
      BY <2>1, <2>2, <2>4, OneMore
    <3>2. a.drain = drain.id /\ a.phase = "FinalVisibilityCheck" /\ a.cursor = Cursor(d) /\ a.scan = o.next
      BY <2>4 DEF WithScan
    <3>3. Cursor(d) = 0 \/ Clean(Cursor(d))
      BY <2>1, CursorClean DEF Good, SecondPass, Late
    <3> QED
      BY <2>1, <2>2, <2>4, <3>1, <3>2, <3>3 DEF Good, CursorOK, RowOK, OpOK
  <2> QED
    BY <2>1, <2>3, <2>4
<1>4. CASE Scanned(d)
  <2>1. o.stage = "proven" /\ o.from = op[d].from /\ o.drain = drain.id /\ op[d].stage = "scan" /\ a = attempt /\ op[d].next = PGs
    BY <1>0, <1>4 DEF Scanned, GotoPhase, Operations
  <2>2. Clean(PGs) /\ Empty(PGs)
    BY <2>1 DEF Good, OpOK, Late
  <2> QED
    BY <2>1, <2>2 DEF Good, CursorOK, OpOK, SecondPass, Late
<1>5. CASE RecordNotEmpty(d)
  <2>1. o = Idle /\ op[d].stage = "notempty" /\ Record(d, "NotEmpty", "FinalVisibilityCheck")
    BY <1>0, <1>5 DEF RecordNotEmpty, Stop
  <2>2. Clean(PGs)
    BY <2>1 DEF Good, OpOK, Late
  <2>3. CursorOK(a, o) /\ RowOK(a)
    BY <2>1, <2>2, RecordGood DEF SecondPass, Late
  <2>4. OpOK(a, o)
    BY <2>1 DEF OpOK, Idle, Late, Proving
  <2> QED
    BY <2>3, <2>4 DEF Good
<1>6. CASE RecordProven(d)
  <2>1. /\ o.stage = "mark" /\ o.from = "FinalVisibilityProven" /\ op[d].stage = "proven" /\ o.drain = drain.id
        /\ a = Recorded(d, "Retryable", "FinalVisibilityProven")
    BY <1>0, <1>6 DEF RecordProven, Operations
  <2>2. Clean(PGs) /\ Empty(PGs)
    BY <2>1 DEF Good, OpOK, Late
  <2>3. CursorOK(a, o) /\ RowOK(a)
    BY <2>1, <2>2, RecordedGood DEF SecondPass, Late
  <2>4. OpOK(a, o)
    BY <2>1, <2>2 DEF OpOK
  <2> QED
    BY <2>3, <2>4 DEF Good
<1>7. CASE StartMark(d)
  <2>1. o.stage = "install" /\ o.from = op[d].from /\ o.drain = drain.id /\ op[d].stage = "mark" /\ a = attempt
    BY <1>0, <1>7 DEF StartMark, Goto, Operations
  <2> QED
    BY <2>1 DEF Good, CursorOK, OpOK, SecondPass, Late
<1> QED
  BY <1>1, <1>2, <1>3, <1>4, <1>5, <1>6, <1>7

LEMMA EndGood ==
    ASSUME Inv, NEW d \in Deleters, InstallMark(d) \/ StartFinish(d) \/ Finish(d) \/ FailKeeping(d),
           drain.id # 0, op[d].drain = drain.id, Good(attempt, op[d]), NEW a, a = attempt', NEW o, o = op'[d]
    PROVE  Good(a, o)
<1>0. op \in [Deleters -> Operations] /\ op[d] \in Operations /\ FlowOK(op[d]) /\ attempt \in Attempts
  BY TypeNamed DEF Inv, FlowInv
<1>1. CASE o = Idle /\ Record(d, "MarkDeleting", "MarkDeleting")
  <2>1. CursorOK(a, o) /\ RowOK(a)
    BY <1>1, RecordGood DEF Idle, SecondPass, Late, Post, Proving
  <2> QED
    BY <1>1, <2>1 DEF Good, OpOK, Idle, Late, Proving
<1>2. CASE FailKeeping(d)
  <2>1. o = Idle /\ Record(d, "Retryable", op[d].phase)
    BY <1>0, <1>2 DEF FailKeeping, Stop
  <2>2. /\ op[d].phase \in Post \cup {"ReservationWait"} => op[d].stage \in SecondPass
        /\ op[d].phase \in Proving => op[d].stage \in Late \ {"probe2", "record2"}
        /\ op[d].phase = "FinalVisibilityProven" => op[d].stage \in {"proven", "mark", "install"}
    BY <1>0 DEF FlowOK, Post, SecondPass, Late, Proving
  <2>3. op[d].phase \in Proving => Clean(PGs)
    BY <2>2 DEF Good, OpOK
  <2>4. op[d].phase = "FinalVisibilityProven" => Empty(PGs)
    BY <2>2 DEF Good, OpOK
  <2>5. ~(o.stage \in SecondPass \/ o.from \in Post \cup {"ReservationWait"})
    BY <2>1 DEF Idle, SecondPass, Late, Post
  <2>6. CursorOK(a, o) /\ RowOK(a)
    BY <2>1, <2>2, <2>3, <2>4, <2>5, RecordGood
  <2> QED
    BY <2>1, <2>6 DEF Good, OpOK, Idle, Late, Proving
<1>3. CASE InstallMark(d) /\ a = attempt /\ o.stage \in {"finish", "loop"} /\ o.from = op[d].from /\ o.drain = drain.id
  <2>1. op[d].stage = "install"
    BY <1>3 DEF InstallMark
  <2> QED
    BY <1>3, <2>1 DEF Good, CursorOK, OpOK, SecondPass, Late
<1>4. CASE a = attempt /\ o.stage \in {"finishing", "loop"} /\ o.from = op[d].from /\ o.drain = drain.id
  BY <1>4 DEF Good, CursorOK, OpOK, SecondPass, Late
<1>5. CASE InstallMark(d)
  BY <1>0, <1>1, <1>3, <1>5 DEF InstallMark, Stop, GotoPhase, Restart, Operations
<1>6. CASE StartFinish(d) \/ Finish(d)
  BY <1>0, <1>1, <1>4, <1>6 DEF StartFinish, Finish, Stop, Goto, Restart, Operations
<1> QED
  BY <1>2, <1>5, <1>6

\* A step of the deleter on the drain in place.
LEMMA DeleteGood ==
    ASSUME Inv, OwnInv, AnewInv, NEW d \in Deleters, Delete(d), drain.id # 0, drain'.id = drain.id,
           Good(attempt, op[d]), NEW a, a = attempt', NEW o, o = op'[d]
    PROVE  Good(a, o)
<1>0. op \in [Deleters -> Operations] /\ NoDrain.id = 0
  BY TypeNamed DEF Inv, NoDrain
<1>1. ~BeginDrain(d) /\ ~ClearStale(d) /\ ~FailRollingBack(d)
  BY <1>0 DEF BeginDrain, ClearStale, FailRollingBack
<1>2. CASE AdoptDrain(d)
  <2>1. a = attempt
    BY <1>2 DEF AdoptDrain
  <2> QED
    BY <1>2, <2>1, EnterGood
<1>3. CASE ~AdoptDrain(d)
  <2>1. op[d].stage # "idle"
    BY <1>1, <1>3, SMTT(90)
       DEF Delete, LoopProceed, LoopControl, LoopMark, Probe, RecordCursor, Probed, Recheck, Cleanup, Cleaned, StartWait,
           ReleaseExpired, Waited, Cleanup2, StartCheck, Scan, Scanned, RecordNotEmpty, RecordProven, StartMark,
           InstallMark, StartFinish, Finish, FailKeeping
  <2>2. op[d].drain = drain.id
    BY <2>1 DEF OwnInv
  <2>3. CASE LoopProceed(d) \/ LoopControl(d) \/ LoopMark(d)
    <3>1. a = attempt
      BY <2>3 DEF LoopProceed, LoopControl, LoopMark
    <3> QED
      BY <2>2, <2>3, <3>1, LoopGood
  <2> QED
    BY <1>1, <1>3, <2>2, <2>3, PassGood, WaitGood, CheckGood, EndGood DEF Delete
<1> QED
  BY <1>2, <1>3

\* Whoever is idle can only enter a drain.
LEMMA IdleEnters ==
    ASSUME NEW d \in Deleters, Delete(d), op[d].stage = "idle"
    PROVE  BeginDrain(d) \/ AdoptDrain(d) \/ ClearStale(d)
BY DEF Delete, LoopProceed, LoopControl, LoopMark, Probe, RecordCursor, Probed, Recheck, Cleanup, Cleaned, StartWait,
       ReleaseExpired, Waited, Cleanup2, StartCheck, Scan, Scanned, RecordNotEmpty, RecordProven, StartMark,
       InstallMark, StartFinish, Finish, FailKeeping, FailRollingBack

\* While a command is pending, the deleter waits for it or finishes it.
LEMMA PendingStops ==
    ASSUME Inv, NEW d \in Deleters, Delete(d), slot' # "None",
           slot # "None" => op[d].stage \in {"idle", "loop", "finish", "finishing"}
    PROVE  op'[d].stage \in {"idle", "loop", "finish", "finishing"}
<1> USE DEF rowVars, writeVars
<1>0. op \in [Deleters -> Operations] /\ op[d] \in Operations
  BY TypeNamed DEF Inv
<1>1. CASE InstallMark(d)
  BY <1>0, <1>1 DEF InstallMark, Stop, GotoPhase, Restart, Idle, Operations
<1>2. CASE slot # "None"
  <2>1. CASE BeginDrain(d) \/ AdoptDrain(d)
    BY <2>1, EnterEffect DEF Inv
  <2>2. CASE ~(BeginDrain(d) \/ AdoptDrain(d))
    BY <1>0, <1>2, <2>2
       DEF Delete, ClearStale, LoopProceed, LoopControl, LoopMark, Probe, RecordCursor, Probed, Recheck, Cleanup, Cleaned, StartWait,
           ReleaseExpired, Waited, Cleanup2, StartCheck, Scan, Scanned, RecordNotEmpty, RecordProven, StartMark,
           InstallMark, StartFinish, Finish, FailKeeping, FailRollingBack, Stop, Goto, Restart, Idle, Operations
  <2> QED
    BY <2>1, <2>2
<1>3. slot = "None" => InstallMark(d)
  BY DEF Delete, BeginDrain, AdoptDrain, ClearStale, LoopProceed, LoopControl, LoopMark, Probe, RecordCursor, Probed,
         Recheck, Cleanup, Cleaned, StartWait, ReleaseExpired, Waited, Cleanup2, StartCheck, Scan, Scanned,
         RecordNotEmpty, RecordProven, StartMark, StartFinish, Finish, FailKeeping, FailRollingBack
<1> QED
  BY <1>1, <1>2, <1>3

\* Deletions of the bucket do not overlap.
Single == \E d \in Deleters : Deleters = {d}

LEMMA OwnStep ==
    ASSUME Inv, OwnInv, Single, [Next]_vars
    PROVE  OwnInv'
<1> SUFFICES ASSUME drain'.id # 0, NEW d \in Deleters
             PROVE  /\ op'[d].stage # "idle" => op'[d].drain = drain'.id
                    /\ slot' # "None" => op'[d].stage \in {"idle", "loop", "finish", "finishing"}
  BY DEF OwnInv
<1>0. op \in [Deleters -> Operations] /\ NoDrain.id = 0 /\ Idle.stage = "idle"
  BY TypeNamed DEF Inv, NoDrain, Idle
<1>1. CASE Delete(d)
  <2>1. CASE BeginDrain(d) \/ AdoptDrain(d)
    BY <2>1, EnterEffect DEF Inv
  <2>2. CASE ~(BeginDrain(d) \/ AdoptDrain(d))
    <3>1. ~ClearStale(d)
      BY <1>0 DEF ClearStale
    <3>2. op[d].stage # "idle"
      BY <1>1, <2>2, <3>1, IdleEnters
    <3>3. drain'.id = drain.id
      <4>1. ASSUME NEW e \in Deleters, BeginDrain(e) PROVE FALSE
        BY <2>2, <4>1 DEF Single
      <4> QED
        BY <1>0, <4>1, DrainMoves DEF Inv
    <3>4. op'[d].stage # "idle" => op'[d].drain = drain'.id
      BY <1>0, <1>1, <2>2, <3>2, <3>3, OwnDrain DEF Inv, OwnInv
    <3>5. slot' # "None" => op'[d].stage \in {"idle", "loop", "finish", "finishing"}
      BY <1>1, <3>3, PendingStops DEF OwnInv
    <3> QED
      BY <3>4, <3>5
  <2> QED
    BY <2>1, <2>2
<1>2. CASE ~Delete(d)
  <2>1. ~\E e \in Deleters : Delete(e)
    BY <1>2 DEF Single
  <2>2. UNCHANGED op
    BY <2>1, OthersIdle
  <2>3. drain'.id = drain.id
    <3>1. ~\E e \in Deleters : BeginDrain(e)
      BY <2>1 DEF Delete
    <3> QED
      BY <1>0, <3>1, DrainMoves DEF Inv
  <2>4. slot' # "None" => slot # "None"
    <3>1. ~\E e \in Deleters : InstallMark(e)
      BY <2>1 DEF Delete
    <3>2. ~InstallControl
      BY <2>3 DEF InstallControl
    <3> QED
      BY <3>1, <3>2, SlotMoves DEF FinishControl, FinishMark, Finalize
  <2> QED
    BY <2>2, <2>3, <2>4 DEF OwnInv
<1> QED
  BY <1>1, <1>2

\* The stages of a first pass, and of those that end in one.
Anew == {"loop", "probe1", "record1", "recheck1", "finish", "finishing"}

\* A deleter that starts anew comes from where it was, or from the phase on
\* record.
LEMMA AnewMoves ==
    ASSUME Inv, NEW d \in Deleters, Delete(d), op'[d].stage \in Anew, op'[d].from = "Initial"
    PROVE  \/ op[d].stage \in Anew /\ op[d].from = "Initial" /\ op'[d].drain = op[d].drain
           \/ op[d].stage = "loop" /\ slot # "None" /\ op'[d].drain = op[d].drain
           \/ (BeginDrain(d) \/ AdoptDrain(d)) /\ ResumeFrom(drain'.id) = "Initial"
<1>0. op \in [Deleters -> Operations] /\ op[d] \in Operations /\ FlowOK(op[d]) /\ op[d].from \in Phases
  BY TypeNamed DEF Inv, FlowInv, Operations
<1>1. CASE BeginDrain(d) \/ AdoptDrain(d)
  BY <1>1, EnterEffect DEF Inv
<1>2. CASE LoopProceed(d) \/ LoopControl(d) \/ LoopMark(d)
  BY <1>0, <1>2 DEF LoopProceed, LoopControl, LoopMark, Anew, Operations
<1>3. ASSUME NEW n \in {1, 2}, Probe(d, n) \/ RecordCursor(d, n) \/ Probed(d, n) \/ Recheck(d, n)
      PROVE  op[d].stage \in Anew /\ op[d].from = "Initial" /\ op'[d].drain = op[d].drain
  <2>1. CASE n = 1
    BY <1>0, <1>3, <2>1 DEF Probe, RecordCursor, Probed, Recheck, Goto, GotoPhase, Restart, Anew, FlowOK, Operations
  <2>2. CASE n = 2
    BY <1>0, <1>3, <2>2 DEF Probe, RecordCursor, Probed, Recheck, Goto, GotoPhase, Restart, Anew, FlowOK, Operations
  <2> QED
    BY <2>1, <2>2
<1>4. CASE InstallMark(d) \/ StartFinish(d) \/ Finish(d)
  BY <1>0, <1>4 DEF InstallMark, StartFinish, Finish, Goto, GotoPhase, Restart, Stop, Idle, Anew, FlowOK, Operations
<1>5. CASE \/ Cleanup(d) \/ Cleaned(d) \/ StartWait(d) \/ Waited(d) \/ Cleanup2(d) \/ StartCheck(d) \/ Scan(d)
           \/ Scanned(d) \/ RecordProven(d) \/ StartMark(d) \/ RecordNotEmpty(d) \/ FailKeeping(d) \/ FailRollingBack(d)
  BY <1>0, <1>5 DEF Cleanup, Cleaned, StartWait, Waited, Cleanup2, StartCheck, Scan, Scanned, RecordProven, StartMark,
                    RecordNotEmpty, FailKeeping, FailRollingBack, Goto, GotoPhase, Stop, Idle, Anew, Operations
<1>6. CASE ClearStale(d) \/ \E w \in Writers : ReleaseExpired(d, w)
  BY <1>6 DEF ClearStale, ReleaseExpired, Anew
<1> QED
  BY <1>1, <1>2, <1>3, <1>4, <1>5, <1>6 DEF Delete

\* When a row that waits for reservations is written, by a deleter on its
\* second pass, or was there before.
LEMMA WaitWritten ==
    ASSUME Inv, [Next]_vars, drain'.id # 0, drain'.id = drain.id, attempt'.drain = drain.id, attempt'.phase = "ReservationWait"
    PROVE  \/ attempt.drain = drain.id /\ attempt.phase = "ReservationWait"
           \/ \E d \in Deleters : Delete(d) /\ op[d].drain = drain.id /\ op[d].stage \in {"cleaned", "wait", "waiting"}
<1>1. NoDrain.id = 0
  BY DEF NoDrain
<1>2. ASSUME NEW d \in Deleters, Delete(d), RowWritten(d)
      PROVE  op[d].drain = drain.id /\ op[d].stage \in {"cleaned", "wait", "waiting"}
  BY <1>2 DEF RowWritten, Inv, FlowInv, FlowOK
<1>3. ASSUME NEW d \in Deleters, Delete(d), RowKept(d)
      PROVE  attempt.drain = drain.id /\ attempt.phase = "ReservationWait"
  BY <1>3 DEF RowKept
<1> QED
  BY <1>1, <1>2, <1>3, AttemptMoves DEF Inv

LEMMA AnewStep ==
    ASSUME Inv, OwnInv, AnewInv, Single, [Next]_vars
    PROVE  AnewInv'
<1> SUFFICES ASSUME drain'.id # 0, attempt'.drain = drain'.id, attempt'.phase = "ReservationWait"
             PROVE  /\ slot' = "None"
                    /\ \A d \in Deleters : op'[d].stage \in Anew /\ op'[d].drain = drain'.id => op'[d].from # "Initial"
  BY DEF AnewInv, Anew
<1> USE DEF Anew
<1>0. NoDrain.id = 0 /\ drains \in Nat /\ attempt.drain <= drains /\ attempt.drain \in Nat
  BY DEF Inv, NoDrain, TypeOK, RowInv
<1>1. drain'.id = drain.id
  <2>1. ASSUME NEW d \in Deleters, BeginDrain(d) PROVE FALSE
    <3>1. attempt' = attempt /\ drain'.id = drains + 1
      BY <2>1 DEF BeginDrain
    <3>2. attempt.drain # drains + 1
      BY <1>0
    <3> QED
      BY <3>1, <3>2
  <2> QED
    BY <1>0, <2>1, DrainMoves DEF Inv
<1>2. slot = "None"
  BY <1>1, WaitWritten DEF AnewInv, OwnInv
<1>3. slot' = "None"
  <2>1. ASSUME NEW d \in Deleters, InstallMark(d) PROVE slot' = "None"
    BY <1>2, <2>1 DEF InstallMark, Authorized
  <2>2. ~InstallControl
    BY <1>1 DEF InstallControl
  <2> QED
    BY <1>2, <2>1, <2>2, SlotMoves DEF FinishControl, FinishMark, Finalize
<1>4. ASSUME NEW d \in Deleters, op'[d].stage \in Anew, op'[d].drain = drain.id, op'[d].from = "Initial" PROVE FALSE
  <2>1. CASE Delete(d)
    <3>1. CASE attempt.drain = drain.id /\ attempt.phase = "ReservationWait"
      <4>1. ~(op[d].stage \in Anew /\ op[d].drain = drain.id /\ op[d].from = "Initial")
        BY <1>1, <3>1 DEF AnewInv
      <4>2. attempt.outcome = "Retryable"
        BY <3>1 DEF Inv, AttemptInv
      <4>3. ResumeFrom(drain'.id) # "Initial"
        BY <1>1, <3>1, <4>2 DEF ResumeFrom
      <4> QED
        BY <1>2, <1>4, <2>1, <4>1, <4>3, AnewMoves
    <3>2. CASE op[d].drain = drain.id /\ op[d].stage \in {"cleaned", "wait", "waiting"}
      BY <1>2, <1>4, <2>1, <3>2, AnewMoves DEF BeginDrain, AdoptDrain
    <3> QED
      BY <1>1, <2>1, <3>1, <3>2, WaitWritten DEF Single
  <2>2. CASE ~Delete(d)
    <3>1. ~\E e \in Deleters : Delete(e)
      BY <2>2 DEF Single
    <3>2. UNCHANGED op
      BY <3>1, OthersIdle
    <3>3. attempt.drain = drain.id /\ attempt.phase = "ReservationWait"
      BY <1>1, <3>1, WaitWritten
    <3> QED
      BY <1>1, <1>4, <3>2, <3>3 DEF AnewInv
  <2> QED
    BY <2>1, <2>2
<1> QED
  BY <1>1, <1>3, <1>4

LEMMA GoodStep ==
    ASSUME Inv, Inv', OwnInv, AnewInv, CursorInv, RowProof, OpProofs, Single, [Next]_vars
    PROVE  CursorInv' /\ RowProof' /\ OpProofs'
<1>0. NoDrain.id = 0 /\ drains \in Nat
  BY DEF Inv, NoDrain, TypeOK
<1>1. attempt' \in Attempts /\ op' \in [Deleters -> Operations]
  BY DEF Inv, TypeOK, Attempts, Operations
<1>2. ASSUME NEW d \in Deleters PROVE Good(attempt, op[d])
  BY DEF CursorInv, RowProof, OpProofs, Good
<1>3. ASSUME NEW d \in Deleters, drain.id # 0, drain'.id = drain.id
      PROVE  CursorOK(attempt, op[d])' /\ RowOK(attempt)' /\ OpOK(attempt, op[d])'
  <2>1. PICK a \in Attempts : a = attempt'
    BY <1>1
  <2>2. PICK o \in Operations : o = op'[d]
    BY <1>1
  <2>3. Good(a, o)
    <3>1. CASE Delete(d)
      BY <1>2, <1>3, <2>1, <2>2, <3>1, DeleteGood
    <3>2. CASE ~Delete(d)
      <4>1. ~\E e \in Deleters : Delete(e)
        BY <3>2 DEF Single
      <4>2. a = attempt /\ o = op[d]
        BY <1>0, <1>3, <2>1, <2>2, <4>1, OthersIdle, AttemptMoves DEF Inv
      <4> QED
        BY <1>2, <4>2
    <3> QED
      BY <3>1, <3>2
  <2>4. Good(a, o)'
    BY <1>3, <2>3, Carry
  <2> QED
    BY <2>1, <2>2, <2>4 DEF Good, CursorOK, RowOK, OpOK
<1>5. CASE drain.id # 0 /\ drain'.id = drain.id
  BY <1>3, <1>5 DEF Single, CursorInv, RowProof, OpProofs
<1>6. CASE drain'.id = 0
  BY <1>6 DEF CursorInv, RowProof, OpProofs, CursorOK, RowOK, OpOK
<1>7. CASE drain.id = 0 /\ drain'.id = drains + 1 /\ \E d \in Deleters : BeginDrain(d)
  <2>1. PICK d \in Deleters : BeginDrain(d)
    BY <1>7
  <2>2. attempt'.drain # drain'.id
    BY <1>7, <2>1 DEF BeginDrain, Inv, TypeOK, RowInv
  <2>3. op'[d].stage = "loop" /\ op'[d].from = "Initial"
    <3>1. op'[d].stage = "loop" /\ op'[d].from = ResumeFrom(op'[d].drain) /\ op'[d].drain = drain'.id /\ attempt' = attempt
      BY <2>1, EnterEffect DEF Inv
    <3> QED
      BY <2>2, <3>1 DEF ResumeFrom
  <2>4. \A e \in Deleters : op'[e].stage = "loop" /\ op'[e].from = "Initial"
    BY <2>3 DEF Single
  <2>5. OpProofs'
    BY <2>4 DEF OpProofs, OpOK, Late, Proving
  <2> QED
    BY <2>2, <2>5 DEF CursorInv, RowProof, CursorOK, RowOK
<1> QED
  BY <1>0, <1>5, <1>6, <1>7, DrainMoves DEF Inv

LEMMA DeletingStep ==
    ASSUME Inv, RowProof, DeletingIsEmpty, [Next]_vars
    PROVE  DeletingIsEmpty'
<1> SUFFICES ASSUME slot' = "Mark" \/ bucket' # "Active"
             PROVE  objects' = {} /\ \A g \in PG : Unpublished(g)'
  BY DEF DeletingIsEmpty, Unpublished
<1> USE DEF rowVars, writeVars
<1>0. commit \in [PG -> Commits \cup {NoCommit}] /\ NoCommit.stage = "none"
  BY TypeNamed DEF Inv, NoCommit
<1>1. CASE slot = "Mark" \/ bucket # "Active"
  <2>1. objects = {} /\ \A g \in PG : commit[g].stage \notin {"validated", "started"}
    BY <1>1 DEF DeletingIsEmpty, Unpublished
  <2>2. CASE UNCHANGED <<commit, objects>>
    BY <2>1, <2>2 DEF Unpublished
  <2>3. CASE \E w \in Writers : Write(w)
    BY <1>0, <2>1, <2>3 DEF Write, Acquire, ReservationExpires, Release, InstallCommit, Unpublished
  <2>4. ASSUME NEW g \in PG, FinishCommit(g) PROVE AbandonCommit(g)
    <3>1. ~LoseSection(g) /\ ~StartCommit(g) /\ ~ApplyCommit(g)
      BY <2>1 DEF LoseSection, StartCommit, ApplyCommit
    <3>2. ASSUME ValidateCommit(g) PROVE FALSE
      <4>1. commit[g].writer \in Writers
        BY <1>0, <3>2 DEF ValidateCommit, Commits
      <4>2. reservation[commit[g].writer] = "live" /\ bucket = "Active"
        BY <3>2 DEF ValidateCommit, ReservationProved
      <4>3. NoReservations
        BY <1>1, <4>2 DEF Inv, RowInv, EvidenceInv
      <4> QED
        BY <4>1, <4>2, <4>3 DEF NoReservations
    <3> QED
      BY <2>4, <3>1, <3>2 DEF FinishCommit
  <2>5. CASE \E g \in PG : FinishCommit(g)
    BY <1>0, <2>1, <2>4, <2>5 DEF AbandonCommit, EndCommit, Unpublished
  <2>6. ASSUME NEW d \in Deleters, Delete(d) PROVE UNCHANGED <<commit, objects>>
    BY <2>6 DEF Delete, BeginDrain, AdoptDrain, ClearStale, LoopProceed, LoopControl, LoopMark, Probe, RecordCursor,
         Probed, Recheck, Cleanup, Cleaned, StartWait, ReleaseExpired, Waited, Cleanup2, StartCheck, Scan, Scanned,
         RecordNotEmpty, RecordProven, StartMark, InstallMark, StartFinish, Finish, FailKeeping, FailRollingBack
  <2>7. InstallControl \/ FinishControl \/ FinishMark \/ DrainExpires \/ ClearExpired \/ Finalize \/ UNCHANGED vars
        => UNCHANGED <<commit, objects>>
    BY DEF InstallControl, FinishControl, FinishMark, DrainExpires, ClearExpired, Finalize, vars
  <2> QED
    BY <2>2, <2>3, <2>5, <2>6, <2>7 DEF Next
<1>2. CASE slot # "Mark" /\ bucket = "Active"
  <2>1. PICK d \in Deleters : InstallMark(d)
    BY <1>2, SlotMoves DEF InstallControl, FinishControl, FinishMark, Finalize
  <2>2. Authorized /\ UNCHANGED <<commit, objects>>
    BY <1>2, <2>1 DEF InstallMark
  <2>3. attempt.phase = "FinalVisibilityProven" /\ drain.id # 0 /\ attempt.drain = drain.id
    BY <1>2, <2>2 DEF Authorized, Inv, AttemptInv, RowInv
  <2>4. Clean(PGs) /\ Empty(PGs)
    BY <2>3 DEF RowProof, RowOK, Proving
  <2>5. \A g \in PG : g < PGs
    BY DefaultTypes
  <2>6. objects = {} /\ \A g \in PG : commit[g] = NoCommit
    BY <2>4, <2>5 DEF Clean, Empty, Inv, TypeOK
  <2> QED
    BY <1>0, <2>2, <2>6 DEF Unpublished
<1> QED
  BY <1>1, <1>2

LEMMA ProofInvCorrect == ASSUME Single PROVE Spec => []ProofInv
<1>1. Init => ProofInv
  BY DEF Init, NoDrain, ProofInv, OwnInv, AnewInv, CursorInv, CursorOK, RowProof, RowOK, OpProofs, OpOK, DeletingIsEmpty
<1>2. Inv /\ Inv' /\ ProofInv /\ [Next]_vars => ProofInv'
  <2> SUFFICES ASSUME Inv, Inv', ProofInv, [Next]_vars PROVE ProofInv'
    OBVIOUS
  <2>1. OwnInv'
    BY OwnStep DEF ProofInv
  <2>2. AnewInv'
    BY AnewStep DEF ProofInv
  <2>3. CursorInv' /\ RowProof' /\ OpProofs'
    BY GoodStep DEF ProofInv
  <2>4. DeletingIsEmpty'
    BY DeletingStep DEF ProofInv
  <2> QED
    BY <2>1, <2>2, <2>3, <2>4 DEF ProofInv
<1> QED
  BY <1>1, <1>2, InvCorrect, PTL DEF Spec

\* As long as deletions of the bucket do not overlap, a bucket whose mark is
\* pending, or applied, holds no visible data and no commit that could still
\* make some, however often the deletion stops, fails, loses its lease or is
\* resumed from the attempt row, on whatever number of placement groups.
\* Two deletions at once share the cursor of the row, and it fails.
THEOREM DeletingIsEmptyCorrect == ASSUME Single PROVE Spec => []DeletingIsEmpty
<1>1. ProofInv => DeletingIsEmpty
  BY DEF ProofInv
<1> QED
  BY <1>1, ProofInvCorrect, PTL

=============================================================================
