--------------------------- MODULE AuthorityStore ---------------------------
(***************************************************************************)
(* The durable store of the single-process control-plane authority: a      *)
(* snapshot file, the snapshot being prepared beside it, and a journal of  *)
(* hash-chained records.  Commands are appended and synced before they are *)
(* acknowledged; a background thread replaces the journal by a snapshot    *)
(* while commands go on; the process may die, or the machine lose power,   *)
(* between any two of its file operations.                                 *)
(*                                                                         *)
(* Source: crates/storage/src/control_plane/single_authority.rs            *)
(*         (FileControlPlaneStore, SingleAuthorityControlPlane::open),     *)
(*         crates/storage/src/durable_journal.rs.                          *)
(*                                                                         *)
(* A snapshot is the sequence of what was applied to reach it: commands,   *)
(* numbered in the order they are submitted, and Restart for the authority *)
(* bump of every open.  A digest is the value it digests (crc64 is taken   *)
(* to be injective), a frame has length 1.                                 *)
(***************************************************************************)
EXTENDS Integers, Sequences, FiniteSets, SequencesExt, FiniteSetsExt

CONSTANTS MaxCommands,  \* bound on the commands submitted
          MaxOpens,     \* bound on the starts of the process
          MaxFaults,    \* bound on the failed writes and syncs
          Absent,       \* a file that does not exist
          Partial,      \* a file whose contents were only partly written
          None,         \* no digest, no capture
          WritesAreOrdered  \* bytes an earlier process left unsynced reach the disk
                            \* no later than the next sync of their directory

ASSUME FaultModelAssumption == WritesAreOrdered \in BOOLEAN
ASSUME BoundsAssumption == MaxCommands \in Nat /\ MaxOpens \in Nat /\ MaxFaults \in Nat

VARIABLES disk,       \* the files as a process of the running system sees them
          survivors,  \* what a loss of power may leave of them
          unsynced,   \* the last frame of the journal was not synced
          apc,        \* the authority thread: where it is in open or in a commit
          cpc,        \* the checkpoint thread
          mem,        \* FileControlPlaneStoreDurability and durable_snapshot
          capture,    \* the checkpoint being persisted
          exposed,    \* the last durable snapshot clients have seen
          submitted,  \* commands submitted so far
          opens,      \* starts of the process so far
          faults      \* writes and syncs that failed so far

vars == <<disk, survivors, unsynced, apc, cpc, mem, capture, exposed, submitted, opens, faults>>

Restart == 0
Commands == 1..MaxCommands

-----------------------------------------------------------------------------
(* Records and the journal file. *)

\* single_authority_snapshot_digest and single_authority_command_chain_digest.
SnapshotDigest(s) == [base |-> s, commands |-> <<>>]
ChainDigest(previous, c) == [previous EXCEPT !.commands = Append(@, c)]

\* SingleAuthorityJournalRecord without its binding: a checkpoint anchor has
\* no command.
Anchor(previous, s) == [kind |-> "anchor", previous |-> previous, resulting |-> SnapshotDigest(s)]
CommandRecord(previous, c) ==
  [kind |-> "command", previous |-> previous, resulting |-> ChainDigest(previous, c), command |-> c]

\* What is left of a frame only part of which was written.
TornFrame == [kind |-> "torn"]

\* The journal file: the logical offset its header names and its frames; a
\* file whose header is not whole has no frame.
Journal(base, frames) == [header |-> TRUE, base |-> base, frames |-> frames]
TornHeader == [header |-> FALSE, base |-> 0, frames |-> <<>>]

\* What the files can hold; a file that is not there, or not whole, is none of it.
Snapshots == Seq(Nat)
Digests == [base : Snapshots, commands : Seq(Nat)]
Records == [kind : {"anchor"}, previous : Digests, resulting : Digests]
           \cup [kind : {"command"}, previous : Digests, resulting : Digests, command : Nat]
Journals == [header : BOOLEAN, base : Nat, frames : Seq(Records \cup {TornFrame})]

ASSUME AbsentAssumption ==
  /\ Absent # Partial
  /\ Absent \notin Snapshots /\ Partial \notin Snapshots
  /\ Absent \notin Journals

HasTornTail(j) == j # Absent /\ j.frames # <<>> /\ Last(j.frames) = TornFrame

\* read_frames_from(base_offset): the whole frames, where they end and whether
\* a torn tail follows; a header that is not whole, or bytes after a torn frame
\* that a later append took for the end of the file, do not decode.
Readable(j) ==
  j = Absent \/ (j.header /\ \A i \in 1..Len(j.frames) - 1 : j.frames[i] # TornFrame)
WholeFrames(j) ==
  IF j = Absent THEN <<>> ELSE IF HasTornTail(j) THEN Front(j.frames) ELSE j.frames
CleanLen(j) == IF j = Absent THEN 0 ELSE j.base + Len(WholeFrames(j))

\* The frames from a logical offset on.
FramesFrom(j, offset) == SubSeq(WholeFrames(j), offset - j.base + 1, Len(WholeFrames(j)))

\* append_frame: the header is written with the first frame.
Appended(j, frame) ==
  IF j = Absent THEN Journal(0, <<frame>>) ELSE [j EXCEPT !.frames = Append(@, frame)]

\* What an append may leave when it is interrupted.
TornAppends(j) ==
  IF j = Absent THEN {TornHeader, Journal(0, <<>>), Journal(0, <<TornFrame>>)}
  ELSE {j, Appended(j, TornFrame)}

-----------------------------------------------------------------------------
(* load. *)

\* Records continue a chain: each one follows the digest before it.
Continues(digest, records) ==
  \A i \in DOMAIN records :
    /\ records[i].kind = "command"
    /\ records[i].previous = (IF i = 1 THEN digest ELSE records[i - 1].resulting)
    /\ records[i].resulting = ChainDigest(records[i].previous, records[i].command)

CommandsOf(records) == [i \in DOMAIN records |-> records[i].command]

\* Positions of the anchors of a snapshot.
AnchorsOf(records, s) ==
  {i \in DOMAIN records : records[i].kind = "anchor" /\ records[i].resulting = SnapshotDigest(s)}

\* The snapshot files that hold a whole snapshot the journal has an anchor of.
AnchoredFiles(d, records) ==
  {f \in {"state", "prepared"} : d[f] \notin {Absent, Partial} /\ AnchorsOf(records, d[f]) # {}}

\* The file whose last anchor comes last; of equals, the prepared one.
CheckpointFile(d, records) ==
  CHOOSE f \in AnchoredFiles(d, records) :
    LET last(g) == Max(AnchorsOf(records, d[g]))
    IN \A g \in AnchoredFiles(d, records) :
         last(g) < last(f) \/ (last(g) = last(f) /\ (g = f \/ f = "prepared"))

\* What load does with the files it finds.  Nothing of an initialisation that
\* was never published is kept unless its anchor and its snapshot are whole.
Load(d) ==
  LET incomplete == d.state = Absent /\ ~d.marker
      records == WholeFrames(d.journal)
      file == CheckpointFile(d, records)
      replayed == SubSeq(records, Max(AnchorsOf(records, d[file])) + 1, Len(records))
      result(outcome) == [outcome |-> outcome]
  IN IF d.journal = Absent /\ incomplete THEN result("fresh")
     ELSE IF d.state = Partial THEN result("refuse")
     ELSE IF incomplete /\ (~Readable(d.journal) \/ \A i \in DOMAIN records : records[i].kind = "command")
     THEN result("discard")
     ELSE IF \/ ~Readable(d.journal)
             \/ AnchoredFiles(d, records) = {}
             \/ ~Continues(SnapshotDigest(d[file]), replayed)
     THEN result("refuse")
     ELSE [outcome |-> "recover", file |-> file,
           snapshot |-> d[file] \o CommandsOf(replayed),
           chain |-> IF replayed = <<>> THEN SnapshotDigest(d[file]) ELSE Last(replayed).resulting,
           clean |-> CleanLen(d.journal), since |-> Len(replayed)]

-----------------------------------------------------------------------------
(* Files and faults.  A directory operation, or the bytes of an append, may *)
(* or may not survive a loss of power until the directory is synced; they   *)
(* become durable in the order they were made.                              *)

\* The snapshot the checkpoint thread writes: the one of its capture.
\* Variant: the one the authority has by now.
CurrentSnapshot == mem.snapshot
CheckpointSnapshot == capture.snapshot

\* Contents an append or the write of the prepared snapshot may have on disk
\* while it is not synced.
JournalImages ==
  IF unsynced /\ (WritesAreOrdered => apc \in {"commit_sync", "serving"})
  THEN LET before == [disk.journal EXCEPT !.frames = Front(@)]
       IN {before, [before EXCEPT !.frames = Append(@, TornFrame)], disk.journal}
  ELSE {disk.journal}
PreparedImages == IF cpc = "prepare_sync" THEN {Partial, CheckpointSnapshot} ELSE {disk.prepared}

\* Files are changed; what was there before may come back.
Changed(next, images) ==
  /\ disk' = next
  /\ survivors' = survivors \cup images \cup {next}

\* The directory and the files of one thread are synced; what the other is
\* writing is not.
Synced(next, journals, prepareds) ==
  /\ disk' = next
  /\ survivors' = {[next EXCEPT !.journal = f[1], !.prepared = f[2]] : f \in journals \X prepareds}

\* The process ends: the files stay as they are seen.
Crash ==
  /\ apc # "down"
  /\ apc' = "down" /\ cpc' = "idle" /\ capture' = None
  /\ UNCHANGED <<disk, survivors, unsynced, mem, exposed, submitted, opens, faults>>

\* The machine loses power.
PowerLoss ==
  /\ \E d \in survivors : disk' = d /\ survivors' = {d}
  /\ unsynced' = FALSE
  /\ apc' = "down" /\ cpc' = "idle" /\ capture' = None
  /\ UNCHANGED <<mem, exposed, submitted, opens, faults>>

-----------------------------------------------------------------------------
(* SingleAuthorityControlPlane::open: load, then a checkpoint of the        *)
(* snapshot with its authority bumped.  A failed write or sync ends the     *)
(* process, as Crash does.                                                  *)

FreshMem == [snapshot |-> <<>>, chain |-> None, clean |-> 0, since |-> 0, due |-> FALSE,
             generation |-> 0, poisoned |-> FALSE]

OpenFrame == Anchor(IF mem.chain = None THEN SnapshotDigest(mem.snapshot) ELSE mem.chain, mem.snapshot)

\* Where open goes when it has read the files: a torn tail is cut off, a
\* prepared snapshot is published.
AfterLoad(l) ==
  IF l.outcome = "fresh" THEN "prepare"
  ELSE IF l.outcome = "discard" THEN "discard"
  ELSE IF HasTornTail(disk.journal) THEN "truncate"
  ELSE IF l.file = "prepared" THEN "adopt"
  ELSE "prepare"

\* load and bump_authority_after_restart; mem.snapshot is the snapshot the
\* checkpoint below is about.  A refusal ends the process.
Open ==
  /\ apc = "down" /\ opens < MaxOpens
  /\ opens' = opens + 1
  /\ LET l == Load(disk)
     IN /\ l.outcome # "refuse"
        /\ apc' = AfterLoad(l)
        /\ mem' = IF l.outcome = "recover"
                  THEN [FreshMem EXCEPT !.snapshot = Append(l.snapshot, Restart), !.chain = l.chain,
                                        !.clean = l.clean, !.since = l.since, !.due = l.since > 0]
                  ELSE FreshMem
  /\ UNCHANGED <<disk, survivors, unsynced, cpc, capture, exposed, submitted, faults>>

\* truncate_to_clean_len.
Truncate ==
  /\ apc = "truncate" /\ apc' = "truncate_sync"
  /\ Changed([disk EXCEPT !.journal.frames = Front(@)], {})
  /\ UNCHANGED <<unsynced, cpc, mem, capture, exposed, submitted, opens, faults>>

\* publish_prepared_snapshot_file of the snapshot load has chosen.
Adopt ==
  /\ apc = "adopt" /\ apc' = "adopt_sync"
  /\ Changed([disk EXCEPT !.state = disk.prepared, !.prepared = Absent], {})
  /\ UNCHANGED <<unsynced, cpc, mem, capture, exposed, submitted, opens, faults>>

\* discard_incomplete_initialization_locked: two files are removed in turn.
Discard ==
  /\ apc = "discard" /\ apc' = "discard_sync"
  /\ Changed([disk EXCEPT !.journal = Absent, !.prepared = Absent], {[disk EXCEPT !.journal = Absent]})
  /\ unsynced' = FALSE
  /\ UNCHANGED <<cpc, mem, capture, exposed, submitted, opens, faults>>

\* write_prepared_snapshot_file: the file is created over the one before.
OpenPrepare ==
  /\ apc = "prepare" /\ apc' = "prepare_sync"
  /\ Changed([disk EXCEPT !.prepared = Partial], {[disk EXCEPT !.prepared = mem.snapshot]})
  /\ UNCHANGED <<unsynced, cpc, mem, capture, exposed, submitted, opens, faults>>

\* The anchor is appended.
OpenAnchor ==
  /\ apc = "anchor" /\ apc' = "anchor_sync"
  /\ Changed([disk EXCEPT !.journal = Appended(@, OpenFrame)],
             {[disk EXCEPT !.journal = j] : j \in TornAppends(disk.journal)})
  /\ unsynced' = TRUE
  /\ UNCHANGED <<cpc, mem, capture, exposed, submitted, opens, faults>>

\* The write of the anchor stops half-way and the process ends.
OpenAnchorTorn ==
  /\ apc = "anchor" /\ faults < MaxFaults
  /\ faults' = faults + 1
  /\ apc' = "down"
  /\ \E j \in TornAppends(disk.journal) :
       Changed([disk EXCEPT !.journal = j], {[disk EXCEPT !.journal = i] : i \in TornAppends(disk.journal)})
  /\ UNCHANGED <<unsynced, cpc, mem, capture, exposed, submitted, opens>>

\* publish_prepared_snapshot_file.
OpenPublish ==
  /\ apc = "publish" /\ apc' = "publish_sync"
  /\ Changed([disk EXCEPT !.state = disk.prepared, !.prepared = Absent], {})
  /\ UNCHANGED <<unsynced, cpc, mem, capture, exposed, submitted, opens, faults>>

\* compact_through: what precedes the anchor is dropped, unless nothing does.
OpenCompact ==
  /\ apc = "compact" /\ apc' = "compact_sync"
  /\ IF mem.clean = disk.journal.base
     THEN UNCHANGED <<disk, survivors>>
     ELSE Changed([disk EXCEPT !.journal = Journal(mem.clean, FramesFrom(@, mem.clean))], {})
  /\ UNCHANGED <<unsynced, cpc, mem, capture, exposed, submitted, opens, faults>>

\* store_single_authority_initialized_binding, when there is no marker yet.
OpenMark ==
  /\ apc = "mark" /\ apc' = "mark_sync"
  /\ Changed([disk EXCEPT !.marker = TRUE], {})
  /\ UNCHANGED <<unsynced, cpc, mem, capture, exposed, submitted, opens, faults>>

\* The order of open's file operations.
\* Variant: the snapshot is published before its anchor is in the journal.
AfterSyncPublishFirst(pc) ==
  CASE pc = "prepare_sync" -> "publish" [] pc = "publish_sync" -> "anchor"
    [] pc = "anchor_sync" -> "compact" [] pc = "compact_sync" -> "mark"
    [] pc = "truncate_sync" -> IF Load(disk).file = "prepared" THEN "adopt" ELSE "prepare"
    [] OTHER -> "prepare"
AfterSync(pc) ==
  CASE pc = "truncate_sync" -> IF Load(disk).file = "prepared" THEN "adopt" ELSE "prepare"
    [] pc \in {"adopt_sync", "discard_sync"} -> "prepare"
    [] pc = "prepare_sync" -> "anchor"
    [] pc = "anchor_sync" -> "publish"
    [] pc = "publish_sync" -> "compact"
    [] pc = "compact_sync" -> "mark"

OpenSyncs == {"truncate_sync", "adopt_sync", "discard_sync", "prepare_sync", "anchor_sync",
              "publish_sync", "compact_sync"}

OpenSync ==
  /\ apc \in OpenSyncs
  /\ apc' = AfterSync(apc)
  /\ LET next == IF apc = "prepare_sync" THEN [disk EXCEPT !.prepared = mem.snapshot] ELSE disk
         journals == IF apc \in {"truncate_sync", "anchor_sync", "compact_sync"}
                     THEN {disk.journal} ELSE JournalImages
     IN Synced(next, journals, {next.prepared})
  /\ unsynced' = (unsynced /\ apc \notin {"truncate_sync", "anchor_sync", "compact_sync"})
  /\ UNCHANGED <<cpc, mem, capture, exposed, submitted, opens, faults>>

\* open returns: the checkpoint's effect on the durability state, and the
\* snapshot is what clients see from now on.
OpenDone ==
  /\ apc = "mark_sync" /\ apc' = "serving"
  /\ Synced(disk, {disk.journal}, {disk.prepared})
  /\ mem' = [mem EXCEPT !.chain = SnapshotDigest(mem.snapshot), !.clean = mem.clean + 1,
                        !.since = 0, !.due = FALSE, !.generation = @ + 1]
  /\ exposed' = mem.snapshot
  /\ UNCHANGED <<unsynced, cpc, capture, submitted, opens, faults>>

-----------------------------------------------------------------------------
(* commit_command, under the durability lock.                               *)

\* The checkpoint thread holds the durability lock.
CheckpointLocked == cpc \in {"replace_sync", "publish", "publish_sync"}

CommitReady == /\ apc = "serving" /\ ~CheckpointLocked
               /\ ~mem.poisoned /\ submitted < MaxCommands

Commit ==
  /\ CommitReady
  /\ submitted' = submitted + 1
  /\ apc' = "commit_sync"
  /\ Changed([disk EXCEPT !.journal = Appended(@, CommandRecord(mem.chain, submitted + 1))],
             {[disk EXCEPT !.journal = j] : j \in TornAppends(disk.journal)})
  /\ unsynced' = TRUE
  /\ UNCHANGED <<cpc, mem, capture, exposed, opens, faults>>

\* A write that fails half-way is ambiguous: no later commit may follow it.
Latched(m) == [m EXCEPT !.poisoned = TRUE]

CommitTorn ==
  /\ CommitReady /\ faults < MaxFaults
  /\ submitted' = submitted + 1
  /\ faults' = faults + 1
  /\ Changed([disk EXCEPT !.journal = Appended(@, TornFrame)], {})
  /\ unsynced' = TRUE
  /\ mem' = Latched(mem)
  /\ UNCHANGED <<apc, cpc, capture, exposed, opens>>

\* File and directory are synced: the command is acknowledged.
CommitSynced ==
  /\ apc = "commit_sync" /\ apc' = "serving"
  /\ Synced(disk, {disk.journal}, PreparedImages)
  /\ unsynced' = FALSE
  /\ mem' = [mem EXCEPT !.snapshot = Append(@, submitted), !.chain = ChainDigest(@, submitted),
                        !.clean = @ + 1, !.since = @ + 1, !.due = TRUE]
  /\ exposed' = mem'.snapshot
  /\ UNCHANGED <<cpc, capture, submitted, opens, faults>>

CommitSyncFails ==
  /\ apc = "commit_sync" /\ faults < MaxFaults
  /\ apc' = "serving"
  /\ faults' = faults + 1
  /\ mem' = Latched(mem)
  /\ UNCHANGED <<disk, survivors, unsynced, cpc, capture, exposed, submitted, opens>>

-----------------------------------------------------------------------------
(* The checkpoint thread: capture under the authority's lock, the prepared  *)
(* snapshot without any, the rest under the durability lock.                *)

\* capture_durable_checkpoint_if_due; the interval makes any journal with a
\* command due after a while.
Capture ==
  /\ cpc = "idle" /\ apc = "serving"
  /\ ~mem.poisoned /\ mem.due
  /\ cpc' = "prepare"
  /\ capture' = [generation |-> mem.generation, offset |-> mem.clean, chain |-> mem.chain,
                 snapshot |-> mem.snapshot]
  /\ UNCHANGED <<disk, survivors, unsynced, apc, mem, exposed, submitted, opens, faults>>

\* validate_checkpoint_capture.
CaptureValid ==
  /\ ~mem.poisoned
  /\ capture.generation = mem.generation
  /\ capture.offset <= mem.clean
  /\ capture.offset \in disk.journal.base..(disk.journal.base + Len(disk.journal.frames))

\* The checkpoint is given up; persist_captured_checkpoint latches what failed
\* after its validation.  The thread then ends the process (see Crash).
GiveUp(latch) ==
  /\ cpc' = "failed"
  /\ mem' = IF latch THEN Latched(mem) ELSE mem

Prepare ==
  /\ cpc = "prepare" /\ apc # "commit_sync"
  /\ IF CaptureValid
     THEN /\ cpc' = "prepare_sync"
          /\ Changed([disk EXCEPT !.prepared = Partial], {[disk EXCEPT !.prepared = CheckpointSnapshot]})
          /\ UNCHANGED mem
     ELSE GiveUp(FALSE) /\ UNCHANGED <<disk, survivors>>
  /\ UNCHANGED <<unsynced, apc, capture, exposed, submitted, opens, faults>>

PrepareSynced ==
  /\ cpc = "prepare_sync" /\ cpc' = "replace"
  /\ LET next == [disk EXCEPT !.prepared = CheckpointSnapshot]
     IN Synced(next, JournalImages, {next.prepared})
  /\ UNCHANGED <<unsynced, apc, mem, capture, exposed, submitted, opens, faults>>

\* The records the journal has gained since the capture.
\* Variant: they are read from the start of the journal.
SuffixFromBase == WholeFrames(disk.journal)
Suffix == FramesFrom(disk.journal, capture.offset)

\* The commands of the suffix on the new anchor, each after the chain of those
\* before it.
\* Variant: a checkpoint that commands overtook forgets them.
RebasedDropped(commands) == <<>>
Rebased(commands) ==
  LET after(i) == [SnapshotDigest(CheckpointSnapshot) EXCEPT !.commands = SubSeq(commands, 1, i)]
  IN [i \in DOMAIN commands |-> CommandRecord(after(i - 1), commands[i])]

SuffixValid ==
  /\ ~HasTornTail(disk.journal)
  /\ Continues(capture.chain, Suffix)
  /\ mem.chain = (IF Suffix = <<>> THEN capture.chain ELSE Last(Suffix).resulting)

\* read_frames_from, the checks of the suffix, and replace_from: a new file
\* takes the journal's name.
Replace ==
  /\ cpc = "replace" /\ apc # "commit_sync"
  /\ IF ~mem.poisoned /\ SuffixValid
     THEN /\ cpc' = "replace_sync"
          /\ Changed([disk EXCEPT !.journal = Journal(capture.offset,
                       <<Anchor(capture.chain, CheckpointSnapshot)>> \o Rebased(CommandsOf(Suffix)))], {})
          /\ UNCHANGED mem
     ELSE GiveUp(TRUE) /\ UNCHANGED <<disk, survivors>>
  /\ unsynced' = (unsynced /\ cpc' = "failed")
  /\ UNCHANGED <<apc, capture, exposed, submitted, opens, faults>>

ReplaceSynced ==
  /\ cpc = "replace_sync" /\ cpc' = "publish"
  /\ Synced(disk, {disk.journal}, {disk.prepared})
  /\ UNCHANGED <<unsynced, apc, mem, capture, exposed, submitted, opens, faults>>

Publish ==
  /\ cpc = "publish" /\ cpc' = "publish_sync"
  /\ Changed([disk EXCEPT !.state = disk.prepared, !.prepared = Absent], {})
  /\ UNCHANGED <<unsynced, apc, mem, capture, exposed, submitted, opens, faults>>

\* The durability state after the checkpoint; commands of the suffix are still
\* to be checkpointed.
\* Variant: nothing is due until the next commit.
AfterCheckpointNotDue(m, frames) ==
  [m EXCEPT !.clean = capture.offset + Len(frames), !.since = Len(frames) - 1, !.due = FALSE,
            !.generation = @ + 1, !.chain = Last(frames).resulting]
\* Variant: the offset does not count the anchor.
AfterCheckpointNoAnchor(m, frames) ==
  [m EXCEPT !.clean = capture.offset + Len(frames) - 1, !.since = Len(frames) - 1, !.due = Len(frames) > 1,
            !.generation = @ + 1, !.chain = Last(frames).resulting]
AfterCheckpoint(m, frames) ==
  [m EXCEPT !.clean = capture.offset + Len(frames), !.since = Len(frames) - 1, !.due = Len(frames) > 1,
            !.generation = @ + 1, !.chain = Last(frames).resulting]

PublishSynced ==
  /\ cpc = "publish_sync" /\ cpc' = "idle"
  /\ Synced(disk, {disk.journal}, {disk.prepared})
  /\ mem' = AfterCheckpoint(mem, disk.journal.frames)
  /\ capture' = None
  /\ UNCHANGED <<unsynced, apc, exposed, submitted, opens, faults>>

\* A write or a sync of the checkpoint fails.
CheckpointFails ==
  /\ cpc \in {"prepare_sync", "replace", "replace_sync", "publish", "publish_sync"}
  /\ faults < MaxFaults
  /\ CheckpointLocked \/ apc # "commit_sync"
  /\ faults' = faults + 1
  /\ GiveUp(TRUE)
  /\ \/ UNCHANGED <<disk, survivors>>
     \/ cpc = "prepare_sync" /\ Changed([disk EXCEPT !.prepared = CheckpointSnapshot], {})
  /\ UNCHANGED <<unsynced, apc, capture, exposed, submitted, opens>>

-----------------------------------------------------------------------------
EmptyDisk == [state |-> Absent, prepared |-> Absent, journal |-> Absent, marker |-> FALSE]

Init ==
  /\ disk = EmptyDisk /\ survivors = {EmptyDisk} /\ unsynced = FALSE
  /\ apc = "down" /\ cpc = "idle" /\ mem = FreshMem /\ capture = None
  /\ exposed = <<>> /\ submitted = 0 /\ opens = 0 /\ faults = 0

OpenStep ==
  \/ Open \/ Truncate \/ Adopt \/ Discard \/ OpenPrepare \/ OpenAnchor \/ OpenAnchorTorn
  \/ OpenPublish \/ OpenCompact \/ OpenMark \/ OpenSync \/ OpenDone
CommitStep == Commit \/ CommitTorn \/ CommitSynced \/ CommitSyncFails
CheckpointStep == Capture \/ Prepare \/ PrepareSynced \/ Replace \/ ReplaceSynced \/ Publish \/ PublishSynced

Next == OpenStep \/ CommitStep \/ CheckpointStep \/ CheckpointFails \/ Crash \/ PowerLoss

Spec == Init /\ [][Next]_vars

\* The checkpoint loop never stops polling and syncs return.
FairSpec == Spec /\ WF_vars(CheckpointStep) /\ WF_vars(CommitSynced)

-----------------------------------------------------------------------------
(* Properties.                                                              *)

Images == survivors \cup {disk}

\* Wherever the process dies or power is lost, in open, in a commit, in a
\* checkpoint that runs beside commits, or in the recovery from an earlier
\* crash, load finds a checkpoint with its anchor and recovers a snapshot that
\* holds everything clients have been shown (load, commit_command,
\* persist_captured_checkpoint_inner, checkpoint_snapshot_locked).
EveryCrashImageRecovers ==
  \A d \in Images :
    LET l == Load(d)
    IN /\ l.outcome # "refuse"
       /\ exposed # <<>> => l.outcome = "recover" /\ IsPrefix(exposed, l.snapshot)

\* No crash image applies a command twice: a checkpoint that was taken while
\* commands went on holds each of them either in its snapshot or in the
\* rebased suffix.
AppliedOnce ==
  \A d \in Images :
    LET l == Load(d)
    IN l.outcome = "recover" =>
         \A c \in Commands : Cardinality({i \in DOMAIN l.snapshot : l.snapshot[i] = c}) <= 1

\* Between operations, what load would rebuild from the files is exactly what
\* the healthy authority has in memory, chain digest, offset and count of
\* commands since the checkpoint included.
MemoryMatchesFiles ==
  (apc = "serving" /\ ~CheckpointLocked /\ ~mem.poisoned) =>
    LET l == Load(disk)
    IN /\ l.outcome = "recover" /\ ~HasTornTail(disk.journal)
       /\ l.snapshot = mem.snapshot /\ l.chain = mem.chain
       /\ l.clean = mem.clean /\ l.since = mem.since

\* The store never poisons itself: a checkpoint is given up only after a write
\* or a sync has failed, whatever commits ran beside it.
OnlyFaultsPoison == (mem.poisoned \/ cpc = "failed") => faults > 0

\* Nothing clients have been shown is taken back, over any number of crashes:
\* what they see is only ever extended.
ExposedOnlyGrows == [][IsPrefix(exposed, exposed')]_vars

\* While the process lives and nothing fails, every command that was committed
\* is eventually in a checkpoint, also one that was committed while the
\* checkpoint before it was being written.
JournalIsCheckpointed ==
  (apc = "serving" /\ mem.since > 0) ~> (mem.since = 0 \/ mem.poisoned \/ apc = "down")
=============================================================================
