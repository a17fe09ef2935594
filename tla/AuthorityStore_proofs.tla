----------------------- MODULE AuthorityStore_proofs ------------------------
(***************************************************************************)
(* Proofs about AuthorityStore for any number of commands, starts, crashes *)
(* and failed writes, for a file system that writes bytes back in order.   *)
(***************************************************************************)
EXTENDS AuthorityStore, SequenceTheorems, WellFoundedInduction, FiniteSetTheorems, TLAPS

-----------------------------------------------------------------------------
(***************************************************************************)
(* What files stand for.                                                   *)
(***************************************************************************)

Files == [state : Snapshots \cup {Absent}, prepared : Snapshots \cup {Absent, Partial},
          journal : Journals \cup {Absent}, marker : BOOLEAN]

\* The last anchor of records r is at k, it is that of snapshot S, and what
\* follows is a chain of commands.
Chained(r, k, S) ==
  /\ k \in DOMAIN r
  /\ r[k].kind = "anchor" /\ r[k].resulting = SnapshotDigest(S)
  /\ \A i \in DOMAIN r : i > k => /\ r[i].kind = "command"
                                  /\ r[i].previous = r[i - 1].resulting
                                  /\ r[i].resulting = ChainDigest(r[i].previous, r[i].command)

\* The snapshot s that it stands for.
Replays(r, k, S, s) ==
  /\ Len(s) = Len(S) + Len(r) - k
  /\ \A i \in 1..Len(S) : s[i] = S[i]
  /\ \A i \in 1..Len(r) - k : s[Len(S) + i] = r[k + i].command

\* Snapshot s holds what clients were shown, e, and no command twice, and none
\* beyond the n submitted.
Shown(s, e, n) ==
  /\ Len(e) <= Len(s) /\ \A i \in 1..Len(e) : e[i] = s[i]
  /\ \A i \in 1..Len(s) : s[i] <= n
  /\ \A i, j \in 1..Len(s) : s[i] = s[j] /\ s[i] # Restart => i = j

\* Files d hold snapshot s, by the anchor at k of the whole snapshot S.
Recovers(d, k, S, s) ==
  /\ d.journal # Absent /\ Readable(d.journal)
  /\ Chained(WholeFrames(d.journal), k, S)
  /\ Replays(WholeFrames(d.journal), k, S, s)
  /\ S \notin {Absent, Partial} /\ (S = d.state \/ S = d.prepared)

\* Files of an initialisation that has not come to its anchor.
Blank(d) ==
  /\ d.state = Absent /\ ~d.marker
  /\ d.journal \in {Absent, TornHeader, Journal(0, <<>>), Journal(0, <<TornFrame>>)}

\* Files d are nothing to recover from, with nothing shown, or hold what was
\* shown.
Fine(d, e, n) ==
  \/ Blank(d) /\ e = <<>>
  \/ \E k \in Nat, S \in Snapshots, s \in Snapshots : Recovers(d, k, S, s) /\ Shown(s, e, n)

-----------------------------------------------------------------------------
(***************************************************************************)
(* The inductive invariant.                                                *)
(***************************************************************************)

Memories == [snapshot : Snapshots, chain : Digests \cup {None}, clean : Nat, since : Nat, due : BOOLEAN,
             generation : Nat, poisoned : BOOLEAN]
Captures == [generation : Nat, offset : Nat, chain : Digests, snapshot : Snapshots]

Preparing == {"prepare", "prepare_sync", "replace"}
Locked == {"replace_sync", "publish", "publish_sync"}
Serving == {"serving", "commit_sync"}
Loading == {"truncate", "truncate_sync", "adopt", "adopt_sync", "discard", "discard_sync", "prepare", "prepare_sync",
            "anchor"}
Anchoring == {"anchor_sync", "publish", "publish_sync", "compact", "compact_sync", "mark", "mark_sync"}

TypeInv ==
  /\ disk \in Files /\ survivors \subseteq Files /\ unsynced \in BOOLEAN
  /\ apc \in {"down"} \cup Serving \cup Loading \cup Anchoring
  /\ cpc \in {"idle", "failed"} \cup Preparing \cup Locked
  /\ mem \in Memories
  /\ cpc \in Preparing \cup Locked => capture \in Captures
  /\ exposed \in Snapshots /\ submitted \in Nat /\ faults \in Nat

\* A journal of whole records.
WholeJournal(j) == j # Absent /\ j.header /\ j.frames \in Seq(Records)

\* While open is about to write the anchor, the files hold the snapshot that
\* was loaded, or nothing at all.
Loaded(k, S, s) ==
  /\ Recovers(disk, k, S, s) /\ Shown(s, exposed, submitted)
  /\ mem.snapshot = Append(s, Restart)
  /\ mem.clean = CleanLen(disk.journal)

FreshOpen == Blank(disk) /\ exposed = <<>> /\ mem = FreshMem

LoadInv ==
  /\ apc \in {"truncate", "truncate_sync", "adopt"} =>
       \E k \in Nat, S \in Snapshots, s \in Snapshots :
         /\ Loaded(k, S, s)
         /\ apc = "truncate" => HasTornTail(disk.journal)
         /\ apc # "truncate" => ~HasTornTail(disk.journal)
         /\ apc = "adopt" => disk.prepared = S
  /\ apc \in {"adopt_sync", "discard_sync", "prepare", "prepare_sync", "anchor"} =>
       \/ FreshOpen /\ disk.journal = Absent
       \/ \E k \in Nat, s \in Snapshots :
            Loaded(k, disk.state, s) /\ ~HasTornTail(disk.journal)
  /\ apc = "discard" => FreshOpen
  /\ apc = "anchor" => disk.prepared = mem.snapshot

\* Afterwards, the anchor is the last record.
AnchorInv ==
  apc \in Anchoring =>
    /\ WholeJournal(disk.journal)
    /\ Chained(disk.journal.frames, Len(disk.journal.frames), mem.snapshot)
    /\ disk.journal.base + Len(disk.journal.frames) = mem.clean + 1
    /\ Shown(mem.snapshot, exposed, submitted)
    /\ apc \in {"anchor_sync", "publish"} => disk.prepared = mem.snapshot
    /\ apc \notin {"anchor_sync", "publish"} => disk.state = mem.snapshot
    /\ apc \in {"compact_sync", "mark", "mark_sync"} => Len(disk.journal.frames) = 1
    /\ apc # "anchor_sync" => ~unsynced

\* The memory of the authority is what the first records r of the journal say.
Backed(r) ==
  /\ disk.state \in Snapshots
  /\ Chained(r, 1, disk.state) /\ Replays(r, 1, disk.state, mem.snapshot)
  /\ mem.chain = r[Len(r)].resulting
  /\ mem.clean = disk.journal.base + Len(r)
  /\ mem.since = Len(r) - 1

ServeInv ==
  /\ apc \in Serving => exposed = mem.snapshot /\ Shown(mem.snapshot, exposed, submitted)
  /\ apc = "serving" /\ ~mem.poisoned /\ ~CheckpointLocked =>
       WholeJournal(disk.journal) /\ Backed(disk.journal.frames) /\ ~unsynced
  /\ apc = "commit_sync" =>
       /\ ~mem.poisoned /\ ~CheckpointLocked /\ WholeJournal(disk.journal)
       /\ \E r \in Seq(Records) :
            /\ Backed(r)
            /\ disk.journal = Journal(disk.journal.base, Append(r, CommandRecord(mem.chain, submitted)))
       /\ \A i \in 1..Len(mem.snapshot) : mem.snapshot[i] < submitted

\* A journal j that holds what was shown, together with state file S.
Solid(j, S, e, n) ==
  /\ j \in Journals /\ j # Absent /\ Readable(j) /\ S \in Snapshots
  /\ \E k \in Nat, s \in Snapshots :
       Chained(WholeFrames(j), k, S) /\ Replays(WholeFrames(j), k, S, s) /\ Shown(s, e, n)

\* The checkpoint thread.
ThreadInv ==
  /\ cpc # "idle" => apc \in Serving
  /\ cpc = "replace" => disk.prepared = capture.snapshot
  /\ cpc = "failed" => mem.poisoned
  /\ apc \in Loading \cup Anchoring => ~mem.poisoned
  /\ mem.poisoned => faults > 0

PoisonInv ==
  mem.poisoned /\ cpc \in Preparing =>
    \A j \in JournalImages \cup {disk.journal} : Solid(j, disk.state, exposed, submitted)

CaptureInv ==
  cpc \in Preparing /\ ~mem.poisoned =>
    /\ capture.generation = mem.generation
    /\ capture.offset <= mem.clean
    /\ capture.offset - disk.journal.base \in 1..Len(disk.journal.frames)
    /\ capture.chain = disk.journal.frames[capture.offset - disk.journal.base].resulting
    /\ Len(mem.snapshot) - Len(capture.snapshot) = mem.clean - capture.offset
    /\ \A i \in 1..Len(capture.snapshot) : capture.snapshot[i] = mem.snapshot[i]

LockedInv ==
  CheckpointLocked =>
    /\ apc = "serving" /\ ~mem.poisoned /\ ~unsynced
    /\ WholeJournal(disk.journal) /\ disk.journal.base = capture.offset
    /\ Chained(disk.journal.frames, 1, capture.snapshot)
    /\ Replays(disk.journal.frames, 1, capture.snapshot, mem.snapshot)
    /\ cpc \in {"replace_sync", "publish"} => disk.prepared = capture.snapshot
    /\ cpc = "publish_sync" => disk.state = capture.snapshot

ImagesInv == \A d \in Images : Fine(d, exposed, submitted)

Inv == /\ TypeInv /\ ImagesInv /\ LoadInv /\ AnchorInv /\ ServeInv
       /\ ThreadInv /\ PoisonInv /\ CaptureInv /\ LockedInv

-----------------------------------------------------------------------------
(***************************************************************************)
(* Journals.                                                               *)
(***************************************************************************)

LEMMA RecordFacts ==
  /\ TornFrame \notin Records
  /\ \A f \in Records : f.kind \in {"anchor", "command"} /\ f.resulting \in Digests
  /\ \A f \in Records : f.kind = "command" => f.command \in Nat
BY DEF TornFrame, Records

LEMMA DigestFacts ==
  ASSUME NEW s \in Snapshots, NEW dg \in Digests, NEW c \in Nat
  PROVE  /\ SnapshotDigest(s) \in Digests
         /\ ChainDigest(dg, c) \in Digests
         /\ Anchor(dg, s) \in Records /\ Anchor(dg, s).kind = "anchor" /\ Anchor(dg, s).resulting = SnapshotDigest(s)
         /\ CommandRecord(dg, c) \in Records /\ CommandRecord(dg, c).kind = "command"
         /\ CommandRecord(dg, c).previous = dg /\ CommandRecord(dg, c).command = c
         /\ CommandRecord(dg, c).resulting = ChainDigest(dg, c)
<1>1. <<>> \in Seq(Nat)
  BY EmptySeq
<1>2. SnapshotDigest(s) \in Digests
  BY <1>1 DEF SnapshotDigest, Digests
<1>3. ChainDigest(dg, c) \in Digests
  <2>1. dg.commands \in Seq(Nat) /\ dg.base \in Snapshots
    BY DEF Digests
  <2>2. Append(dg.commands, c) \in Seq(Nat)
    BY <2>1, AppendProperties
  <2> QED
    BY <2>1, <2>2 DEF ChainDigest, Digests
<1>4. Anchor(dg, s) \in Records
  BY <1>2 DEF Anchor, Records
<1>5. CommandRecord(dg, c) \in Records
  BY <1>3 DEF CommandRecord, Records
<1> QED
  BY <1>2, <1>3, <1>4, <1>5 DEF Anchor, CommandRecord

LEMMA CommandFacts ==
  ASSUME NEW dg \in Digests, NEW c \in Nat
  PROVE  /\ CommandRecord(dg, c) \in Records /\ CommandRecord(dg, c).kind = "command"
         /\ CommandRecord(dg, c).previous = dg /\ CommandRecord(dg, c).command = c
         /\ CommandRecord(dg, c).resulting = ChainDigest(dg, c)
<1>1. <<>> \in Snapshots
  BY EmptySeq DEF Snapshots
<1> QED
  BY <1>1, DigestFacts

\* The digest of a snapshot tells it.
LEMMA DigestInjective ==
  ASSUME NEW s, NEW t, SnapshotDigest(s) = SnapshotDigest(t)
  PROVE  s = t
<1>1. SnapshotDigest(s).base = s /\ SnapshotDigest(t).base = t
  BY DEF SnapshotDigest
<1> QED
  BY <1>1

LEMMA AppendFacts ==
  ASSUME NEW S, NEW r \in Seq(S), NEW e \in S
  PROVE  /\ Append(r, e) \in Seq(S) /\ Append(r, e) # <<>> /\ Len(Append(r, e)) = Len(r) + 1
         /\ \A i \in 1..Len(r) : Append(r, e)[i] = r[i]
         /\ Append(r, e)[Len(r) + 1] = e
         /\ Last(Append(r, e)) = e
         /\ Front(Append(r, e)) = r
         /\ Len(r) \in Nat /\ DOMAIN r = 1..Len(r) /\ DOMAIN Append(r, e) = 1..Len(r) + 1
<1>1. /\ Append(r, e) \in Seq(S) /\ Append(r, e) # <<>> /\ Len(Append(r, e)) = Len(r) + 1
      /\ \A i \in 1..Len(r) : Append(r, e)[i] = r[i]
      /\ Append(r, e)[Len(r) + 1] = e
  BY AppendProperties
<1>2. Len(r) \in Nat /\ DOMAIN r = 1..Len(r) /\ DOMAIN Append(r, e) = 1..Len(r) + 1
  BY <1>1, LenProperties
<1>3. Last(Append(r, e)) = e
  BY <1>1 DEF Last
<1>4. Front(Append(r, e)) = r
  <2>1. Front(Append(r, e)) = SubSeq(Append(r, e), 1, Len(r))
    BY <1>1, <1>2 DEF Front
  <2>2. \A i \in 1..Len(r) : Append(r, e)[i] \in S
    BY <1>1, ElementOfSeq
  <2>3. /\ SubSeq(Append(r, e), 1, Len(r)) \in Seq(S)
        /\ Len(SubSeq(Append(r, e), 1, Len(r))) = IF 1 <= Len(r) THEN Len(r) - 1 + 1 ELSE 0
        /\ \A i \in 1..Len(r) - 1 + 1 : SubSeq(Append(r, e), 1, Len(r))[i] = Append(r, e)[1 + i - 1]
    BY <1>2, <2>2, SubSeqProperties
  <2>4. Len(SubSeq(Append(r, e), 1, Len(r))) = Len(r)
    BY <1>2, <2>3
  <2>5. \A i \in 1..Len(r) : SubSeq(Append(r, e), 1, Len(r))[i] = r[i]
    <3>1. ASSUME NEW i \in 1..Len(r) PROVE SubSeq(Append(r, e), 1, Len(r))[i] = r[i]
      <4>1. 1 + i - 1 = i /\ i \in 1..Len(r) - 1 + 1
        BY <1>2
      <4> QED
        BY <1>1, <2>3, <4>1
    <3> QED
      BY <3>1
  <2> QED
    BY <2>1, <2>3, <2>4, <2>5, SeqEqual
<1> QED
  BY <1>1, <1>2, <1>3, <1>4

\* A journal of whole records, and one with a torn tail.
LEMMA CleanReads ==
  ASSUME NEW b \in Nat, NEW r \in Seq(Records)
  PROVE  LET j == Journal(b, r)
         IN /\ j \in Journals /\ j # Absent /\ j.header /\ j.base = b /\ j.frames = r
            /\ Readable(j) /\ ~HasTornTail(j) /\ WholeFrames(j) = r /\ CleanLen(j) = b + Len(r)
            /\ WholeJournal(j)
<1> DEFINE j == Journal(b, r)
<1>1. j.header = TRUE /\ j.base = b /\ j.frames = r
  BY DEF Journal
<1>2. r \in Seq(Records \cup {TornFrame})
  BY SeqMonotonic
<1>3. j \in Journals
  BY <1>2 DEF Journals, Journal
<1>4. j # Absent
  BY <1>3, AbsentAssumption
<1>5. \A i \in 1..Len(r) : r[i] # TornFrame
  BY ElementOfSeq, RecordFacts
<1>6. Len(r) \in Nat /\ (r # <<>> => Len(r) # 0)
  BY LenProperties, EmptySeq
<1> HIDE DEF j
<1>7. ~HasTornTail(j)
  BY <1>1, <1>5, <1>6 DEF HasTornTail, Last
<1>8. Readable(j)
  BY <1>1, <1>5, <1>6 DEF Readable
<1>9. WholeFrames(j) = r
  BY <1>1, <1>4, <1>7 DEF WholeFrames
<1>10. CleanLen(j) = b + Len(r)
  BY <1>1, <1>4, <1>9 DEF CleanLen
<1>11. WholeJournal(j)
  BY <1>1, <1>4 DEF WholeJournal
<1> QED
  BY <1>1, <1>3, <1>4, <1>7, <1>8, <1>9, <1>10, <1>11 DEF j

LEMMA TornReads ==
  ASSUME NEW b \in Nat, NEW r \in Seq(Records)
  PROVE  LET j == Journal(b, Append(r, TornFrame))
         IN /\ j \in Journals /\ j # Absent /\ j.header /\ j.base = b /\ j.frames = Append(r, TornFrame)
            /\ Readable(j) /\ HasTornTail(j) /\ WholeFrames(j) = r /\ CleanLen(j) = b + Len(r)
<1> DEFINE F == Records \cup {TornFrame}
           j == Journal(b, Append(r, TornFrame))
<1>1. j.header = TRUE /\ j.base = b /\ j.frames = Append(r, TornFrame)
  BY DEF Journal
<1>2. r \in Seq(F) /\ TornFrame \in F
  BY SeqMonotonic
<1>3. /\ Append(r, TornFrame) \in Seq(F) /\ Append(r, TornFrame) # <<>> /\ Len(Append(r, TornFrame)) = Len(r) + 1
      /\ \A i \in 1..Len(r) : Append(r, TornFrame)[i] = r[i]
      /\ Last(Append(r, TornFrame)) = TornFrame
      /\ Front(Append(r, TornFrame)) = r
      /\ Len(r) \in Nat
  BY <1>2, AppendFacts
<1>4. j \in Journals
  BY <1>3 DEF Journals, Journal
<1>5. j # Absent
  BY <1>4, AbsentAssumption
<1>6. \A i \in 1..Len(r) : r[i] # TornFrame
  BY ElementOfSeq, RecordFacts
<1> HIDE DEF j, F
<1>7. HasTornTail(j)
  BY <1>1, <1>3, <1>5 DEF HasTornTail
<1>8. Readable(j)
  <2>1. ASSUME NEW i \in 1..Len(j.frames) - 1 PROVE j.frames[i] # TornFrame
    <3>1. i \in 1..Len(r)
      BY <1>1, <1>3
    <3> QED
      BY <1>1, <1>3, <1>6, <3>1
  <2> QED
    BY <1>1, <2>1 DEF Readable
<1>9. WholeFrames(j) = r
  BY <1>1, <1>3, <1>5, <1>7 DEF WholeFrames
<1>10. CleanLen(j) = b + Len(r)
  BY <1>1, <1>5, <1>9 DEF CleanLen
<1> QED
  BY <1>1, <1>4, <1>5, <1>7, <1>8, <1>9, <1>10 DEF j

\* Every journal that can be read is one of the two.
LEMMA ShapeOf ==
  ASSUME NEW j \in Journals, Readable(j)
  PROVE  /\ j # Absent /\ j.header /\ j.base \in Nat /\ WholeFrames(j) \in Seq(Records)
         /\ ~HasTornTail(j) => j = Journal(j.base, WholeFrames(j)) /\ j.frames = WholeFrames(j)
         /\ HasTornTail(j) => j = Journal(j.base, Append(WholeFrames(j), TornFrame))
<1> DEFINE F == Records \cup {TornFrame}
           r == j.frames
<1>1. j # Absent
  BY AbsentAssumption
<1>2. j.base \in Nat /\ r \in Seq(F) /\ j.header = TRUE
  BY <1>1 DEF Journals, Readable
<1>3. j = Journal(j.base, r)
  BY <1>2 DEF Journal, Journals
<1>4. \A i \in 1..Len(r) - 1 : r[i] # TornFrame
  BY <1>1 DEF Readable
<1>5. Len(r) \in Nat /\ \A i \in 1..Len(r) : r[i] \in F
  BY <1>2, LenProperties, ElementOfSeq
<1>6. CASE ~HasTornTail(j)
  <2>1. WholeFrames(j) = r
    BY <1>1, <1>6 DEF WholeFrames
  <2>2. r # <<>> => r[Len(r)] # TornFrame
    BY <1>1, <1>6 DEF HasTornTail, Last
  <2>3. \A i \in 1..Len(r) : r[i] \in Records
    BY <1>4, <1>5, <2>2, <1>2, EmptySeq
  <2>4. SubSeq(r, 1, Len(r)) \in Seq(Records) /\ SubSeq(r, 1, Len(r)) = r
    BY <1>2, <1>5, <2>3, SubSeqProperties, SubSeqFull
  <2> QED
    BY <1>1, <1>2, <1>3, <1>6, <2>1, <2>4
<1>7. CASE HasTornTail(j)
  <2>1. WholeFrames(j) = Front(r) /\ r # <<>> /\ r[Len(r)] = TornFrame
    BY <1>1, <1>7 DEF WholeFrames, HasTornTail, Last
  <2>2. Len(r) # 0
    BY <1>2, <2>1, EmptySeq
  <2>3. \A i \in 1..Len(r) - 1 : r[i] \in Records
    BY <1>4, <1>5
  <2>4. /\ SubSeq(r, 1, Len(r) - 1) \in Seq(Records)
        /\ Len(SubSeq(r, 1, Len(r) - 1)) = IF 1 <= Len(r) - 1 THEN Len(r) - 1 - 1 + 1 ELSE 0
        /\ \A i \in 1..Len(r) - 1 - 1 + 1 : SubSeq(r, 1, Len(r) - 1)[i] = r[1 + i - 1]
    BY <1>5, <2>3, SubSeqProperties
  <2>5. PICK w \in Seq(Records) : w = Front(r) /\ Len(w) = Len(r) - 1 /\ \A i \in 1..Len(w) : w[i] = r[i]
    <3>1. Len(Front(r)) = Len(r) - 1
      BY <1>5, <2>2, <2>4 DEF Front
    <3>2. ASSUME NEW i \in 1..Len(r) - 1 PROVE Front(r)[i] = r[i]
      <4>1. 1 + i - 1 = i /\ i \in 1..Len(r) - 1 - 1 + 1
        BY <1>5
      <4> QED
        BY <2>4, <4>1 DEF Front
    <3> QED
      BY <2>4, <3>1, <3>2 DEF Front
  <2>6. w \in Seq(F)
    BY SeqMonotonic
  <2>7. Append(w, TornFrame) = r
    <3>1. /\ Append(w, TornFrame) \in Seq(F) /\ Len(Append(w, TornFrame)) = Len(w) + 1
          /\ \A i \in 1..Len(w) : Append(w, TornFrame)[i] = w[i]
          /\ Append(w, TornFrame)[Len(w) + 1] = TornFrame
      BY <2>6, AppendFacts
    <3>2. Len(Append(w, TornFrame)) = Len(r)
      BY <1>5, <2>5, <3>1
    <3>3. ASSUME NEW i \in 1..Len(r) PROVE Append(w, TornFrame)[i] = r[i]
      <4>1. i \in 1..Len(w) \/ (i = Len(w) + 1 /\ i = Len(r))
        BY <1>5, <2>5
      <4> QED
        BY <2>1, <2>5, <3>1, <4>1
    <3> QED
      BY <1>2, <3>1, <3>2, <3>3, SeqEqual
  <2> QED
    BY <1>1, <1>2, <1>3, <1>7, <2>1, <2>5, <2>7
<1> QED
  BY <1>6, <1>7

-----------------------------------------------------------------------------
(***************************************************************************)
(* load.                                                                   *)
(***************************************************************************)

\* A set of positions has a last one.
LEMMA LastPosition ==
  ASSUME NEW n \in Nat, NEW A, A \subseteq 1..n, A # {}
  PROVE  Max(A) \in A /\ \A y \in A : y <= Max(A)
<1> DEFINE R == OpToRel(<, Nat)
           T == {n - x : x \in A}
<1>1. IsWellFoundedOn(R, Nat)
  BY NatLessThanWellFounded
<1>2. T \subseteq Nat /\ T # {}
  <2>1. \A x \in A : x \in 1..n
    OBVIOUS
  <2>2. \A x \in 1..n : n - x \in Nat
    OBVIOUS
  <2>3. T \subseteq Nat
    BY <2>1, <2>2
  <2>4. T # {}
    OBVIOUS
  <2> QED
    BY <2>3, <2>4
<1>3. PICK m \in T : \A y \in T : ~(<<y, m>> \in R)
  <2> HIDE DEF T, R
  <2> QED
    BY <1>1, <1>2, WFMin
<1>4. \A y \in T : ~(y < m)
  BY <1>2, <1>3 DEF OpToRel
<1>5. PICK x \in A : m = n - x
  BY <1>3
<1>6. \A y \in A : x >= y
  <2>1. ASSUME NEW y \in A PROVE x >= y
    <3>1. ~(n - y < m)
      BY <1>4
    <3> QED
      BY <1>5, <3>1
  <2> QED
    BY <2>1
<1>7. \E z \in A : \A y \in A : z >= y
  BY <1>6
<1>8. Max(A) \in A /\ \A y \in A : Max(A) >= y
  BY <1>7 DEF Max
<1> QED
  BY <1>8

\* The records after position q of a chain.
LEMMA SuffixFacts ==
  ASSUME NEW r \in Seq(Records), NEW q \in 0..Len(r)
  PROVE  LET t == SubSeq(r, q + 1, Len(r))
         IN /\ t \in Seq(Records) /\ Len(t) = Len(r) - q /\ DOMAIN t = 1..Len(r) - q
            /\ \A i \in 1..Len(r) - q : t[i] = r[q + i]
            /\ t = <<>> <=> q = Len(r)
            /\ q < Len(r) => Last(t) = r[Len(r)]
<1> DEFINE t == SubSeq(r, q + 1, Len(r))
<1>1. Len(r) \in Nat /\ \A i \in 1..Len(r) : r[i] \in Records
  BY LenProperties, ElementOfSeq
<1>2. \A i \in q + 1..Len(r) : r[i] \in Records
  BY <1>1
<1>3. /\ t \in Seq(Records)
      /\ Len(t) = IF q + 1 <= Len(r) THEN Len(r) - (q + 1) + 1 ELSE 0
      /\ \A i \in 1..Len(r) - (q + 1) + 1 : t[i] = r[q + 1 + i - 1]
  BY <1>1, <1>2, SubSeqProperties
<1>4. Len(t) = Len(r) - q
  BY <1>1, <1>3
<1>5. \A i \in 1..Len(r) - q : t[i] = r[q + i]
  <2>1. ASSUME NEW i \in 1..Len(r) - q PROVE t[i] = r[q + i]
    <3>1. i \in 1..Len(r) - (q + 1) + 1 /\ q + 1 + i - 1 = q + i
      BY <1>1
    <3> QED
      BY <1>3, <3>1
  <2> QED
    BY <2>1
<1>6. DOMAIN t = 1..Len(r) - q
  BY <1>3, <1>4, LenProperties
<1> HIDE DEF t
<1>7. t = <<>> <=> q = Len(r)
  BY <1>1, <1>3, <1>4, EmptySeq
<1>8. q < Len(r) => Last(t) = r[Len(r)]
  <2>1. q < Len(r) => Len(r) - q \in 1..Len(r) - q /\ q + (Len(r) - q) = Len(r)
    BY <1>1
  <2> QED
    BY <1>4, <1>5, <2>1 DEF Last
<1> QED
  BY <1>3, <1>4, <1>5, <1>6, <1>7, <1>8 DEF t

LEMMA SuffixContinues ==
  ASSUME NEW r \in Seq(Records), NEW k, NEW S, Chained(r, k, S), NEW q \in k..Len(r)
  PROVE  Continues(r[q].resulting, SubSeq(r, q + 1, Len(r)))
<1> DEFINE t == SubSeq(r, q + 1, Len(r))
<1>1. Len(r) \in Nat /\ DOMAIN r = 1..Len(r) /\ k \in 1..Len(r) /\ q \in 0..Len(r)
  BY LenProperties DEF Chained
<1>2. /\ DOMAIN t = 1..Len(r) - q
      /\ \A i \in 1..Len(r) - q : t[i] = r[q + i]
  BY <1>1, SuffixFacts
<1> HIDE DEF t
<1>3. ASSUME NEW i \in 1..Len(r) - q
      PROVE  /\ t[i].kind = "command"
             /\ t[i].previous = (IF i = 1 THEN r[q].resulting ELSE t[i - 1].resulting)
             /\ t[i].resulting = ChainDigest(t[i].previous, t[i].command)
  <2>1. q + i \in DOMAIN r /\ q + i > k
    BY <1>1
  <2>2. /\ t[i].kind = "command"
        /\ t[i].previous = r[q + i - 1].resulting
        /\ t[i].resulting = ChainDigest(t[i].previous, t[i].command)
    BY <1>2, <2>1 DEF Chained
  <2>3. i = 1 => q + i - 1 = q
    BY <1>1
  <2>4. i # 1 => i - 1 \in 1..Len(r) - q /\ q + (i - 1) = q + i - 1
    BY <1>1
  <2>5. i # 1 => t[i - 1] = r[q + i - 1]
    BY <1>2, <2>4
  <2> QED
    BY <2>2, <2>3, <2>5
<1> QED
  BY <1>2, <1>3 DEF Continues, t

\* The snapshot that load puts together.
LEMMA SnapshotOf ==
  ASSUME NEW r \in Seq(Records), NEW k, NEW S \in Snapshots, NEW s \in Snapshots, Chained(r, k, S), Replays(r, k, S, s)
  PROVE  S \o CommandsOf(SubSeq(r, k + 1, Len(r))) = s
<1> DEFINE t == SubSeq(r, k + 1, Len(r))
           c == CommandsOf(t)
<1>1. Len(r) \in Nat /\ DOMAIN r = 1..Len(r) /\ k \in 1..Len(r) /\ k \in 0..Len(r)
  BY LenProperties DEF Chained
<1>2. /\ DOMAIN t = 1..Len(r) - k
      /\ \A i \in 1..Len(r) - k : t[i] = r[k + i]
  BY <1>1, SuffixFacts
<1>3. c = [i \in 1..Len(r) - k |-> t[i].command]
  BY <1>2 DEF CommandsOf
<1>4. \A i \in 1..Len(r) - k : t[i].command \in Nat
  <2>1. ASSUME NEW i \in 1..Len(r) - k PROVE t[i].command \in Nat
    <3>1. k + i \in 1..Len(r) /\ k + i > k
      BY <1>1
    <3>2. r[k + i] \in Records /\ r[k + i].kind = "command"
      BY <1>1, <3>1, ElementOfSeq DEF Chained
    <3> QED
      BY <1>2, <3>2, RecordFacts
  <2> QED
    BY <2>1
<1>5. c \in Seq(Nat) /\ Len(c) = Len(r) - k /\ \A i \in 1..Len(r) - k : c[i] = r[k + i].command
  <2>1. Len(r) - k \in Nat
    BY <1>1
  <2>2. c \in [1..Len(r) - k -> Nat]
    BY <1>3, <1>4
  <2>3. c \in Seq(Nat)
    BY <2>1, <2>2, SeqDef
  <2>4. DOMAIN c = 1..Len(c) /\ Len(c) \in Nat
    BY <2>3, LenProperties
  <2>5. DOMAIN c = 1..Len(r) - k
    BY <2>2
  <2>6. Len(c) = Len(r) - k
    BY <2>1, <2>4, <2>5
  <2> QED
    BY <1>2, <1>3, <2>3, <2>6
<1> HIDE DEF c, t
<1>6. Len(S) \in Nat /\ S \in Seq(Nat) /\ s \in Seq(Nat)
  BY LenProperties DEF Snapshots
<1>7. /\ S \o c \in Seq(Nat) /\ Len(S \o c) = Len(S) + Len(c)
      /\ \A i \in 1..Len(S) + Len(c) : (S \o c)[i] = IF i <= Len(S) THEN S[i] ELSE c[i - Len(S)]
  BY <1>5, <1>6, ConcatProperties
<1>8. Len(S \o c) = Len(s)
  BY <1>1, <1>5, <1>6, <1>7 DEF Replays
<1>9. ASSUME NEW i \in 1..Len(S \o c) PROVE (S \o c)[i] = s[i]
  <2>1. CASE i <= Len(S)
    BY <1>5, <1>6, <1>7, <2>1 DEF Replays
  <2>2. CASE ~(i <= Len(S))
    <3>1. i - Len(S) \in 1..Len(r) - k /\ Len(S) + (i - Len(S)) = i /\ i \in 1..Len(S) + Len(c)
      BY <1>1, <1>5, <1>6, <1>7, <2>2
    <3>2. s[Len(S) + (i - Len(S))] = r[k + (i - Len(S))].command
      BY <3>1 DEF Replays
    <3> QED
      BY <1>5, <1>7, <2>2, <3>1, <3>2
  <2> QED
    BY <2>1, <2>2
<1>10. S \o c = s
  BY <1>6, <1>7, <1>8, <1>9, SeqEqual
<1> QED
  BY <1>10 DEF c, t

\* The anchors of a snapshot among the records of a chain.
LEMMA AnchorPositions ==
  ASSUME NEW r \in Seq(Records), NEW k, NEW S, Chained(r, k, S), NEW X, AnchorsOf(r, X) # {}
  PROVE  /\ Max(AnchorsOf(r, X)) \in 1..Len(r) /\ Max(AnchorsOf(r, X)) <= k
         /\ Max(AnchorsOf(r, X)) = k <=> X = S
<1> DEFINE A == AnchorsOf(r, X)
<1>1. Len(r) \in Nat /\ DOMAIN r = 1..Len(r) /\ k \in 1..Len(r)
  BY LenProperties DEF Chained
<1>2. A \subseteq 1..Len(r)
  BY <1>1 DEF AnchorsOf
<1>3. Max(A) \in A /\ \A y \in A : y <= Max(A)
  BY <1>1, <1>2, LastPosition
<1>4. \A i \in A : i <= k
  <2>1. ASSUME NEW i \in A, i > k PROVE FALSE
    BY <2>1 DEF AnchorsOf, Chained
  <2> QED
    BY <1>1, <1>2, <2>1
<1>5. X = S => k \in A
  BY DEF AnchorsOf, Chained
<1>6. k \in A => X = S
  BY DigestInjective DEF AnchorsOf, Chained
<1> HIDE DEF A
<1>7. Max(A) \in 1..Len(r)
  BY <1>2, <1>3
<1>8. X = S => Max(A) = k
  BY <1>1, <1>3, <1>4, <1>5, <1>7
<1> QED
  BY <1>3, <1>4, <1>6, <1>7, <1>8 DEF A

\* The file that load takes its checkpoint from holds the snapshot of the last
\* anchor.
LEMMA CheckpointChosen ==
  ASSUME NEW d \in Files, NEW k, NEW S \in Snapshots, NEW r \in Seq(Records), Chained(r, k, S),
         S = d.state \/ S = d.prepared
  PROVE  /\ AnchoredFiles(d, r) # {}
         /\ CheckpointFile(d, r) \in {"state", "prepared"}
         /\ d[CheckpointFile(d, r)] = S
<1> DEFINE B == AnchoredFiles(d, r)
           last(g) == Max(AnchorsOf(r, d[g]))
           Best(f) == \A g \in B : last(g) < last(f) \/ (last(g) = last(f) /\ (g = f \/ f = "prepared"))
<1>0. d["state"] = d.state /\ d["prepared"] = d.prepared
  OBVIOUS
<1>1. B \subseteq {"state", "prepared"} /\ \A g \in B : AnchorsOf(r, d[g]) # {}
  BY DEF AnchoredFiles
<1>2. AnchorsOf(r, S) # {} /\ S # Absent /\ S # Partial
  BY AbsentAssumption DEF AnchorsOf, Chained
<1>3. \A g \in {"state", "prepared"} : d[g] = S => g \in B
  BY <1>2 DEF AnchoredFiles
<1>4. \A g \in B : last(g) \in Int /\ last(g) <= k /\ (last(g) = k <=> d[g] = S) /\ k \in Int
  <2>1. k \in 1..Len(r) /\ Len(r) \in Nat
    BY LenProperties DEF Chained
  <2> QED
    BY <1>1, <2>1, AnchorPositions
<1>5. PICK f \in {"state", "prepared"} : d[f] = S /\ (d.prepared = S => f = "prepared")
  BY <1>0
<1>6. f \in B /\ last(f) = k
  BY <1>3, <1>4, <1>5
<1> HIDE DEF B, last
<1>7. Best(f)
  <2>1. ASSUME NEW g \in B PROVE last(g) < last(f) \/ (last(g) = last(f) /\ (g = f \/ f = "prepared"))
    <3>1. CASE last(g) = k
      <4>1. d[g] = S /\ g \in {"state", "prepared"}
        BY <1>1, <1>4, <3>1
      <4>2. g = f \/ f = "prepared"
        BY <1>0, <1>5, <4>1
      <4> QED
        BY <1>6, <3>1, <4>2
    <3>2. CASE last(g) # k
      BY <1>4, <1>6, <3>2
    <3> QED
      BY <3>1, <3>2
  <2> QED
    BY <2>1
<1>8. CheckpointFile(d, r) = CHOOSE g \in B : Best(g)
  BY DEF CheckpointFile, B, last
<1>9. PICK h : h = CheckpointFile(d, r)
  OBVIOUS
<1>10. h \in B /\ Best(h)
  <2> HIDE DEF Best
  <2> QED
    BY <1>6, <1>7, <1>8, <1>9
<1>11. last(h) = k
  BY <1>4, <1>6, <1>10
<1> QED
  BY <1>1, <1>4, <1>6, <1>9, <1>10, <1>11 DEF B

LEMMA LoadRecovers ==
  ASSUME NEW d \in Files, NEW k, NEW S \in Snapshots, NEW s \in Snapshots, Recovers(d, k, S, s)
  PROVE  LET r == WholeFrames(d.journal)
             l == Load(d)
         IN /\ l.outcome = "recover" /\ l.snapshot = s
            /\ l.file \in {"state", "prepared"} /\ d[l.file] = S
            /\ l.chain = r[Len(r)].resulting
            /\ l.clean = CleanLen(d.journal)
            /\ l.since = Len(r) - k
<1> DEFINE r == WholeFrames(d.journal)
           file == CheckpointFile(d, r)
           replayed == SubSeq(r, Max(AnchorsOf(r, d[file])) + 1, Len(r))
<1>1. d.journal \in Journals /\ Readable(d.journal) /\ d.state # Partial /\ d.journal # Absent
  BY AbsentAssumption DEF Files, Recovers
<1>2. r \in Seq(Records) /\ Chained(r, k, S) /\ Replays(r, k, S, s)
  BY <1>1, ShapeOf DEF Recovers
<1>3. AnchoredFiles(d, r) # {} /\ file \in {"state", "prepared"} /\ d[file] = S
  BY <1>2, CheckpointChosen DEF Recovers
<1>4. Len(r) \in Nat /\ DOMAIN r = 1..Len(r) /\ k \in 1..Len(r) /\ k \in 0..Len(r) /\ k \in k..Len(r)
  BY <1>2, LenProperties DEF Chained
<1>5. ~(\A i \in DOMAIN r : r[i].kind = "command")
  BY <1>2 DEF Chained
<1>6. AnchorsOf(r, S) # {}
  BY <1>2 DEF AnchorsOf, Chained
<1>7. Max(AnchorsOf(r, S)) = k
  BY <1>2, <1>6, AnchorPositions
<1>8. replayed = SubSeq(r, k + 1, Len(r))
  BY <1>3, <1>7
<1>9. r[k].resulting = SnapshotDigest(S)
  BY <1>2 DEF Chained
<1>10. Continues(SnapshotDigest(S), replayed)
  BY <1>2, <1>4, <1>8, <1>9, SuffixContinues
<1>11. S \o CommandsOf(replayed) = s
  BY <1>2, <1>8, SnapshotOf
<1>12. /\ Len(replayed) = Len(r) - k
       /\ replayed = <<>> <=> k = Len(r)
       /\ k < Len(r) => Last(replayed) = r[Len(r)]
  <2> DEFINE t == SubSeq(r, k + 1, Len(r))
  <2> HIDE DEF r
  <2>1. Len(t) = Len(r) - k /\ (t = <<>> <=> k = Len(r)) /\ (k < Len(r) => Last(t) = r[Len(r)])
    BY <1>2, <1>4, SuffixFacts
  <2> HIDE DEF t, replayed
  <2>2. replayed = t
    BY <1>8 DEF t
  <2> QED
    BY <2>1, <2>2
<1>13. (IF replayed = <<>> THEN SnapshotDigest(S) ELSE Last(replayed).resulting) = r[Len(r)].resulting
  BY <1>4, <1>9, <1>12
<1> HIDE DEF r, file, replayed
<1>14. Load(d) = [outcome |-> "recover", file |-> file, snapshot |-> s,
                  chain |-> r[Len(r)].resulting, clean |-> CleanLen(d.journal), since |-> Len(r) - k]
  <2>1. Load(d) = [outcome |-> "recover", file |-> file,
           snapshot |-> d[file] \o CommandsOf(replayed),
           chain |-> IF replayed = <<>> THEN SnapshotDigest(d[file]) ELSE Last(replayed).resulting,
           clean |-> CleanLen(d.journal), since |-> Len(replayed)]
    BY <1>1, <1>3, <1>5, <1>10 DEF Load, r, file, replayed
  <2> QED
    BY <1>3, <1>11, <1>12, <1>13, <2>1
<1> QED
  BY <1>3, <1>14 DEF r

LEMMA LoadBlank ==
  ASSUME NEW d \in Files, Blank(d)
  PROVE  /\ d.journal = Absent => Load(d).outcome = "fresh"
         /\ d.journal # Absent => Load(d).outcome = "discard"
<1>1. d.state = Absent /\ d.marker = FALSE /\ d.state # Partial
  BY AbsentAssumption DEF Blank, Files
<1>2. CASE d.journal = Absent
  BY <1>1, <1>2 DEF Load
<1>3. CASE d.journal = TornHeader /\ d.journal # Absent
  <2>1. ~Readable(d.journal)
    BY <1>3 DEF Readable, TornHeader
  <2> QED
    BY <1>1, <1>3, <2>1 DEF Load
<1>4. CASE d.journal \in {Journal(0, <<>>), Journal(0, <<TornFrame>>)} /\ d.journal # Absent
  <2>1. <<>> \in Seq(Records) /\ Append(<<>>, TornFrame) = <<TornFrame>>
    BY EmptySeq
  <2>2. WholeFrames(Journal(0, <<>>)) = <<>>
    BY <2>1, CleanReads
  <2>3. WholeFrames(Journal(0, Append(<<>>, TornFrame))) = <<>>
    BY <2>1, TornReads
  <2>4. WholeFrames(d.journal) = <<>>
    BY <1>4, <2>1, <2>2, <2>3
  <2>5. \A i \in DOMAIN WholeFrames(d.journal) : WholeFrames(d.journal)[i].kind = "command"
    BY <2>4
  <2> QED
    BY <1>1, <1>4, <2>5 DEF Load
<1> QED
  BY <1>2, <1>3, <1>4 DEF Blank

-----------------------------------------------------------------------------
(***************************************************************************)
(* What an append does to the snapshot that files stand for.               *)
(***************************************************************************)

LEMMA SnapshotFacts ==
  ASSUME NEW s \in Snapshots
  PROVE  Len(s) \in Nat /\ \A i \in 1..Len(s) : s[i] \in Nat
BY LenProperties, ElementOfSeq DEF Snapshots

LEMMA ShownMore ==
  ASSUME NEW s \in Snapshots, NEW e, NEW n \in Nat, NEW m \in Nat, n <= m, Shown(s, e, n)
  PROVE  Shown(s, e, m) /\ Shown(s, s, m)
<1>1. \A i \in 1..Len(s) : s[i] \in Nat /\ Len(s) \in Nat
  BY SnapshotFacts
<1>2. \A i \in 1..Len(s) : s[i] <= m
  BY <1>1 DEF Shown
<1>3. Len(s) <= Len(s)
  BY SnapshotFacts
<1> QED
  BY <1>2, <1>3 DEF Shown

\* The snapshot is extended by the mark of a start, or by a new command.
LEMMA ShownAppend ==
  ASSUME NEW s \in Snapshots, NEW e \in Snapshots, NEW n \in Nat, NEW c \in Nat, Shown(s, e, n), c <= n,
         c = Restart \/ \A i \in 1..Len(s) : s[i] < c
  PROVE  /\ Append(s, c) \in Snapshots
         /\ Shown(Append(s, c), e, n) /\ Shown(Append(s, c), Append(s, c), n)
         /\ Shown(Append(s, c), s, n)
<1> DEFINE t == Append(s, c)
<1>1. /\ t \in Seq(Nat) /\ Len(t) = Len(s) + 1 /\ \A i \in 1..Len(s) : t[i] = s[i]
      /\ t[Len(s) + 1] = c
  BY AppendProperties DEF Snapshots
<1>2. Len(s) \in Nat /\ Len(e) \in Nat /\ \A i \in 1..Len(s) : s[i] \in Nat
  BY SnapshotFacts
<1> HIDE DEF t
<1>3. \A i \in 1..Len(t) : i \in 1..Len(s) \/ i = Len(s) + 1
  BY <1>1, <1>2
<1>4. \A i \in 1..Len(t) : t[i] <= n
  BY <1>1, <1>3 DEF Shown
<1>5. ASSUME NEW i \in 1..Len(t), NEW j \in 1..Len(t), t[i] = t[j], t[i] # Restart PROVE i = j
  <2>1. CASE i \in 1..Len(s) /\ j \in 1..Len(s)
    BY <1>1, <1>5, <2>1 DEF Shown
  <2>2. CASE i = Len(s) + 1 /\ j = Len(s) + 1
    BY <2>2
  <2>3. CASE i \in 1..Len(s) /\ j = Len(s) + 1
    <3>1. s[i] = c /\ c # Restart
      BY <1>1, <1>5, <2>3
    <3>2. s[i] < c /\ s[i] \in Nat
      BY <1>2, <2>3, <3>1
    <3> QED
      BY <3>1, <3>2
  <2>4. CASE j \in 1..Len(s) /\ i = Len(s) + 1
    <3>1. s[j] = c /\ c # Restart
      BY <1>1, <1>5, <2>4
    <3>2. s[j] < c /\ s[j] \in Nat
      BY <1>2, <2>4, <3>1
    <3> QED
      BY <3>1, <3>2
  <2> QED
    BY <1>3, <2>1, <2>2, <2>3, <2>4
<1>6. Len(e) <= Len(t) /\ \A i \in 1..Len(e) : e[i] = t[i]
  <2>1. Len(e) <= Len(s) /\ \A i \in 1..Len(e) : e[i] = s[i]
    BY DEF Shown
  <2>2. \A i \in 1..Len(e) : i \in 1..Len(s)
    BY <1>2, <2>1
  <2>3. Len(e) <= Len(t)
    BY <1>1, <1>2, <2>1
  <2> QED
    BY <1>1, <2>1, <2>2, <2>3
<1>7. Len(s) <= Len(t) /\ Len(t) <= Len(t)
  BY <1>1, <1>2
<1>8. Shown(t, e, n) /\ Shown(t, t, n) /\ Shown(t, s, n)
  BY <1>1, <1>4, <1>5, <1>6, <1>7 DEF Shown
<1> QED
  BY <1>1, <1>8 DEF t, Snapshots

\* A command is chained to the last record.
LEMMA ChainAppend ==
  ASSUME NEW r \in Seq(Records), NEW k, NEW S \in Snapshots, NEW s \in Snapshots, NEW c \in Nat,
         Chained(r, k, S), Replays(r, k, S, s)
  PROVE  LET t == Append(r, CommandRecord(r[Len(r)].resulting, c))
         IN t \in Seq(Records) /\ Chained(t, k, S) /\ Replays(t, k, S, Append(s, c))
<1> DEFINE dg == r[Len(r)].resulting
           f == CommandRecord(dg, c)
           t == Append(r, f)
<1>1. Len(r) \in Nat /\ DOMAIN r = 1..Len(r) /\ k \in 1..Len(r) /\ Len(r) \in 1..Len(r)
  BY LenProperties DEF Chained
<1>2. dg \in Digests
  BY <1>1, ElementOfSeq, RecordFacts
<1> HIDE DEF dg
<1>3. f \in Records /\ f.kind = "command" /\ f.previous = dg /\ f.command = c /\ f.resulting = ChainDigest(dg, c)
  BY <1>2, DigestFacts
<1> HIDE DEF f
<1>4. /\ t \in Seq(Records) /\ Len(t) = Len(r) + 1 /\ DOMAIN t = 1..Len(r) + 1
      /\ \A i \in 1..Len(r) : t[i] = r[i]
      /\ t[Len(r) + 1] = f
  BY <1>3, AppendFacts
<1> HIDE DEF t
<1>5. Chained(t, k, S)
  <2>1. k \in DOMAIN t /\ t[k] = r[k]
    BY <1>1, <1>4
  <2>2. ASSUME NEW i \in DOMAIN t, i > k
        PROVE  t[i].kind = "command" /\ t[i].previous = t[i - 1].resulting
               /\ t[i].resulting = ChainDigest(t[i].previous, t[i].command)
    <3>1. CASE i \in 1..Len(r)
      <4>1. i - 1 \in 1..Len(r)
        BY <1>1, <2>2, <3>1
      <4>2. t[i] = r[i] /\ t[i - 1] = r[i - 1]
        BY <1>4, <3>1, <4>1
      <4> QED
        BY <1>1, <2>2, <3>1, <4>2 DEF Chained
    <3>2. CASE i = Len(r) + 1
      <4>1. i - 1 = Len(r)
        BY <1>1, <3>2
      <4>2. t[i - 1] = r[Len(r)] /\ t[i] = f
        BY <1>1, <1>4, <3>2, <4>1
      <4> QED
        BY <1>3, <4>2 DEF dg
    <3> QED
      BY <1>1, <1>4, <3>1, <3>2
  <2> QED
    BY <2>1, <2>2 DEF Chained
<1>6. Replays(t, k, S, Append(s, c))
  <2> DEFINE u == Append(s, c)
  <2>1. Len(s) \in Nat /\ Len(S) \in Nat /\ Len(s) = Len(S) + Len(r) - k
    BY SnapshotFacts DEF Replays
  <2>2. Len(u) = Len(s) + 1 /\ (\A i \in 1..Len(s) : u[i] = s[i]) /\ u[Len(s) + 1] = c
    BY AppendProperties DEF Snapshots
  <2> HIDE DEF u
  <2>3. Len(u) = Len(S) + Len(t) - k
    BY <1>1, <1>4, <2>1, <2>2
  <2>4. ASSUME NEW i \in 1..Len(S) PROVE u[i] = S[i]
    <3>1. i \in 1..Len(s)
      BY <1>1, <2>1
    <3> QED
      BY <2>2, <3>1 DEF Replays
  <2>5. ASSUME NEW i \in 1..Len(t) - k PROVE u[Len(S) + i] = t[k + i].command
    <3>1. CASE i \in 1..Len(r) - k
      <4>1. Len(S) + i \in 1..Len(s) /\ k + i \in 1..Len(r)
        BY <1>1, <2>1, <3>1
      <4> QED
        BY <1>4, <2>2, <3>1, <4>1 DEF Replays
    <3>2. CASE i = Len(r) - k + 1
      <4>1. Len(S) + i = Len(s) + 1 /\ k + i = Len(r) + 1
        BY <1>1, <2>1, <3>2
      <4> QED
        BY <1>3, <1>4, <2>2, <4>1
    <3>3. i \in 1..Len(r) - k \/ i = Len(r) - k + 1
      BY <1>1, <1>4
    <3> QED
      BY <3>1, <3>2, <3>3
  <2> QED
    BY <2>3, <2>4, <2>5 DEF Replays, u
<1> QED
  BY <1>4, <1>5, <1>6 DEF t, f, dg

\* An anchor at the end is all that counts.
LEMMA AnchorLast ==
  ASSUME NEW r \in Seq(Records), NEW T \in Snapshots, Len(r) \in DOMAIN r,
         r[Len(r)].kind = "anchor", r[Len(r)].resulting = SnapshotDigest(T)
  PROVE  Chained(r, Len(r), T) /\ Replays(r, Len(r), T, T)
<1>1. Len(r) \in Nat /\ DOMAIN r = 1..Len(r) /\ Len(T) \in Nat
  BY LenProperties, SnapshotFacts
<1>2. \A i \in DOMAIN r : ~(i > Len(r))
  BY <1>1
<1>3. Len(T) = Len(T) + Len(r) - Len(r) /\ 1..Len(r) - Len(r) = {}
  BY <1>1
<1> QED
  BY <1>2, <1>3 DEF Chained, Replays

-----------------------------------------------------------------------------
(***************************************************************************)
(* Files and their changes.                                                *)
(***************************************************************************)

LEMMA JournalChanged ==
  ASSUME NEW d \in Files, NEW j \in Journals \cup {Absent}
  PROVE  LET x == [d EXCEPT !.journal = j]
         IN x \in Files /\ x.state = d.state /\ x.prepared = d.prepared /\ x.journal = j /\ x.marker = d.marker
BY DEF Files

LEMMA PreparedChanged ==
  ASSUME NEW d \in Files, NEW p \in Snapshots \cup {Absent, Partial}
  PROVE  LET x == [d EXCEPT !.prepared = p]
         IN x \in Files /\ x.state = d.state /\ x.prepared = p /\ x.journal = d.journal /\ x.marker = d.marker
BY DEF Files

LEMMA BothChanged ==
  ASSUME NEW d \in Files, NEW j \in Journals \cup {Absent}, NEW p \in Snapshots \cup {Absent, Partial}
  PROVE  LET x == [d EXCEPT !.journal = j, !.prepared = p]
         IN x \in Files /\ x.state = d.state /\ x.prepared = p /\ x.journal = j /\ x.marker = d.marker
BY DEF Files

LEMMA StatePublished ==
  ASSUME NEW d \in Files, NEW S \in Snapshots
  PROVE  LET x == [d EXCEPT !.state = S, !.prepared = Absent]
         IN x \in Files /\ x.state = S /\ x.prepared = Absent /\ x.journal = d.journal /\ x.marker = d.marker
BY DEF Files

\* Files recover by their journal and by the file of the last anchor only.
LEMMA RecoversMoved ==
  ASSUME NEW d, NEW x, NEW k, NEW S, NEW s, Recovers(d, k, S, s), x.journal = d.journal, S = x.state \/ S = x.prepared
  PROVE  Recovers(x, k, S, s)
BY DEF Recovers

LEMMA FineBy ==
  ASSUME NEW d, NEW k \in Nat, NEW S \in Snapshots, NEW s \in Snapshots, NEW e, NEW n,
         Recovers(d, k, S, s), Shown(s, e, n)
  PROVE  Fine(d, e, n)
BY DEF Fine

LEMMA BlankFine ==
  ASSUME NEW d, NEW n, Blank(d)
  PROVE  Fine(d, <<>>, n)
BY DEF Fine

LEMMA FineMore ==
  ASSUME NEW d, NEW e, NEW n \in Nat, NEW m \in Nat, n <= m, Fine(d, e, n)
  PROVE  Fine(d, e, m)
<1>1. CASE Blank(d) /\ e = <<>>
  BY <1>1 DEF Fine
<1>2. CASE \E k \in Nat, S \in Snapshots, s \in Snapshots : Recovers(d, k, S, s) /\ Shown(s, e, n)
  BY <1>2, ShownMore DEF Fine
<1> QED
  BY <1>1, <1>2 DEF Fine

\* A journal of the records r of a chain, torn or not.
LEMMA RecoversJournal ==
  ASSUME NEW d, NEW b \in Nat, NEW r \in Seq(Records), NEW k, NEW S \in Snapshots, NEW s,
         Chained(r, k, S), Replays(r, k, S, s),
         d.journal = Journal(b, r) \/ d.journal = Journal(b, Append(r, TornFrame)),
         S = d.state \/ S = d.prepared
  PROVE  Recovers(d, k, S, s)
<1>1. d.journal # Absent /\ Readable(d.journal) /\ WholeFrames(d.journal) = r
  BY CleanReads, TornReads
<1> QED
  BY <1>1, AbsentAssumption DEF Recovers

LEMMA FramesReplaced ==
  ASSUME NEW b, NEW r, NEW t
  PROVE  Journal(b, r).frames = r /\ [Journal(b, r) EXCEPT !.frames = t] = Journal(b, t)
<1>1. PICK whole : whole = TRUE
  OBVIOUS
<1>2. [[header |-> whole, base |-> b, frames |-> r] EXCEPT !.frames = t] = [header |-> whole, base |-> b, frames |-> t]
  OBVIOUS
<1>3. Journal(b, r).frames = r
  BY DEF Journal
<1> QED
  BY <1>1, <1>2, <1>3 DEF Journal

LEMMA FrameAdded ==
  ASSUME NEW b, NEW r, NEW g
  PROVE  [Journal(b, r) EXCEPT !.frames = Append(r, g)] = Journal(b, Append(r, g))
<1>1. PICK t : t = Append(r, g)
  OBVIOUS
<1>2. [Journal(b, r) EXCEPT !.frames = t] = Journal(b, t)
  BY FramesReplaced
<1> QED
  BY <1>1, <1>2

\* An append of f to a journal of whole records, and what it leaves when it is
\* interrupted.
LEMMA AppendedJournal ==
  ASSUME NEW b \in Nat, NEW r \in Seq(Records), NEW f \in Records \cup {TornFrame}
  PROVE  /\ Appended(Journal(b, r), f) = Journal(b, Append(r, f))
         /\ TornAppends(Journal(b, r)) = {Journal(b, r), Journal(b, Append(r, TornFrame))}
         /\ Journal(b, Append(r, f)) \in Journals
<1>1. Journal(b, r) # Absent
  BY CleanReads
<1>2. ASSUME NEW g PROVE [Journal(b, r) EXCEPT !.frames = Append(@, g)] = Journal(b, Append(r, g))
  <2>1. Journal(b, r).frames = r
    BY FramesReplaced
  <2> QED
    BY <2>1, FrameAdded
<1>3. Append(r, f) \in Seq(Records \cup {TornFrame})
  <2>1. r \in Seq(Records \cup {TornFrame})
    BY SeqMonotonic
  <2> QED
    BY <2>1, AppendProperties
<1>4. Journal(b, Append(r, f)) \in Journals
  BY <1>3 DEF Journals, Journal
<1>5. /\ Appended(Journal(b, r), f) = Journal(b, Append(r, f))
      /\ Appended(Journal(b, r), TornFrame) = Journal(b, Append(r, TornFrame))
  BY <1>1, <1>2 DEF Appended
<1> QED
  BY <1>1, <1>4, <1>5 DEF TornAppends

\* The first append to a journal that is not there.
LEMMA FirstAppend ==
  ASSUME NEW f \in Records
  PROVE  /\ Appended(Absent, f) = Journal(0, Append(<<>>, f))
         /\ <<>> \in Seq(Records) /\ Append(<<>>, f) \in Seq(Records) /\ Len(Append(<<>>, f)) = 1
         /\ Append(<<>>, f)[1] = f /\ Len(Append(<<>>, f)) \in DOMAIN Append(<<>>, f)
         /\ TornAppends(Absent) \subseteq Journals
         /\ TornAppends(Absent) \subseteq {TornHeader, Journal(0, <<>>), Journal(0, <<TornFrame>>)}
<1>1. <<>> \in Seq(Records) /\ Len(<<>>) = 0
  BY EmptySeq
<1>2. /\ Append(<<>>, f) \in Seq(Records) /\ Len(Append(<<>>, f)) = 1 /\ Append(<<>>, f)[1] = f
      /\ Len(Append(<<>>, f)) \in DOMAIN Append(<<>>, f)
  BY <1>1, AppendFacts
<1>3. Append(<<>>, f) = <<f>>
  OBVIOUS
<1>4. Append(<<>>, TornFrame) = <<TornFrame>>
  OBVIOUS
<1>5. Journal(0, <<>>) \in Journals
  BY <1>1, CleanReads
<1>6. Journal(0, Append(<<>>, TornFrame)) \in Journals
  BY <1>1, TornReads
<1>7. TornHeader \in Journals
  BY EmptySeq DEF TornHeader, Journals
<1>8. Appended(Absent, f) = Journal(0, Append(<<>>, f))
  BY <1>3 DEF Appended
<1>9. TornAppends(Absent) = {TornHeader, Journal(0, <<>>), Journal(0, <<TornFrame>>)}
  BY DEF TornAppends
<1> HIDE DEF Journal, TornHeader
<1>10. TornAppends(Absent) \subseteq Journals
  BY <1>4, <1>5, <1>6, <1>7, <1>9
<1> QED
  BY <1>1, <1>2, <1>8, <1>9, <1>10

-----------------------------------------------------------------------------
(***************************************************************************)
(* What may be on the disk.                                                *)
(***************************************************************************)

LEMMA ImagesGrow ==
  ASSUME TypeInv, ImagesInv, NEW next \in Files, NEW images, Changed(next, images),
         exposed' = exposed, submitted' \in Nat, submitted <= submitted',
         Fine(next, exposed, submitted'),
         \A x \in images : x \in Files /\ Fine(x, exposed, submitted')
  PROVE  disk' \in Files /\ survivors' \subseteq Files /\ ImagesInv'
<1>1. disk' = next /\ survivors' = survivors \cup images \cup {next} /\ survivors \subseteq Files
  BY DEF Changed, TypeInv
<1>2. ASSUME NEW x \in survivors PROVE Fine(x, exposed, submitted')
  <2>1. submitted \in Nat /\ Fine(x, exposed, submitted)
    BY DEF TypeInv, ImagesInv, Images
  <2> QED
    BY <2>1, FineMore
<1>3. \A x \in survivors' \cup {disk'} : Fine(x, exposed, submitted')
  BY <1>1, <1>2
<1> QED
  BY <1>1, <1>3 DEF ImagesInv, Images

LEMMA ImagesReset ==
  ASSUME NEW next \in Files, NEW J, NEW P, Synced(next, J, P),
         J \subseteq Journals, P \subseteq Snapshots \cup {Absent, Partial},
         Fine(next, exposed', submitted'),
         \A j \in J, p \in P : Fine([next EXCEPT !.journal = j, !.prepared = p], exposed', submitted')
  PROVE  disk' \in Files /\ survivors' \subseteq Files /\ ImagesInv'
<1>1. disk' = next /\ survivors' = {[next EXCEPT !.journal = f[1], !.prepared = f[2]] : f \in J \X P}
  BY DEF Synced
<1>2. ASSUME NEW x \in survivors' PROVE x \in Files /\ Fine(x, exposed', submitted')
  <2>0. PICK f \in J \X P : x = [next EXCEPT !.journal = f[1], !.prepared = f[2]]
    BY <1>1
  <2>1. PICK j \in J, p \in P : x = [next EXCEPT !.journal = j, !.prepared = p]
    BY <2>0
  <2>2. j \in Journals \cup {Absent} /\ p \in Snapshots \cup {Absent, Partial}
    OBVIOUS
  <2>3. [next EXCEPT !.journal = j, !.prepared = p] \in Files
    BY <2>2 DEF Files
  <2> QED
    BY <2>1, <2>3
<1>3. \A x \in survivors' \cup {disk'} : Fine(x, exposed', submitted')
  BY <1>1, <1>2
<1> QED
  BY <1>1, <1>2, <1>3 DEF ImagesInv, Images

\* Everything is synced.
LEMMA ImagesSettled ==
  ASSUME NEW next \in Files, Synced(next, {next.journal}, {next.prepared}), Fine(next, exposed', submitted')
  PROVE  disk' \in Files /\ survivors' \subseteq Files /\ ImagesInv'
<1>1. [next EXCEPT !.journal = next.journal, !.prepared = next.prepared] = next
  BY DEF Files
<1>2. disk' = next /\ survivors' = {next}
  <2>1. /\ disk' = next
        /\ survivors' = {[next EXCEPT !.journal = f[1], !.prepared = f[2]] : f \in {next.journal} \X {next.prepared}}
    BY DEF Synced
  <2>2. \A f \in {next.journal} \X {next.prepared} : f[1] = next.journal /\ f[2] = next.prepared
    OBVIOUS
  <2>3. \A x \in survivors' : x = next
    BY <1>1, <2>1, <2>2
  <2>4. <<next.journal, next.prepared>> \in {next.journal} \X {next.prepared}
    OBVIOUS
  <2>5. survivors' # {}
    BY <2>1, <2>4
  <2> QED
    BY <2>1, <2>3, <2>5
<1> QED
  BY <1>2 DEF ImagesInv, Images

LEMMA ImagesKept ==
  ASSUME TypeInv, ImagesInv, UNCHANGED <<disk, survivors, exposed, submitted>>
  PROVE  disk' \in Files /\ survivors' \subseteq Files /\ ImagesInv'
BY DEF TypeInv, ImagesInv, Images

-----------------------------------------------------------------------------
(***************************************************************************)
(* open preserves the invariant.                                           *)
(***************************************************************************)

LEMMA OpenRest ==
  ASSUME apc' \notin Serving, cpc' = "idle"
  PROVE  ServeInv' /\ PoisonInv' /\ CaptureInv' /\ LockedInv'
BY DEF ServeInv, PoisonInv, CaptureInv, LockedInv, Serving, Preparing, CheckpointLocked

LEMMA ServeRest ==
  ASSUME apc' \in Serving
  PROVE  LoadInv' /\ AnchorInv'
BY DEF LoadInv, AnchorInv, Serving, Anchoring

LEMMA OpenIdle ==
  ASSUME Inv
  PROVE  /\ apc \notin Serving => cpc = "idle"
         /\ apc \in Loading \cup Anchoring => mem.poisoned = FALSE
BY DEF Inv, ThreadInv, TypeInv, Memories

\* A step of open that only works on the files.
LEMMA OpenKeeps ==
  ASSUME Inv, apc \in Loading \cup Anchoring, apc' \in Loading \cup Anchoring, unsynced' \in BOOLEAN,
         UNCHANGED <<cpc, mem, capture, exposed, submitted, opens, faults>>,
         disk' \in Files, survivors' \subseteq Files, ImagesInv', LoadInv', AnchorInv'
  PROVE  Inv'
<1>1. cpc = "idle" /\ mem.poisoned = FALSE
  BY OpenIdle DEF Loading, Anchoring, Serving
<1>2. apc' \notin Serving
  BY DEF Loading, Anchoring, Serving
<1>3. ServeInv' /\ PoisonInv' /\ CaptureInv' /\ LockedInv'
  BY <1>1, <1>2, OpenRest
<1>4. ThreadInv'
  BY <1>1 DEF Inv, ThreadInv
<1>5. TypeInv'
  BY <1>1 DEF Inv, TypeInv, Preparing, Locked
<1> QED
  BY <1>3, <1>4, <1>5 DEF Inv

\* The process ends.
LEMMA DownKeeps ==
  ASSUME Inv, apc' = "down", cpc' = "idle", unsynced' \in BOOLEAN,
         UNCHANGED <<mem, exposed, submitted>>, faults' \in Nat, faults' >= faults,
         disk' \in Files, survivors' \subseteq Files, ImagesInv'
  PROVE  Inv'
<1>1. ServeInv' /\ PoisonInv' /\ CaptureInv' /\ LockedInv'
  BY OpenRest DEF Serving
<1>2. ThreadInv'
  <2>1. mem'.poisoned => faults' > 0
    BY DEF Inv, ThreadInv, TypeInv
  <2> QED
    BY <2>1 DEF ThreadInv, Loading, Anchoring
<1>3. TypeInv'
  BY DEF Inv, TypeInv, Preparing, Locked
<1>4. LoadInv' /\ AnchorInv'
  BY DEF LoadInv, AnchorInv, Anchoring
<1> QED
  BY <1>1, <1>2, <1>3, <1>4 DEF Inv

LEMMA CrashStep ==
  ASSUME Inv, Crash
  PROVE  Inv'
<1>1. disk' \in Files /\ survivors' \subseteq Files /\ ImagesInv'
  BY ImagesKept DEF Inv, Crash
<1>2. faults' \in Nat /\ faults' >= faults
  BY DEF Inv, TypeInv, Crash
<1>3. unsynced' \in BOOLEAN
  BY DEF Inv, TypeInv, Crash
<1> QED
  BY <1>1, <1>2, <1>3, DownKeeps DEF Crash

LEMMA PowerLossStep ==
  ASSUME Inv, PowerLoss
  PROVE  Inv'
<1>1. PICK d \in survivors : disk' = d /\ survivors' = {d}
  BY DEF PowerLoss
<1>2. d \in Files /\ Fine(d, exposed, submitted)
  BY DEF Inv, TypeInv, ImagesInv, Images
<1>3. ImagesInv'
  BY <1>1, <1>2 DEF ImagesInv, Images, PowerLoss
<1>4. faults' \in Nat /\ faults' >= faults
  BY DEF Inv, TypeInv, PowerLoss
<1>5. disk' \in Files /\ survivors' \subseteq Files
  BY <1>1, <1>2
<1>6. apc' = "down" /\ cpc' = "idle" /\ unsynced' \in BOOLEAN /\ UNCHANGED <<mem, exposed, submitted>>
  BY DEF PowerLoss
<1> QED
  BY <1>3, <1>4, <1>5, <1>6, DownKeeps

LEMMA OpenStarts ==
  ASSUME Inv, Open
  PROVE  Inv'
<1> DEFINE l == Load(disk)
<1>1. /\ apc = "down" /\ l.outcome # "refuse" /\ apc' = AfterLoad(l)
      /\ UNCHANGED <<disk, survivors, unsynced, cpc, capture, exposed, submitted, faults>>
      /\ mem' = IF l.outcome = "recover"
                THEN [FreshMem EXCEPT !.snapshot = Append(l.snapshot, Restart), !.chain = l.chain,
                                      !.clean = l.clean, !.since = l.since, !.due = l.since > 0]
                ELSE FreshMem
  BY DEF Open
<1>2. cpc' = "idle"
  BY <1>1, OpenIdle DEF Serving
<1>3. disk' \in Files /\ survivors' \subseteq Files /\ ImagesInv' /\ disk \in Files
  BY <1>1, ImagesKept DEF Inv, TypeInv
<1>4. SUFFICES mem' \in Memories /\ mem'.poisoned = FALSE /\ apc' \in Loading /\ LoadInv'
  <2>1. AnchorInv' /\ ServeInv' /\ PoisonInv' /\ CaptureInv' /\ LockedInv'
    BY <1>2, <1>4, OpenRest DEF Loading, Serving, AnchorInv, Anchoring
  <2>2. ThreadInv'
    BY <1>2, <1>4 DEF ThreadInv, Loading
  <2>3. TypeInv'
    BY <1>1, <1>2, <1>3, <1>4 DEF Inv, TypeInv, Preparing, Locked
  <2> QED
    BY <1>3, <1>4, <2>1, <2>2, <2>3 DEF Inv
<1> HIDE DEF l
<1>5. Fine(disk, exposed, submitted)
  BY DEF Inv, ImagesInv, Images
<1>6. FreshMem \in Memories /\ FreshMem.poisoned = FALSE
  BY EmptySeq DEF FreshMem, Memories, Snapshots
<1>7. CASE Blank(disk) /\ exposed = <<>>
  <2>1. (disk.journal = Absent => l.outcome = "fresh") /\ (disk.journal # Absent => l.outcome = "discard")
    BY <1>3, <1>7, LoadBlank DEF l
  <2>2. mem' = FreshMem
    BY <1>1, <2>1
  <2>3. CASE disk.journal = Absent
    <3>1. apc' = "prepare"
      BY <1>1, <2>1, <2>3 DEF AfterLoad
    <3>2. (FreshOpen /\ disk.journal = Absent)'
      BY <1>1, <1>7, <2>2, <2>3 DEF FreshOpen
    <3>3. LoadInv'
      BY <3>1, <3>2 DEF LoadInv
    <3> QED
      BY <1>6, <2>2, <3>1, <3>3 DEF Loading
  <2>4. CASE disk.journal # Absent
    <3>1. apc' = "discard"
      BY <1>1, <2>1, <2>4 DEF AfterLoad
    <3>2. FreshOpen'
      BY <1>1, <1>7, <2>2 DEF FreshOpen
    <3>3. LoadInv'
      BY <3>1, <3>2 DEF LoadInv
    <3> QED
      BY <1>6, <2>2, <3>1, <3>3 DEF Loading
  <2> QED
    BY <2>3, <2>4
<1>8. ASSUME NEW k \in Nat, NEW S \in Snapshots, NEW s \in Snapshots, Recovers(disk, k, S, s), Shown(s, exposed, submitted)
      PROVE  mem' \in Memories /\ mem'.poisoned = FALSE /\ apc' \in Loading /\ LoadInv'
  <2> DEFINE r == WholeFrames(disk.journal)
  <2>1. /\ l.outcome = "recover" /\ l.snapshot = s
        /\ l.file \in {"state", "prepared"} /\ disk[l.file] = S
        /\ l.chain = r[Len(r)].resulting
        /\ l.clean = CleanLen(disk.journal)
        /\ l.since = Len(r) - k
    BY <1>3, <1>8, LoadRecovers DEF l
  <2>2. disk.journal \in Journals /\ Readable(disk.journal)
    BY <1>3, <1>8 DEF Recovers, Files
  <2>3. r \in Seq(Records) /\ disk.journal.base \in Nat /\ disk.journal # Absent
    BY <2>2, ShapeOf
  <2>4. Len(r) \in Nat /\ k \in 1..Len(r) /\ Len(r) \in 1..Len(r)
    BY <1>8, <2>3, LenProperties DEF Recovers, Chained
  <2>5. l.chain \in Digests
    BY <2>1, <2>3, <2>4, ElementOfSeq, RecordFacts
  <2>6. l.clean \in Nat /\ l.since \in Nat
    BY <2>1, <2>3, <2>4 DEF CleanLen
  <2>7. Append(s, Restart) \in Snapshots
    BY AppendProperties DEF Snapshots, Restart
  <2>8. PICK due \in BOOLEAN : due = (l.since > 0)
    <3>1. (l.since > 0) = TRUE \/ (l.since > 0) = FALSE
      BY <2>6
    <3> QED
      BY <3>1
  <2>9. mem' = [FreshMem EXCEPT !.snapshot = Append(s, Restart), !.chain = l.chain,
                                !.clean = l.clean, !.since = l.since, !.due = due]
    BY <1>1, <2>1, <2>8
  <2>10. mem' \in Memories /\ mem'.poisoned = FALSE /\ mem'.snapshot = Append(s, Restart) /\ mem'.clean = CleanLen(disk.journal)
    BY <1>6, <2>1, <2>5, <2>6, <2>7, <2>9 DEF Memories
  <2>11. Loaded(k, S, s)'
    BY <1>1, <1>8, <2>10 DEF Loaded
  <2>12. CASE HasTornTail(disk.journal)
    <3>1. apc' = "truncate"
      BY <1>1, <2>1, <2>12 DEF AfterLoad
    <3>2. HasTornTail(disk.journal)'
      BY <1>1, <2>12
    <3> QED
      BY <2>10, <2>11, <3>1, <3>2 DEF LoadInv, Loading
  <2>13. CASE ~HasTornTail(disk.journal) /\ l.file = "prepared"
    <3>1. apc' = "adopt" /\ disk'.prepared = S
      BY <1>1, <2>1, <2>13 DEF AfterLoad
    <3>2. ~HasTornTail(disk.journal)'
      BY <1>1, <2>13
    <3> QED
      BY <2>10, <2>11, <3>1, <3>2 DEF LoadInv, Loading
  <2>14. CASE ~HasTornTail(disk.journal) /\ l.file = "state"
    <3>1. apc' = "prepare" /\ disk'.state = S
      BY <1>1, <2>1, <2>14 DEF AfterLoad
    <3>2. ~HasTornTail(disk.journal)'
      BY <1>1, <2>14
    <3>3. Loaded(k, disk.state, s)'
      BY <2>11, <3>1 DEF Loaded
    <3> QED
      BY <2>10, <3>1, <3>2, <3>3 DEF LoadInv, Loading
  <2> QED
    BY <2>1, <2>12, <2>13, <2>14
<1> QED
  BY <1>5, <1>7, <1>8 DEF Fine

LEMMA TruncateStep ==
  ASSUME Inv, Truncate
  PROVE  Inv'
<1>1. /\ apc = "truncate" /\ apc' = "truncate_sync"
      /\ Changed([disk EXCEPT !.journal.frames = Front(@)], {})
      /\ UNCHANGED <<unsynced, cpc, mem, capture, exposed, submitted, opens, faults>>
  BY DEF Truncate
<1>2. disk \in Files /\ submitted \in Nat /\ unsynced \in BOOLEAN /\ TypeInv /\ ImagesInv
  BY DEF Inv, TypeInv
<1>3. PICK k \in Nat, S \in Snapshots, s \in Snapshots : Loaded(k, S, s) /\ HasTornTail(disk.journal)
  BY <1>1 DEF Inv, LoadInv
<1>4. Recovers(disk, k, S, s) /\ Shown(s, exposed, submitted)
  BY <1>3 DEF Loaded
<1>5. disk.journal \in Journals /\ Readable(disk.journal)
  BY <1>2, <1>4 DEF Recovers, Files
<1>6. PICK b \in Nat, w \in Seq(Records) :
        w = WholeFrames(disk.journal) /\ b = disk.journal.base /\ disk.journal = Journal(b, Append(w, TornFrame))
  BY <1>3, <1>5, ShapeOf
<1>7. Front(Append(w, TornFrame)) = w
  <2>1. w \in Seq(Records \cup {TornFrame})
    BY SeqMonotonic
  <2> QED
    BY <2>1, AppendFacts
<1>8. [disk.journal EXCEPT !.frames = Front(@)] = Journal(b, w)
  BY <1>6, <1>7, FramesReplaced
<1>9. PICK next : next = [disk EXCEPT !.journal = Journal(b, w)]
  OBVIOUS
<1>10. /\ Journal(b, w) \in Journals /\ Readable(Journal(b, w)) /\ ~HasTornTail(Journal(b, w))
       /\ CleanLen(Journal(b, w)) = CleanLen(disk.journal)
  BY <1>6, CleanReads, TornReads
<1>11. next \in Files /\ next.state = disk.state /\ next.prepared = disk.prepared /\ next.journal = Journal(b, w)
  BY <1>2, <1>9, <1>10, JournalChanged
<1>12. Changed(next, {})
  <2>1. [disk EXCEPT !.journal.frames = Front(@)] = [disk EXCEPT !.journal = [disk.journal EXCEPT !.frames = Front(@)]]
    OBVIOUS
  <2> QED
    BY <1>1, <1>8, <1>9, <2>1
<1>13. Recovers(next, k, S, s)
  BY <1>4, <1>6, <1>11, RecoversJournal DEF Recovers
<1>14. Fine(next, exposed, submitted)
  BY <1>4, <1>13, FineBy
<1>15. disk' \in Files /\ survivors' \subseteq Files /\ ImagesInv'
  BY <1>1, <1>2, <1>11, <1>12, <1>14, ImagesGrow
<1>16. disk' = next
  BY <1>12 DEF Changed
<1>17. Loaded(k, S, s)'
  BY <1>1, <1>3, <1>10, <1>11, <1>13, <1>16 DEF Loaded
<1>18. ~HasTornTail(disk.journal)'
  BY <1>10, <1>11, <1>16
<1>19. LoadInv' /\ AnchorInv'
  BY <1>1, <1>17, <1>18 DEF LoadInv, AnchorInv, Anchoring
<1>20. apc \in Loading \cup Anchoring /\ apc' \in Loading \cup Anchoring /\ unsynced' \in BOOLEAN
  BY <1>1, <1>2 DEF Loading
<1> QED
  BY <1>1, <1>15, <1>19, <1>20, OpenKeeps

LEMMA AdoptStep ==
  ASSUME Inv, Adopt
  PROVE  Inv'
<1>1. /\ apc = "adopt" /\ apc' = "adopt_sync"
      /\ Changed([disk EXCEPT !.state = disk.prepared, !.prepared = Absent], {})
      /\ UNCHANGED <<unsynced, cpc, mem, capture, exposed, submitted, opens, faults>>
  BY DEF Adopt
<1>2. disk \in Files /\ submitted \in Nat /\ unsynced \in BOOLEAN /\ TypeInv /\ ImagesInv
  BY DEF Inv, TypeInv
<1>3. PICK k \in Nat, S \in Snapshots, s \in Snapshots :
        Loaded(k, S, s) /\ ~HasTornTail(disk.journal) /\ disk.prepared = S
  BY <1>1 DEF Inv, LoadInv
<1>4. PICK next : next = [disk EXCEPT !.state = disk.prepared, !.prepared = Absent]
  OBVIOUS
<1>5. next \in Files /\ next.state = S /\ next.journal = disk.journal
  BY <1>2, <1>3, <1>4, StatePublished
<1>6. Recovers(next, k, S, s) /\ Shown(s, exposed, submitted)
  BY <1>3, <1>5, RecoversMoved DEF Loaded
<1>7. Fine(next, exposed, submitted)
  BY <1>6, FineBy
<1>8. disk' \in Files /\ survivors' \subseteq Files /\ ImagesInv' /\ disk' = next
  <2>1. Changed(next, {}) /\ submitted' = submitted /\ submitted <= submitted' /\ exposed' = exposed
    BY <1>1, <1>2, <1>4
  <2>2. disk' = next
    BY <2>1 DEF Changed
  <2> QED
    BY <1>2, <1>5, <1>7, <2>1, <2>2, ImagesGrow
<1>9. Loaded(k, disk.state, s)'
  BY <1>1, <1>3, <1>5, <1>6, <1>8 DEF Loaded
<1>10. ~HasTornTail(disk.journal)'
  BY <1>3, <1>5, <1>8
<1>11. LoadInv' /\ AnchorInv'
  BY <1>1, <1>9, <1>10 DEF LoadInv, AnchorInv, Anchoring
<1>12. apc \in Loading \cup Anchoring /\ apc' \in Loading \cup Anchoring /\ unsynced' \in BOOLEAN
  BY <1>1, <1>2 DEF Loading
<1> QED
  BY <1>1, <1>8, <1>11, <1>12, OpenKeeps

LEMMA DiscardStep ==
  ASSUME Inv, Discard
  PROVE  Inv'
<1>1. /\ apc = "discard" /\ apc' = "discard_sync" /\ unsynced' = FALSE
      /\ Changed([disk EXCEPT !.journal = Absent, !.prepared = Absent], {[disk EXCEPT !.journal = Absent]})
      /\ UNCHANGED <<cpc, mem, capture, exposed, submitted, opens, faults>>
  BY DEF Discard
<1>2. disk \in Files /\ submitted \in Nat /\ TypeInv /\ ImagesInv
  BY DEF Inv, TypeInv
<1>3. FreshOpen
  BY <1>1 DEF Inv, LoadInv
<1>4. PICK next : next = [disk EXCEPT !.journal = Absent, !.prepared = Absent]
  OBVIOUS
<1>5. PICK half : half = [disk EXCEPT !.journal = Absent]
  OBVIOUS
<1>6. next \in Files /\ next.state = disk.state /\ next.journal = Absent /\ next.marker = disk.marker
  <2>1. Absent \in Journals \cup {Absent} /\ Absent \in Snapshots \cup {Absent, Partial}
    OBVIOUS
  <2> QED
    BY <1>2, <1>4, <2>1, BothChanged DEF Files
<1>7. half \in Files /\ half.state = disk.state /\ half.journal = Absent /\ half.marker = disk.marker
  <2>1. Absent \in Journals \cup {Absent}
    OBVIOUS
  <2> QED
    BY <1>2, <1>5, <2>1, JournalChanged
<1>8. Blank(next) /\ Blank(half) /\ exposed = <<>>
  BY <1>3, <1>6, <1>7 DEF FreshOpen, Blank
<1>9. Fine(next, exposed, submitted) /\ Fine(half, exposed, submitted)
  BY <1>8, BlankFine
<1>10. Changed(next, {half})
  BY <1>1, <1>4, <1>5
<1>11. disk' \in Files /\ survivors' \subseteq Files /\ ImagesInv' /\ disk' = next
  <2>1. submitted' = submitted /\ submitted <= submitted' /\ exposed' = exposed
    BY <1>1, <1>2
  <2>2. disk' = next
    BY <1>10 DEF Changed
  <2> QED
    BY <1>2, <1>6, <1>7, <1>9, <1>10, <2>1, <2>2, ImagesGrow
<1>12. (FreshOpen /\ disk.journal = Absent)'
  BY <1>1, <1>3, <1>6, <1>8, <1>11 DEF FreshOpen
<1>13. LoadInv' /\ AnchorInv'
  BY <1>1, <1>12 DEF LoadInv, AnchorInv, Anchoring
<1>14. apc \in Loading \cup Anchoring /\ apc' \in Loading \cup Anchoring /\ unsynced' \in BOOLEAN
  BY <1>1 DEF Loading
<1> QED
  BY <1>1, <1>11, <1>13, <1>14, OpenKeeps

\* Another prepared snapshot changes nothing of that.
LEMMA ReadiedMoves ==
  ASSUME Inv, apc \in {"adopt_sync", "discard_sync", "prepare", "prepare_sync", "anchor"},
         NEW x \in Files, x.state = disk.state, x.journal = disk.journal, x.marker = disk.marker
  PROVE  /\ Fine(x, exposed, submitted)
         /\ x = disk' /\ UNCHANGED <<mem, exposed, submitted>> =>
              \/ (FreshOpen /\ disk.journal = Absent)'
              \/ \E k \in Nat, s \in Snapshots : Loaded(k, disk.state, s)' /\ ~HasTornTail(disk.journal)'
<1>1. \/ FreshOpen /\ disk.journal = Absent
      \/ \E k \in Nat, s \in Snapshots : Loaded(k, disk.state, s) /\ ~HasTornTail(disk.journal)
  BY DEF Inv, LoadInv
<1>2. CASE FreshOpen /\ disk.journal = Absent
  <2>1. Blank(x) /\ exposed = <<>>
    BY <1>2 DEF FreshOpen, Blank
  <2>2. Fine(x, exposed, submitted)
    BY <2>1, BlankFine
  <2>3. x = disk' /\ UNCHANGED <<mem, exposed, submitted>> => (FreshOpen /\ disk.journal = Absent)'
    BY <1>2, <2>1 DEF FreshOpen
  <2> QED
    BY <2>2, <2>3
<1>3. CASE \E k \in Nat, s \in Snapshots : Loaded(k, disk.state, s) /\ ~HasTornTail(disk.journal)
  <2>1. PICK k \in Nat, s \in Snapshots : Loaded(k, disk.state, s) /\ ~HasTornTail(disk.journal)
    BY <1>3
  <2>2. disk.state \in Snapshots
    BY <2>1, AbsentAssumption DEF Loaded, Recovers, Inv, TypeInv, Files
  <2>3. Recovers(x, k, disk.state, s) /\ Shown(s, exposed, submitted)
    BY <2>1, RecoversMoved DEF Loaded
  <2>4. Fine(x, exposed, submitted)
    BY <2>2, <2>3, FineBy
  <2>5. x = disk' /\ UNCHANGED <<mem, exposed, submitted>> => Loaded(k, disk.state, s)' /\ ~HasTornTail(disk.journal)'
    BY <2>1, <2>3 DEF Loaded
  <2> QED
    BY <2>4, <2>5
<1> QED
  BY <1>1, <1>2, <1>3

LEMMA OpenPrepareStep ==
  ASSUME Inv, OpenPrepare
  PROVE  Inv'
<1>1. /\ apc = "prepare" /\ apc' = "prepare_sync"
      /\ Changed([disk EXCEPT !.prepared = Partial], {[disk EXCEPT !.prepared = mem.snapshot]})
      /\ UNCHANGED <<unsynced, cpc, mem, capture, exposed, submitted, opens, faults>>
  BY DEF OpenPrepare
<1>2. disk \in Files /\ submitted \in Nat /\ unsynced \in BOOLEAN /\ mem.snapshot \in Snapshots /\ TypeInv /\ ImagesInv
  BY DEF Inv, TypeInv, Memories
<1>3. PICK next : next = [disk EXCEPT !.prepared = Partial]
  OBVIOUS
<1>4. PICK full : full = [disk EXCEPT !.prepared = mem.snapshot]
  OBVIOUS
<1>5. next \in Files /\ next.state = disk.state /\ next.journal = disk.journal /\ next.marker = disk.marker
  <2>1. Partial \in Snapshots \cup {Absent, Partial}
    OBVIOUS
  <2> QED
    BY <1>2, <1>3, <2>1, PreparedChanged
<1>6. full \in Files /\ full.state = disk.state /\ full.journal = disk.journal /\ full.marker = disk.marker
  BY <1>2, <1>4, PreparedChanged
<1>7. Fine(next, exposed, submitted) /\ Fine(full, exposed, submitted)
  BY <1>1, <1>5, <1>6, ReadiedMoves
<1>8. Changed(next, {full})
  BY <1>1, <1>3, <1>4
<1>9. disk' \in Files /\ survivors' \subseteq Files /\ ImagesInv' /\ disk' = next
  <2>1. submitted' = submitted /\ submitted <= submitted' /\ exposed' = exposed
    BY <1>1, <1>2
  <2>2. disk' = next
    BY <1>8 DEF Changed
  <2> QED
    BY <1>2, <1>5, <1>6, <1>7, <1>8, <2>1, <2>2, ImagesGrow
<1>10. LoadInv' /\ AnchorInv'
  <2>1. \/ (FreshOpen /\ disk.journal = Absent)'
        \/ \E k \in Nat, s \in Snapshots : Loaded(k, disk.state, s)' /\ ~HasTornTail(disk.journal)'
    BY <1>1, <1>5, <1>9, ReadiedMoves
  <2> QED
    BY <1>1, <2>1 DEF LoadInv, AnchorInv, Anchoring
<1>11. apc \in Loading \cup Anchoring /\ apc' \in Loading \cup Anchoring /\ unsynced' \in BOOLEAN
  BY <1>1, <1>2 DEF Loading
<1> QED
  BY <1>1, <1>9, <1>10, <1>11, OpenKeeps

\* Whatever the append of open's anchor leaves recovers.
LEMMA AnchorTears ==
  ASSUME Inv, apc = "anchor", NEW j \in TornAppends(disk.journal)
  PROVE  [disk EXCEPT !.journal = j] \in Files /\ Fine([disk EXCEPT !.journal = j], exposed, submitted)
<1>1. disk \in Files /\ submitted \in Nat
  BY DEF Inv, TypeInv
<1>2. PICK x : x = [disk EXCEPT !.journal = j]
  OBVIOUS
<1>3. \/ FreshOpen /\ disk.journal = Absent
      \/ \E k \in Nat, s \in Snapshots : Loaded(k, disk.state, s) /\ ~HasTornTail(disk.journal)
  BY DEF Inv, LoadInv
<1>4. CASE FreshOpen /\ disk.journal = Absent
  <2>1. j \in Journals /\ j \in {TornHeader, Journal(0, <<>>), Journal(0, <<TornFrame>>)}
    <3>1. PICK f \in Records : TRUE
      <4>1. <<>> \in Snapshots /\ 0 \in Nat
        BY EmptySeq DEF Snapshots
      <4>2. SnapshotDigest(<<>>) \in Digests
        BY <4>1, EmptySeq DEF SnapshotDigest, Digests
      <4>3. Anchor(SnapshotDigest(<<>>), <<>>) \in Records
        BY <4>1, <4>2, DigestFacts
      <4> QED
        BY <4>3
    <3>2. TornAppends(Absent) \subseteq Journals
          /\ TornAppends(Absent) \subseteq {TornHeader, Journal(0, <<>>), Journal(0, <<TornFrame>>)}
      BY <3>1, FirstAppend
    <3> QED
      BY <1>4, <3>2
  <2>2. x \in Files /\ x.state = disk.state /\ x.journal = j /\ x.marker = disk.marker
    BY <1>1, <1>2, <2>1, JournalChanged
  <2>3. Blank(x) /\ exposed = <<>>
    BY <1>4, <2>1, <2>2 DEF FreshOpen, Blank
  <2> QED
    BY <1>2, <2>2, <2>3, BlankFine
<1>5. CASE \E k \in Nat, s \in Snapshots : Loaded(k, disk.state, s) /\ ~HasTornTail(disk.journal)
  <2>1. PICK k \in Nat, s \in Snapshots : Loaded(k, disk.state, s) /\ ~HasTornTail(disk.journal)
    BY <1>5
  <2>2. Recovers(disk, k, disk.state, s) /\ Shown(s, exposed, submitted)
    BY <2>1 DEF Loaded
  <2>3. disk.state \in Snapshots /\ disk.journal \in Journals /\ Readable(disk.journal)
    BY <1>1, <2>2, AbsentAssumption DEF Recovers, Files
  <2>4. PICK b \in Nat, r \in Seq(Records) : disk.journal = Journal(b, r) /\ r = WholeFrames(disk.journal)
    BY <2>1, <2>3, ShapeOf
  <2>5. j = Journal(b, r) \/ j = Journal(b, Append(r, TornFrame))
    BY <2>4, AppendedJournal
  <2>6. j \in Journals
    BY <2>5, CleanReads, TornReads
  <2>7. x \in Files /\ x.state = disk.state /\ x.journal = j
    BY <1>1, <1>2, <2>6, JournalChanged
  <2>8. Chained(r, k, disk.state) /\ Replays(r, k, disk.state, s)
    BY <2>2, <2>4 DEF Recovers
  <2>9. Recovers(x, k, disk.state, s)
    BY <2>3, <2>5, <2>7, <2>8, RecoversJournal
  <2> QED
    BY <1>2, <2>2, <2>3, <2>7, <2>9, FineBy
<1> QED
  BY <1>3, <1>4, <1>5

\* The journal with open's anchor at its end.
LEMMA AnchorAppended ==
  ASSUME Inv, apc = "anchor"
  PROVE  \E b \in Nat, t \in Seq(Records) :
           /\ Appended(disk.journal, OpenFrame) = Journal(b, t)
           /\ Chained(t, Len(t), mem.snapshot) /\ Replays(t, Len(t), mem.snapshot, mem.snapshot)
           /\ b + Len(t) = mem.clean + 1 /\ Len(t) \in Nat
           /\ Shown(mem.snapshot, exposed, submitted)
<1>1. disk \in Files /\ mem \in Memories /\ mem.snapshot \in Snapshots /\ exposed \in Snapshots /\ submitted \in Nat
  BY DEF Inv, TypeInv, Memories
<1>2. OpenFrame \in Records /\ OpenFrame.kind = "anchor" /\ OpenFrame.resulting = SnapshotDigest(mem.snapshot)
  <2>1. PICK dg : dg = IF mem.chain = None THEN SnapshotDigest(mem.snapshot) ELSE mem.chain
    OBVIOUS
  <2>2. SnapshotDigest(mem.snapshot) \in Digests
    BY <1>1, EmptySeq DEF SnapshotDigest, Digests
  <2>3. dg \in Digests
    BY <1>1, <2>1, <2>2 DEF Memories
  <2>4. OpenFrame = Anchor(dg, mem.snapshot)
    BY <2>1 DEF OpenFrame
  <2>5. PICK c \in Nat : TRUE
    OBVIOUS
  <2> QED
    BY <1>1, <2>3, <2>4, <2>5, DigestFacts
<1> DEFINE f == OpenFrame
<1> HIDE DEF f
<1>3. \/ FreshOpen /\ disk.journal = Absent
      \/ \E k \in Nat, s \in Snapshots : Loaded(k, disk.state, s) /\ ~HasTornTail(disk.journal)
  BY DEF Inv, LoadInv
<1>4. ASSUME NEW b \in Nat, NEW r \in Seq(Records), Appended(disk.journal, f) = Journal(b, Append(r, f)),
             b + Len(r) = mem.clean, Shown(mem.snapshot, exposed, submitted)
      PROVE  \E t \in Seq(Records) :
               /\ Appended(disk.journal, f) = Journal(b, t)
               /\ Chained(t, Len(t), mem.snapshot) /\ Replays(t, Len(t), mem.snapshot, mem.snapshot)
               /\ b + Len(t) = mem.clean + 1 /\ Len(t) \in Nat
               /\ Shown(mem.snapshot, exposed, submitted)
  <2>1. f \in Records /\ f.kind = "anchor" /\ f.resulting = SnapshotDigest(mem.snapshot)
    BY <1>2 DEF f
  <2>2. PICK t \in Seq(Records) : t = Append(r, f) /\ Len(t) = Len(r) + 1 /\ t[Len(r) + 1] = f
                                  /\ DOMAIN t = 1..Len(r) + 1 /\ Len(r) \in Nat
    BY <2>1, AppendFacts
  <2>3. Len(t) \in DOMAIN t /\ t[Len(t)] = f
    BY <2>2
  <2>4. Chained(t, Len(t), mem.snapshot) /\ Replays(t, Len(t), mem.snapshot, mem.snapshot)
    BY <1>1, <2>1, <2>3, AnchorLast
  <2>5. b + Len(t) = mem.clean + 1 /\ Len(t) \in Nat
    BY <1>4, <2>2
  <2> QED
    BY <1>4, <2>2, <2>4, <2>5
<1>5. CASE FreshOpen /\ disk.journal = Absent
  <2>1. Appended(disk.journal, f) = Journal(0, Append(<<>>, f)) /\ <<>> \in Seq(Records)
    BY <1>2, <1>5, FirstAppend DEF f
  <2>2. mem.clean = 0 /\ mem.snapshot = <<>> /\ exposed = <<>>
    BY <1>5 DEF FreshOpen, FreshMem
  <2>3. Len(<<>>) = 0
    BY EmptySeq
  <2>4. Shown(mem.snapshot, exposed, submitted)
    BY <2>2, <2>3 DEF Shown
  <2>5. 0 \in Nat /\ 0 + Len(<<>>) = mem.clean
    BY <2>2, <2>3
  <2> QED
    BY <1>4, <2>1, <2>4, <2>5 DEF f
<1>6. CASE \E k \in Nat, s \in Snapshots : Loaded(k, disk.state, s) /\ ~HasTornTail(disk.journal)
  <2>1. PICK k \in Nat, s \in Snapshots : Loaded(k, disk.state, s) /\ ~HasTornTail(disk.journal)
    BY <1>6
  <2>2. Recovers(disk, k, disk.state, s) /\ Shown(s, exposed, submitted) /\ mem.snapshot = Append(s, Restart)
        /\ mem.clean = CleanLen(disk.journal)
    BY <2>1 DEF Loaded
  <2>3. disk.journal \in Journals /\ Readable(disk.journal)
    BY <1>1, <2>2 DEF Recovers, Files
  <2>4. PICK b \in Nat, r \in Seq(Records) : disk.journal = Journal(b, r)
    BY <2>1, <2>3, ShapeOf
  <2>5. Appended(disk.journal, f) = Journal(b, Append(r, f))
    BY <1>2, <2>4, AppendedJournal DEF f
  <2>6. b + Len(r) = mem.clean
    <3>1. CleanLen(Journal(b, r)) = b + Len(r)
      BY CleanReads
    <3> QED
      BY <2>2, <2>4, <3>1
  <2>7. Shown(mem.snapshot, exposed, submitted)
    <3>1. Restart \in Nat /\ Restart <= submitted
      BY <1>1 DEF Restart
    <3> QED
      BY <1>1, <2>2, <3>1, ShownAppend
  <2> QED
    BY <1>4, <2>5, <2>6, <2>7 DEF f
<1> QED
  BY <1>3, <1>5, <1>6

LEMMA OpenAnchorStep ==
  ASSUME Inv, OpenAnchor
  PROVE  Inv'
<1>1. /\ apc = "anchor" /\ apc' = "anchor_sync" /\ unsynced' = TRUE
      /\ Changed([disk EXCEPT !.journal = Appended(disk.journal, OpenFrame)],
                 {[disk EXCEPT !.journal = j] : j \in TornAppends(disk.journal)})
      /\ UNCHANGED <<cpc, mem, capture, exposed, submitted, opens, faults>>
  BY DEF OpenAnchor
<1>2. disk \in Files /\ submitted \in Nat /\ mem.snapshot \in Snapshots /\ TypeInv /\ ImagesInv
      /\ disk.prepared = mem.snapshot
  BY <1>1 DEF Inv, TypeInv, Memories, LoadInv
<1>3. PICK b \in Nat, t \in Seq(Records) :
           /\ Appended(disk.journal, OpenFrame) = Journal(b, t)
           /\ Chained(t, Len(t), mem.snapshot) /\ Replays(t, Len(t), mem.snapshot, mem.snapshot)
           /\ b + Len(t) = mem.clean + 1 /\ Len(t) \in Nat
           /\ Shown(mem.snapshot, exposed, submitted)
  BY <1>1, AnchorAppended
<1>4. PICK next : next = [disk EXCEPT !.journal = Journal(b, t)]
  OBVIOUS
<1>5. /\ Journal(b, t) \in Journals /\ Journal(b, t).base = b /\ Journal(b, t).frames = t
      /\ WholeJournal(Journal(b, t))
  BY CleanReads
<1>6. next \in Files /\ next.prepared = mem.snapshot /\ next.journal = Journal(b, t)
  BY <1>2, <1>4, <1>5, JournalChanged
<1>7. Fine(next, exposed, submitted)
  <2>1. Recovers(next, Len(t), mem.snapshot, mem.snapshot)
    BY <1>2, <1>3, <1>6, RecoversJournal
  <2> QED
    BY <1>2, <1>3, <2>1, FineBy
<1>8. PICK images : images = {[disk EXCEPT !.journal = j] : j \in TornAppends(disk.journal)}
  OBVIOUS
<1>9. \A x \in images : x \in Files /\ Fine(x, exposed, submitted)
  BY <1>1, <1>8, AnchorTears
<1>10. Changed(next, images) /\ submitted' = submitted /\ submitted <= submitted' /\ exposed' = exposed
  BY <1>1, <1>2, <1>3, <1>4, <1>8
<1>11. disk' \in Files /\ survivors' \subseteq Files /\ ImagesInv'
  BY <1>2, <1>6, <1>7, <1>9, <1>10, ImagesGrow
<1>12. disk' = next
  BY <1>10 DEF Changed
<1>13. AnchorInv'
  BY <1>1, <1>3, <1>5, <1>6, <1>12 DEF AnchorInv
<1>14. LoadInv'
  BY <1>1 DEF LoadInv
<1>15. apc \in Loading \cup Anchoring /\ apc' \in Loading \cup Anchoring /\ unsynced' \in BOOLEAN
  BY <1>1 DEF Loading, Anchoring
<1> QED
  BY <1>1, <1>11, <1>13, <1>14, <1>15, OpenKeeps

LEMMA OpenAnchorTornStep ==
  ASSUME Inv, OpenAnchorTorn
  PROVE  Inv'
<1>1. /\ apc = "anchor" /\ faults' = faults + 1 /\ apc' = "down"
      /\ UNCHANGED <<unsynced, cpc, mem, capture, exposed, submitted, opens>>
  BY DEF OpenAnchorTorn
<1>2. submitted \in Nat /\ faults \in Nat /\ unsynced \in BOOLEAN /\ TypeInv /\ ImagesInv
  BY DEF Inv, TypeInv
<1>3. PICK images : images = {[disk EXCEPT !.journal = j] : j \in TornAppends(disk.journal)}
  OBVIOUS
<1>4. \A x \in images : x \in Files /\ Fine(x, exposed, submitted)
  BY <1>1, <1>3, AnchorTears
<1>5. PICK next \in images : Changed(next, images)
  BY <1>3 DEF OpenAnchorTorn
<1>6. submitted' = submitted /\ submitted <= submitted' /\ exposed' = exposed
  BY <1>1, <1>2
<1>7. disk' \in Files /\ survivors' \subseteq Files /\ ImagesInv'
  BY <1>2, <1>4, <1>5, <1>6, ImagesGrow
<1>8. cpc' = "idle"
  BY <1>1, OpenIdle DEF Serving
<1>9. faults' \in Nat /\ faults' >= faults
  BY <1>1, <1>2
<1> QED
  BY <1>1, <1>2, <1>7, <1>8, <1>9, DownKeeps

\* Files by the anchor open has written.
LEMMA AnchorHolds ==
  ASSUME Inv, apc \in Anchoring
  PROVE  \E b \in Nat, t \in Seq(Records) :
           /\ disk.journal = Journal(b, t) /\ disk.journal.base = b /\ disk.journal.frames = t
           /\ Len(t) \in Nat /\ Len(t) \in 1..Len(t)
           /\ Chained(t, Len(t), mem.snapshot) /\ Replays(t, Len(t), mem.snapshot, mem.snapshot)
           /\ b + Len(t) = mem.clean + 1
           /\ mem.snapshot \in Snapshots /\ mem.clean \in Nat /\ Shown(mem.snapshot, exposed, submitted)
<1>1. disk \in Files /\ mem.snapshot \in Snapshots /\ mem.clean \in Nat
  BY DEF Inv, TypeInv, Memories
<1>2. /\ WholeJournal(disk.journal)
      /\ Chained(disk.journal.frames, Len(disk.journal.frames), mem.snapshot)
      /\ disk.journal.base + Len(disk.journal.frames) = mem.clean + 1
      /\ Shown(mem.snapshot, exposed, submitted)
  BY DEF Inv, AnchorInv
<1>3. PICK b \in Nat, t \in Seq(Records) : disk.journal = Journal(b, t) /\ disk.journal.base = b /\ disk.journal.frames = t
  <2>1. disk.journal \in Journals /\ disk.journal.header = TRUE /\ disk.journal.frames \in Seq(Records)
    BY <1>1, <1>2 DEF WholeJournal, Files
  <2>2. disk.journal.base \in Nat /\ disk.journal = Journal(disk.journal.base, disk.journal.frames)
    BY <2>1 DEF Journals, Journal
  <2> QED
    BY <2>1, <2>2
<1>4. Chained(t, Len(t), mem.snapshot) /\ b + Len(t) = mem.clean + 1
  BY <1>2, <1>3
<1>5. Len(t) \in Nat /\ DOMAIN t = 1..Len(t)
  BY LenProperties
<1>6. Len(t) \in 1..Len(t) /\ Replays(t, Len(t), mem.snapshot, mem.snapshot)
  BY <1>1, <1>4, <1>5, AnchorLast DEF Chained
<1> QED
  BY <1>1, <1>2, <1>3, <1>4, <1>5, <1>6

LEMMA OpenPublishStep ==
  ASSUME Inv, OpenPublish
  PROVE  Inv'
<1>1. /\ apc = "publish" /\ apc' = "publish_sync"
      /\ Changed([disk EXCEPT !.state = disk.prepared, !.prepared = Absent], {})
      /\ UNCHANGED <<unsynced, cpc, mem, capture, exposed, submitted, opens, faults>>
  BY DEF OpenPublish
<1>2. disk \in Files /\ submitted \in Nat /\ unsynced \in BOOLEAN /\ TypeInv /\ ImagesInv
  BY DEF Inv, TypeInv
<1>3. apc \in Anchoring /\ disk.prepared = mem.snapshot /\ ~unsynced
  BY <1>1 DEF Inv, AnchorInv, Anchoring
<1>4. PICK b \in Nat, t \in Seq(Records) :
           /\ disk.journal = Journal(b, t)
           /\ Chained(t, Len(t), mem.snapshot) /\ Replays(t, Len(t), mem.snapshot, mem.snapshot) /\ Len(t) \in Nat
           /\ mem.snapshot \in Snapshots /\ Shown(mem.snapshot, exposed, submitted)
  BY <1>3, AnchorHolds
<1>5. PICK next : next = [disk EXCEPT !.state = disk.prepared, !.prepared = Absent]
  OBVIOUS
<1>6. next \in Files /\ next.state = mem.snapshot /\ next.journal = disk.journal
  BY <1>2, <1>3, <1>4, <1>5, StatePublished
<1>7. Fine(next, exposed, submitted)
  <2>1. Recovers(next, Len(t), mem.snapshot, mem.snapshot)
    BY <1>4, <1>6, RecoversJournal
  <2> QED
    BY <1>4, <2>1, FineBy
<1>8. disk' \in Files /\ survivors' \subseteq Files /\ ImagesInv' /\ disk' = next
  <2>1. Changed(next, {}) /\ submitted' = submitted /\ submitted <= submitted' /\ exposed' = exposed
    BY <1>1, <1>2, <1>5
  <2>2. disk' = next
    BY <2>1 DEF Changed
  <2> QED
    BY <1>2, <1>6, <1>7, <2>1, <2>2, ImagesGrow
<1>9. LoadInv' /\ AnchorInv'
  <2>1. AnchorInv
    BY DEF Inv
  <2>2. AnchorInv'
    BY <1>1, <1>3, <1>6, <1>8, <2>1 DEF AnchorInv, Anchoring
  <2> QED
    BY <1>1, <2>2 DEF LoadInv
<1>10. apc \in Loading \cup Anchoring /\ apc' \in Loading \cup Anchoring /\ unsynced' \in BOOLEAN
  BY <1>1, <1>2 DEF Anchoring
<1> QED
  BY <1>1, <1>8, <1>9, <1>10, OpenKeeps

LEMMA OpenCompactStep ==
  ASSUME Inv, OpenCompact
  PROVE  Inv'
<1>1. /\ apc = "compact" /\ apc' = "compact_sync"
      /\ IF mem.clean = disk.journal.base
         THEN UNCHANGED <<disk, survivors>>
         ELSE Changed([disk EXCEPT !.journal = Journal(mem.clean, FramesFrom(disk.journal, mem.clean))], {})
      /\ UNCHANGED <<unsynced, cpc, mem, capture, exposed, submitted, opens, faults>>
  BY DEF OpenCompact
<1>2. disk \in Files /\ submitted \in Nat /\ unsynced \in BOOLEAN /\ TypeInv /\ ImagesInv
  BY DEF Inv, TypeInv
<1>3. apc \in Anchoring /\ disk.state = mem.snapshot /\ ~unsynced /\ AnchorInv
  BY <1>1 DEF Inv, AnchorInv, Anchoring
<1>4. PICK b \in Nat, t \in Seq(Records) :
           /\ disk.journal = Journal(b, t) /\ disk.journal.base = b /\ disk.journal.frames = t
           /\ Chained(t, Len(t), mem.snapshot) /\ Len(t) \in Nat /\ Len(t) \in 1..Len(t)
           /\ b + Len(t) = mem.clean + 1
           /\ mem.snapshot \in Snapshots /\ mem.clean \in Nat /\ Shown(mem.snapshot, exposed, submitted)
  BY <1>3, AnchorHolds
<1>5. apc \in Loading \cup Anchoring /\ apc' \in Loading \cup Anchoring /\ unsynced' \in BOOLEAN
  BY <1>1, <1>2 DEF Anchoring
<1>6. LoadInv'
  BY <1>1 DEF LoadInv
<1>7. CASE mem.clean = disk.journal.base
  <2>1. disk' = disk /\ survivors' = survivors
    BY <1>1, <1>7
  <2>2. disk' \in Files /\ survivors' \subseteq Files /\ ImagesInv'
    BY <1>1, <1>2, <2>1, ImagesKept
  <2>3. Len(t) = 1
    <3>1. PICK n \in Nat : n = Len(t)
      BY <1>4
    <3>2. b + n = b + 1
      BY <1>4, <1>7, <3>1
    <3>3. n = 1
      BY <3>2
    <3> QED
      BY <3>1, <3>3
  <2>4. AnchorInv'
    BY <1>1, <1>3, <1>4, <2>1, <2>3 DEF AnchorInv
  <2> QED
    BY <1>1, <1>5, <1>6, <2>2, <2>4, OpenKeeps
<1>8. CASE mem.clean # disk.journal.base
  <2>1. WholeFrames(disk.journal) = t
    <3>1. WholeFrames(Journal(b, t)) = t
      BY CleanReads
    <3> QED
      BY <1>4, <3>1
  <2>2. PICK q \in 0..Len(t) : q = Len(t) - 1
    <3>1. PICK n \in Nat : n = Len(t) /\ n \in 1..n
      BY <1>4
    <3>2. n - 1 \in 0..n
      BY <3>1
    <3> QED
      BY <3>1, <3>2
  <2>3. mem.clean - b + 1 = q + 1 /\ Len(t) - q = 1
    BY <1>4, <2>2
  <2> DEFINE u == SubSeq(t, q + 1, Len(t))
  <2>4. /\ u \in Seq(Records) /\ Len(u) = Len(t) - q /\ DOMAIN u = 1..Len(t) - q
        /\ \A i \in 1..Len(t) - q : u[i] = t[q + i]
    BY SuffixFacts
  <2>5. FramesFrom(disk.journal, mem.clean) = u
    BY <1>4, <2>1, <2>3 DEF FramesFrom
  <2> HIDE DEF u
  <2>6. Len(u) = 1 /\ Len(u) \in DOMAIN u /\ u[Len(u)] = t[Len(t)]
    BY <1>4, <2>2, <2>3, <2>4
  <2>7. Chained(u, Len(u), mem.snapshot) /\ Replays(u, Len(u), mem.snapshot, mem.snapshot)
    <3>1. t[Len(t)].kind = "anchor" /\ t[Len(t)].resulting = SnapshotDigest(mem.snapshot)
      BY <1>4 DEF Chained
    <3>2. u[Len(u)].kind = "anchor" /\ u[Len(u)].resulting = SnapshotDigest(mem.snapshot)
      BY <2>6, <3>1
    <3>3. mem.snapshot \in Snapshots /\ u \in Seq(Records) /\ Len(u) \in DOMAIN u
      BY <1>4, <2>4, <2>6
    <3> QED
      BY <3>2, <3>3, AnchorLast
  <2>8. PICK next : next = [disk EXCEPT !.journal = Journal(mem.clean, u)]
    OBVIOUS
  <2>9. /\ Journal(mem.clean, u) \in Journals /\ Journal(mem.clean, u).base = mem.clean
        /\ Journal(mem.clean, u).frames = u /\ WholeJournal(Journal(mem.clean, u))
    BY <1>4, <2>4, CleanReads, ZenonT(40)
  <2>10. next \in Files /\ next.state = mem.snapshot /\ next.prepared = disk.prepared /\ next.journal = Journal(mem.clean, u)
    BY <1>2, <1>3, <2>8, <2>9, JournalChanged
  <2>11. Fine(next, exposed, submitted)
    <3>1. Recovers(next, Len(u), mem.snapshot, mem.snapshot)
      BY <1>4, <2>4, <2>7, <2>10, RecoversJournal
    <3>2. Len(u) \in Nat
      BY <2>6
    <3> QED
      BY <1>4, <3>1, <3>2, FineBy
  <2>12. Changed(next, {}) /\ submitted' = submitted /\ submitted <= submitted' /\ exposed' = exposed
    BY <1>1, <1>2, <1>8, <2>5, <2>8
  <2>13. disk' = next
    BY <2>12 DEF Changed
  <2>14. disk' \in Files /\ survivors' \subseteq Files /\ ImagesInv'
    BY <1>2, <2>10, <2>11, <2>12, ImagesGrow
  <2>15. AnchorInv'
    BY <1>1, <1>3, <1>4, <2>6, <2>7, <2>9, <2>10, <2>13 DEF AnchorInv
  <2> QED
    BY <1>1, <1>5, <1>6, <2>14, <2>15, OpenKeeps
<1> QED
  BY <1>7, <1>8

LEMMA OpenMarkStep ==
  ASSUME Inv, OpenMark
  PROVE  Inv'
<1>1. /\ apc = "mark" /\ apc' = "mark_sync"
      /\ Changed([disk EXCEPT !.marker = TRUE], {})
      /\ UNCHANGED <<unsynced, cpc, mem, capture, exposed, submitted, opens, faults>>
  BY DEF OpenMark
<1>2. disk \in Files /\ submitted \in Nat /\ unsynced \in BOOLEAN /\ TypeInv /\ ImagesInv
  BY DEF Inv, TypeInv
<1>3. apc \in Anchoring /\ disk.state = mem.snapshot /\ AnchorInv
  BY <1>1 DEF Inv, AnchorInv, Anchoring
<1>4. PICK b \in Nat, t \in Seq(Records) :
           /\ disk.journal = Journal(b, t)
           /\ Chained(t, Len(t), mem.snapshot) /\ Replays(t, Len(t), mem.snapshot, mem.snapshot) /\ Len(t) \in Nat
           /\ mem.snapshot \in Snapshots /\ Shown(mem.snapshot, exposed, submitted)
  BY <1>3, AnchorHolds
<1>5. PICK next : next = [disk EXCEPT !.marker = TRUE]
  OBVIOUS
<1>6. next \in Files /\ next.state = disk.state /\ next.prepared = disk.prepared /\ next.journal = disk.journal
  BY <1>2, <1>5 DEF Files
<1>7. Fine(next, exposed, submitted)
  <2>1. Recovers(next, Len(t), mem.snapshot, mem.snapshot)
    BY <1>3, <1>4, <1>6, RecoversJournal
  <2> QED
    BY <1>4, <2>1, FineBy
<1>8. disk' \in Files /\ survivors' \subseteq Files /\ ImagesInv' /\ disk' = next
  <2>1. Changed(next, {}) /\ submitted' = submitted /\ submitted <= submitted' /\ exposed' = exposed
    BY <1>1, <1>2, <1>5
  <2>2. disk' = next
    BY <2>1 DEF Changed
  <2> QED
    BY <1>2, <1>6, <1>7, <2>1, <2>2, ImagesGrow
<1>9. LoadInv' /\ AnchorInv'
  BY <1>1, <1>3, <1>6, <1>8 DEF LoadInv, AnchorInv, Anchoring
<1>10. apc \in Loading \cup Anchoring /\ apc' \in Loading \cup Anchoring /\ unsynced' \in BOOLEAN
  BY <1>1, <1>2 DEF Anchoring
<1> QED
  BY <1>1, <1>8, <1>9, <1>10, OpenKeeps

\* A sync of open leaves nothing else on the disk: what an earlier process left
\* unsynced is written back with it.
LEMMA OpenSyncSettles ==
  ASSUME Inv, OpenSync, WritesAreOrdered
  PROVE  /\ disk' \in Files /\ survivors' \subseteq Files /\ ImagesInv'
         /\ apc = "prepare_sync" =>
              disk'.state = disk.state /\ disk'.journal = disk.journal /\ disk'.prepared = mem.snapshot
              /\ disk'.marker = disk.marker
         /\ apc # "prepare_sync" => disk' = disk
<1>1. disk \in Files /\ submitted \in Nat /\ mem.snapshot \in Snapshots /\ Fine(disk, exposed, submitted)
  BY DEF Inv, TypeInv, Memories, ImagesInv, Images
<1>2. apc \in OpenSyncs /\ exposed' = exposed /\ submitted' = submitted
  BY DEF OpenSync
<1>3. JournalImages = {disk.journal}
  BY <1>2 DEF JournalImages, OpenSyncs
<1>4. PICK next : next = IF apc = "prepare_sync" THEN [disk EXCEPT !.prepared = mem.snapshot] ELSE disk
  OBVIOUS
<1>5. Synced(next, {disk.journal}, {next.prepared})
  BY <1>3, <1>4 DEF OpenSync
<1>6. disk' = next
  BY <1>5 DEF Synced
<1>7. CASE apc = "prepare_sync"
  <2>1. next = [disk EXCEPT !.prepared = mem.snapshot]
    BY <1>4, <1>7
  <2>2. next \in Files /\ next.state = disk.state /\ next.prepared = mem.snapshot /\ next.journal = disk.journal
        /\ next.marker = disk.marker
    BY <1>1, <2>1, PreparedChanged
  <2>3. Fine(next, exposed, submitted)
    BY <1>7, <2>2, ReadiedMoves
  <2>4. Synced(next, {next.journal}, {next.prepared})
    BY <1>5, <2>2
  <2>5. disk' \in Files /\ survivors' \subseteq Files /\ ImagesInv'
    BY <1>2, <2>2, <2>3, <2>4, ImagesSettled
  <2> QED
    BY <1>6, <1>7, <2>2, <2>5
<1>8. CASE apc # "prepare_sync"
  <2>1. next = disk
    BY <1>4, <1>8
  <2>2. Synced(next, {next.journal}, {next.prepared})
    BY <1>5, <2>1
  <2>3. disk' \in Files /\ survivors' \subseteq Files /\ ImagesInv'
    BY <1>1, <1>2, <2>1, <2>2, ImagesSettled
  <2> QED
    BY <1>6, <1>8, <2>1, <2>3
<1> QED
  BY <1>7, <1>8

LEMMA OpenSyncStep ==
  ASSUME Inv, OpenSync, WritesAreOrdered
  PROVE  Inv'
<1>1. /\ apc \in OpenSyncs /\ apc' = AfterSync(apc)
      /\ unsynced' = (unsynced /\ apc \notin {"truncate_sync", "anchor_sync", "compact_sync"})
      /\ UNCHANGED <<cpc, mem, capture, exposed, submitted, opens, faults>>
  BY DEF OpenSync
<1>2. disk \in Files /\ unsynced \in BOOLEAN
  BY DEF Inv, TypeInv
<1>3. /\ disk' \in Files /\ survivors' \subseteq Files /\ ImagesInv'
      /\ apc = "prepare_sync" =>
              disk'.state = disk.state /\ disk'.journal = disk.journal /\ disk'.prepared = mem.snapshot
              /\ disk'.marker = disk.marker
      /\ apc # "prepare_sync" => disk' = disk
  BY OpenSyncSettles
<1>4. apc \in Loading \cup Anchoring /\ unsynced' \in BOOLEAN
  BY <1>1, <1>2 DEF OpenSyncs, Loading, Anchoring
<1>5. SUFFICES apc' \in Loading \cup Anchoring /\ LoadInv' /\ AnchorInv'
  BY <1>1, <1>3, <1>4, <1>5, OpenKeeps
<1>6. CASE apc = "truncate_sync"
  <2>1. PICK k \in Nat, S \in Snapshots, s \in Snapshots : Loaded(k, S, s) /\ ~HasTornTail(disk.journal)
    BY <1>6 DEF Inv, LoadInv
  <2>2. Recovers(disk, k, S, s)
    BY <2>1 DEF Loaded
  <2>3. Load(disk).file \in {"state", "prepared"} /\ disk[Load(disk).file] = S
    BY <1>2, <2>2, LoadRecovers
  <2>4. disk' = disk
    BY <1>3, <1>6
  <2>5. Loaded(k, S, s)' /\ ~HasTornTail(disk.journal)'
    BY <1>1, <2>1, <2>4 DEF Loaded
  <2>6. apc' = IF Load(disk).file = "prepared" THEN "adopt" ELSE "prepare"
    BY <1>1, <1>6 DEF AfterSync
  <2>7. CASE Load(disk).file = "prepared"
    <3>1. apc' = "adopt" /\ disk'.prepared = S
      BY <2>3, <2>4, <2>6, <2>7
    <3> QED
      BY <2>5, <3>1 DEF LoadInv, AnchorInv, Loading, Anchoring
  <2>8. CASE Load(disk).file = "state"
    <3>1. apc' = "prepare" /\ disk'.state = S
      BY <2>3, <2>4, <2>6, <2>8
    <3>2. Loaded(k, disk.state, s)'
      BY <2>5, <3>1 DEF Loaded
    <3> QED
      BY <2>5, <3>1, <3>2 DEF LoadInv, AnchorInv, Loading, Anchoring
  <2> QED
    BY <2>3, <2>7, <2>8
<1>7. CASE apc \in {"adopt_sync", "discard_sync", "prepare_sync"}
  <2>1. disk'.state = disk.state /\ disk'.journal = disk.journal /\ disk'.marker = disk.marker
    BY <1>3
  <2>2. \/ (FreshOpen /\ disk.journal = Absent)'
        \/ \E k \in Nat, s \in Snapshots : Loaded(k, disk.state, s)' /\ ~HasTornTail(disk.journal)'
    BY <1>1, <1>3, <1>7, <2>1, ReadiedMoves
  <2>3. (apc # "prepare_sync" /\ apc' = "prepare") \/ (apc = "prepare_sync" /\ apc' = "anchor")
    BY <1>1, <1>7 DEF AfterSync
  <2>4. apc' = "anchor" => disk'.prepared = mem'.snapshot
    BY <1>1, <1>3, <2>3
  <2> QED
    BY <2>2, <2>3, <2>4 DEF LoadInv, AnchorInv, Loading, Anchoring
<1>8. CASE apc \in {"anchor_sync", "publish_sync", "compact_sync"}
  <2>1. disk' = disk
    BY <1>3, <1>8
  <2>2. /\ apc = "anchor_sync" => apc' = "publish"
        /\ apc = "publish_sync" => apc' = "compact"
        /\ apc = "compact_sync" => apc' = "mark"
    BY <1>1, <1>8 DEF AfterSync
  <2>3. apc' \in Anchoring /\ apc \in Anchoring /\ apc' # "anchor_sync"
    BY <1>8, <2>2 DEF Anchoring
  <2>4. LoadInv'
    BY <1>8, <2>2 DEF LoadInv
  <2>5. AnchorInv /\ (apc # "anchor_sync" => ~unsynced)
    BY <2>3 DEF Inv, AnchorInv
  <2>6. ~unsynced'
    BY <1>1, <1>8, <2>5
  <2>7. AnchorInv'
    BY <1>1, <1>8, <2>1, <2>2, <2>3, <2>5, <2>6 DEF AnchorInv
  <2> QED
    BY <2>3, <2>4, <2>7
<1> QED
  BY <1>1, <1>6, <1>7, <1>8 DEF OpenSyncs

LEMMA OpenDoneStep ==
  ASSUME Inv, OpenDone
  PROVE  Inv'
<1>1. /\ apc = "mark_sync" /\ apc' = "serving"
      /\ Synced(disk, {disk.journal}, {disk.prepared})
      /\ mem' = [mem EXCEPT !.chain = SnapshotDigest(mem.snapshot), !.clean = mem.clean + 1,
                            !.since = 0, !.due = FALSE, !.generation = mem.generation + 1]
      /\ exposed' = mem.snapshot
      /\ UNCHANGED <<unsynced, cpc, capture, submitted, opens, faults>>
  BY DEF OpenDone
<1>2. disk \in Files /\ submitted \in Nat /\ unsynced \in BOOLEAN /\ mem \in Memories
  BY DEF Inv, TypeInv
<1>3. apc \in Anchoring /\ disk.state = mem.snapshot /\ ~unsynced /\ Len(disk.journal.frames) = 1 /\ WholeJournal(disk.journal)
  BY <1>1 DEF Inv, AnchorInv, Anchoring
<1>4. PICK b \in Nat, t \in Seq(Records) :
           /\ disk.journal = Journal(b, t) /\ disk.journal.base = b /\ disk.journal.frames = t
           /\ Chained(t, Len(t), mem.snapshot) /\ Replays(t, Len(t), mem.snapshot, mem.snapshot) /\ Len(t) \in Nat
           /\ b + Len(t) = mem.clean + 1
           /\ mem.snapshot \in Snapshots /\ mem.clean \in Nat /\ Shown(mem.snapshot, exposed, submitted)
  BY <1>3, AnchorHolds
<1>5. Len(t) = 1
  BY <1>3, <1>4
<1>6. Shown(mem.snapshot, mem.snapshot, submitted)
  <2>1. submitted <= submitted
    BY <1>2
  <2> QED
    BY <1>2, <1>4, <2>1, ShownMore
<1>7. disk' \in Files /\ survivors' \subseteq Files /\ ImagesInv' /\ disk' = disk
  <2>1. Recovers(disk, Len(t), mem.snapshot, mem.snapshot)
    BY <1>3, <1>4, RecoversJournal
  <2>2. Fine(disk, mem.snapshot, submitted)
    BY <1>4, <1>6, <2>1, FineBy
  <2>3. disk' = disk
    BY <1>1 DEF Synced
  <2> QED
    BY <1>1, <1>2, <2>2, <2>3, ImagesSettled
<1>8. cpc = "idle" /\ mem.poisoned = FALSE
  BY <1>3, OpenIdle DEF Anchoring, Serving
<1>9. SnapshotDigest(mem.snapshot) \in Digests
  BY <1>4, EmptySeq DEF SnapshotDigest, Digests
<1>10. /\ mem' \in Memories /\ mem'.snapshot = mem.snapshot /\ mem'.chain = SnapshotDigest(mem.snapshot)
       /\ mem'.clean = mem.clean + 1 /\ mem'.since = 0 /\ mem'.poisoned = FALSE
  <2>1. mem.generation + 1 \in Nat /\ mem.clean + 1 \in Nat
    BY <1>2 DEF Memories
  <2> QED
    BY <1>1, <1>2, <1>8, <1>9, <2>1 DEF Memories
<1>11. Backed(disk.journal.frames)'
  <2>1. Chained(t, 1, mem.snapshot) /\ Replays(t, 1, mem.snapshot, mem.snapshot)
    BY <1>4, <1>5
  <2>2. t[Len(t)].resulting = SnapshotDigest(mem.snapshot)
    BY <1>4 DEF Chained
  <2>3. mem'.clean = b + Len(t) /\ mem'.since = Len(t) - 1
    BY <1>4, <1>5, <1>10
  <2> QED
    BY <1>3, <1>4, <1>7, <1>10, <2>1, <2>2, <2>3 DEF Backed
<1>12. ServeInv'
  BY <1>1, <1>3, <1>6, <1>7, <1>10, <1>11 DEF ServeInv
<1>13. LoadInv' /\ AnchorInv'
  BY <1>1, ServeRest DEF Serving
<1>14. PoisonInv' /\ CaptureInv' /\ LockedInv' /\ ThreadInv'
  BY <1>1, <1>8, <1>10 DEF PoisonInv, CaptureInv, LockedInv, ThreadInv, Preparing, CheckpointLocked, Serving, Loading, Anchoring
<1>15. TypeInv'
  BY <1>1, <1>4, <1>7, <1>8, <1>10 DEF Inv, TypeInv, Preparing, Locked, Serving
<1> QED
  BY <1>7, <1>12, <1>13, <1>14, <1>15 DEF Inv

-----------------------------------------------------------------------------
(***************************************************************************)
(* Commits preserve the invariant.                                         *)
(***************************************************************************)

LEMMA SolidBy ==
  ASSUME NEW b \in Nat, NEW r \in Seq(Records), NEW k \in Nat, NEW S \in Snapshots, NEW s \in Snapshots, NEW e, NEW n,
         Chained(r, k, S), Replays(r, k, S, s), Shown(s, e, n),
         NEW j, j = Journal(b, r) \/ j = Journal(b, Append(r, TornFrame))
  PROVE  Solid(j, S, e, n) /\ j \in Journals
<1>1. j # Absent /\ Readable(j) /\ WholeFrames(j) = r /\ j \in Journals
  BY CleanReads, TornReads
<1> QED
  BY <1>1 DEF Solid

LEMMA SolidFine ==
  ASSUME NEW x, NEW e, NEW n, Solid(x.journal, x.state, e, n)
  PROVE  Fine(x, e, n)
<1>1. PICK k \in Nat, s \in Snapshots :
        Chained(WholeFrames(x.journal), k, x.state) /\ Replays(WholeFrames(x.journal), k, x.state, s) /\ Shown(s, e, n)
  BY DEF Solid
<1>2. x.state \in Snapshots /\ Recovers(x, k, x.state, s)
  BY <1>1, AbsentAssumption DEF Solid, Recovers
<1> QED
  BY <1>1, <1>2, FineBy

\* What may be left of the last frame of a journal.
LEMMA TailImages ==
  ASSUME NEW b \in Nat, NEW r \in Seq(Records), NEW f \in Records \cup {TornFrame}
  PROVE  LET j == Journal(b, Append(r, f))
             before == [j EXCEPT !.frames = Front(j.frames)]
         IN /\ before = Journal(b, r)
            /\ [before EXCEPT !.frames = Append(before.frames, TornFrame)] = Journal(b, Append(r, TornFrame))
<1>1. Front(Append(r, f)) = r
  <2>1. r \in Seq(Records \cup {TornFrame})
    BY SeqMonotonic
  <2> QED
    BY <2>1, AppendFacts
<1>2. Journal(b, Append(r, f)).frames = Append(r, f) /\ Journal(b, r).frames = r
  BY FramesReplaced
<1>3. [Journal(b, Append(r, f)) EXCEPT !.frames = r] = Journal(b, r)
  BY FramesReplaced
<1>4. [Journal(b, r) EXCEPT !.frames = Append(r, TornFrame)] = Journal(b, Append(r, TornFrame))
  BY FrameAdded
<1> QED
  BY <1>1, <1>2, <1>3, <1>4

\* Between operations, the journal is that of the memory.
LEMMA ServingHolds ==
  ASSUME Inv, apc = "serving", ~mem.poisoned, ~CheckpointLocked
  PROVE  \E b \in Nat, r \in Seq(Records) :
           /\ disk.journal = Journal(b, r) /\ disk.journal.base = b /\ disk.journal.frames = r
           /\ Len(r) \in Nat /\ Len(r) \in 1..Len(r)
           /\ Backed(r) /\ mem.chain \in Digests /\ mem.clean = b + Len(r)
           /\ disk.state \in Snapshots /\ Chained(r, 1, disk.state) /\ Replays(r, 1, disk.state, mem.snapshot)
           /\ mem.snapshot \in Snapshots /\ Shown(mem.snapshot, exposed, submitted) /\ ~unsynced
<1>1. disk \in Files /\ mem.snapshot \in Snapshots
  BY DEF Inv, TypeInv, Memories
<1>2. /\ WholeJournal(disk.journal) /\ Backed(disk.journal.frames) /\ ~unsynced
      /\ Shown(mem.snapshot, exposed, submitted)
  BY DEF Inv, ServeInv, Serving
<1>3. PICK b \in Nat, r \in Seq(Records) : disk.journal = Journal(b, r) /\ disk.journal.base = b /\ disk.journal.frames = r
  <2>1. disk.journal \in Journals /\ disk.journal.header = TRUE /\ disk.journal.frames \in Seq(Records)
    BY <1>1, <1>2 DEF WholeJournal, Files
  <2>2. disk.journal.base \in Nat /\ disk.journal = Journal(disk.journal.base, disk.journal.frames)
    BY <2>1 DEF Journals, Journal
  <2> QED
    BY <2>1, <2>2
<1>4. Backed(r)
  BY <1>2, <1>3
<1>5. Len(r) \in Nat /\ DOMAIN r = 1..Len(r)
  BY LenProperties
<1>6. Len(r) \in 1..Len(r)
  <2>1. 1 \in DOMAIN r
    BY <1>4 DEF Backed, Chained
  <2> QED
    BY <1>5, <2>1
<1>7. mem.chain \in Digests
  BY <1>4, <1>6, ElementOfSeq, RecordFacts DEF Backed
<1>8. mem.clean = b + Len(r)
  BY <1>3, <1>4 DEF Backed
<1>9. disk.state \in Snapshots /\ Chained(r, 1, disk.state) /\ Replays(r, 1, disk.state, mem.snapshot)
  BY <1>4 DEF Backed
<1> QED
  BY <1>1, <1>2, <1>3, <1>4, <1>5, <1>6, <1>7, <1>8, <1>9

\* While a commit is synced, the journal has its record in addition.
LEMMA CommitHolds ==
  ASSUME Inv, apc = "commit_sync"
  PROVE  \E b \in Nat, r \in Seq(Records), t \in Seq(Records) :
           /\ t = Append(r, CommandRecord(mem.chain, submitted))
           /\ Len(r) \in Nat /\ Len(r) \in 1..Len(r) /\ Len(t) = Len(r) + 1
           /\ t[Len(t)].resulting = ChainDigest(mem.chain, submitted) /\ mem.chain \in Digests
           /\ CommandRecord(mem.chain, submitted) \in Records
           /\ \A i \in 1..Len(r) : t[i] = r[i]
           /\ disk.journal = Journal(b, t) /\ disk.journal.base = b /\ disk.journal.frames = t
           /\ WholeJournal(disk.journal)
           /\ Backed(r) /\ mem.clean = b + Len(r) /\ mem.since = Len(r) - 1
           /\ disk.state \in Snapshots
           /\ Chained(r, 1, disk.state) /\ Replays(r, 1, disk.state, mem.snapshot)
           /\ Chained(t, 1, disk.state) /\ Replays(t, 1, disk.state, Append(mem.snapshot, submitted))
           /\ mem.snapshot \in Snapshots /\ Append(mem.snapshot, submitted) \in Snapshots
           /\ Shown(mem.snapshot, exposed, submitted)
           /\ Shown(Append(mem.snapshot, submitted), exposed, submitted)
           /\ Shown(Append(mem.snapshot, submitted), Append(mem.snapshot, submitted), submitted)
<1>1. disk \in Files /\ mem.snapshot \in Snapshots /\ exposed \in Snapshots /\ submitted \in Nat
  BY DEF Inv, TypeInv, Memories
<1>2. PICK r \in Seq(Records) :
        /\ Backed(r)
        /\ disk.journal = Journal(disk.journal.base, Append(r, CommandRecord(mem.chain, submitted)))
  BY DEF Inv, ServeInv
<1>3. Shown(mem.snapshot, exposed, submitted) /\ \A i \in 1..Len(mem.snapshot) : mem.snapshot[i] < submitted
  BY DEF Inv, ServeInv, Serving
<1>4. Len(r) \in Nat /\ DOMAIN r = 1..Len(r)
  BY LenProperties
<1>5. /\ disk.state \in Snapshots /\ Chained(r, 1, disk.state) /\ Replays(r, 1, disk.state, mem.snapshot)
      /\ mem.chain = r[Len(r)].resulting /\ mem.clean = disk.journal.base + Len(r) /\ mem.since = Len(r) - 1
  BY <1>2 DEF Backed
<1>6. Len(r) \in 1..Len(r)
  <2>1. 1 \in DOMAIN r
    BY <1>5 DEF Chained
  <2> QED
    BY <1>4, <2>1
<1>7. mem.chain \in Digests
  BY <1>5, <1>6, ElementOfSeq, RecordFacts
<1>8. PICK f \in Records : f = CommandRecord(mem.chain, submitted) /\ f.resulting = ChainDigest(mem.chain, submitted)
  BY <1>1, <1>7, CommandFacts
<1>9. PICK t \in Seq(Records) :
        /\ t = Append(r, f) /\ Len(t) = Len(r) + 1 /\ t[Len(r) + 1] = f
        /\ \A i \in 1..Len(r) : t[i] = r[i]
  <2>1. /\ Append(r, f) \in Seq(Records) /\ Len(Append(r, f)) = Len(r) + 1 /\ Append(r, f)[Len(r) + 1] = f
        /\ \A i \in 1..Len(r) : Append(r, f)[i] = r[i]
    BY AppendFacts
  <2> QED
    BY <2>1
<1>10. Chained(t, 1, disk.state) /\ Replays(t, 1, disk.state, Append(mem.snapshot, submitted))
  <2>1. t = Append(r, CommandRecord(r[Len(r)].resulting, submitted))
    BY <1>5, <1>8, <1>9
  <2> QED
    BY <1>1, <1>5, <2>1, ChainAppend
<1>11. PICK b \in Nat : b = disk.journal.base
  <2>1. WholeJournal(disk.journal)
    BY DEF Inv, ServeInv
  <2> QED
    BY <1>1, <2>1 DEF WholeJournal, Files, Journals
<1>12. disk.journal = Journal(b, t) /\ disk.journal.frames = t /\ WholeJournal(disk.journal)
  <2>1. disk.journal = Journal(b, t)
    BY <1>2, <1>8, <1>9, <1>11
  <2>2. Journal(b, t).frames = t /\ WholeJournal(Journal(b, t))
    BY CleanReads
  <2> QED
    BY <2>1, <2>2
<1>13. /\ Append(mem.snapshot, submitted) \in Snapshots
       /\ Shown(Append(mem.snapshot, submitted), exposed, submitted)
       /\ Shown(Append(mem.snapshot, submitted), Append(mem.snapshot, submitted), submitted)
  <2>1. submitted <= submitted
    BY <1>1
  <2> QED
    BY <1>1, <1>3, <2>1, ShownAppend
<1>14. t[Len(t)].resulting = ChainDigest(mem.chain, submitted) /\ t = Append(r, CommandRecord(mem.chain, submitted))
       /\ CommandRecord(mem.chain, submitted) \in Records
  BY <1>8, <1>9
<1>15. mem.clean = b + Len(r)
  BY <1>5, <1>11
<1> QED
  BY <1>1, <1>2, <1>3, <1>4, <1>5, <1>6, <1>7, <1>9, <1>10, <1>11, <1>12, <1>13, <1>14, <1>15

\* What a loss of power may make of the journal of a healthy authority.
LEMMA SolidNow ==
  ASSUME Inv, apc \in Serving, ~mem.poisoned, ~CheckpointLocked, NEW j \in JournalImages \cup {disk.journal}
  PROVE  Solid(j, disk.state, exposed, submitted) /\ j \in Journals
<1>1. CASE apc = "serving"
  <2>1. PICK b \in Nat, r \in Seq(Records) :
           /\ disk.journal = Journal(b, r)
           /\ disk.state \in Snapshots /\ Chained(r, 1, disk.state) /\ Replays(r, 1, disk.state, mem.snapshot)
           /\ mem.snapshot \in Snapshots /\ Shown(mem.snapshot, exposed, submitted) /\ ~unsynced
    BY <1>1, ServingHolds
  <2>2. j = Journal(b, r)
    BY <2>1 DEF JournalImages
  <2> QED
    BY <2>1, <2>2, SolidBy
<1>2. CASE apc = "commit_sync"
  <2>1. PICK b \in Nat, r \in Seq(Records), t \in Seq(Records) :
           /\ t = Append(r, CommandRecord(mem.chain, submitted)) /\ CommandRecord(mem.chain, submitted) \in Records
           /\ disk.journal = Journal(b, t)
           /\ disk.state \in Snapshots
           /\ Chained(r, 1, disk.state) /\ Replays(r, 1, disk.state, mem.snapshot)
           /\ Chained(t, 1, disk.state) /\ Replays(t, 1, disk.state, Append(mem.snapshot, submitted))
           /\ mem.snapshot \in Snapshots /\ Append(mem.snapshot, submitted) \in Snapshots
           /\ Shown(mem.snapshot, exposed, submitted)
           /\ Shown(Append(mem.snapshot, submitted), exposed, submitted)
    BY <1>2, CommitHolds
  <2>2. PICK f \in Records \cup {TornFrame} : t = Append(r, f)
    BY <2>1
  <2>3. /\ [disk.journal EXCEPT !.frames = Front(disk.journal.frames)] = Journal(b, r)
        /\ [Journal(b, r) EXCEPT !.frames = Append(Journal(b, r).frames, TornFrame)] = Journal(b, Append(r, TornFrame))
    <3>1. disk.journal = Journal(b, Append(r, f))
      BY <2>1, <2>2
    <3>2. PICK w : w = Journal(b, Append(r, f))
      OBVIOUS
    <3>3. [w EXCEPT !.frames = Front(w.frames)] = Journal(b, r)
      BY <3>2, TailImages
    <3>4. Journal(b, r).frames = r
      BY FramesReplaced
    <3>5. [Journal(b, r) EXCEPT !.frames = Append(r, TornFrame)] = Journal(b, Append(r, TornFrame))
      BY FrameAdded
    <3> QED
      BY <3>1, <3>2, <3>3, <3>4, <3>5
  <2>4. j \in {Journal(b, r), Journal(b, Append(r, TornFrame)), Journal(b, t)}
    BY <2>1, <2>3 DEF JournalImages
  <2>5. CASE j = Journal(b, r) \/ j = Journal(b, Append(r, TornFrame))
    BY <2>1, <2>5, SolidBy
  <2>6. CASE j = Journal(b, t)
    BY <2>1, <2>6, SolidBy
  <2> QED
    BY <2>4, <2>5, <2>6
<1> QED
  BY <1>1, <1>2 DEF Serving

\* They depend on nothing else while the authority serves.
LEMMA JournalImagesKept ==
  ASSUME apc \in Serving, apc' \in Serving, disk'.journal = disk.journal, unsynced' = unsynced
  PROVE  JournalImages' = JournalImages
BY DEF JournalImages, Serving

LEMMA CommitStarts ==
  ASSUME Inv, Commit
  PROVE  Inv'
<1>1. /\ apc = "serving" /\ ~CheckpointLocked /\ ~mem.poisoned /\ apc' = "commit_sync" /\ submitted' = submitted + 1
      /\ Changed([disk EXCEPT !.journal = Appended(disk.journal, CommandRecord(mem.chain, submitted + 1))],
                 {[disk EXCEPT !.journal = j] : j \in TornAppends(disk.journal)})
      /\ unsynced' = TRUE
      /\ UNCHANGED <<cpc, mem, capture, exposed, opens, faults>>
  BY DEF Commit, CommitReady
<1>2. disk \in Files /\ submitted \in Nat /\ exposed \in Snapshots /\ TypeInv /\ ImagesInv
  BY DEF Inv, TypeInv
<1>3. PICK b \in Nat, r \in Seq(Records) :
           /\ disk.journal = Journal(b, r) /\ disk.journal.base = b /\ disk.journal.frames = r
           /\ Len(r) \in Nat /\ Len(r) \in 1..Len(r)
           /\ Backed(r) /\ mem.chain \in Digests
           /\ disk.state \in Snapshots /\ Chained(r, 1, disk.state) /\ Replays(r, 1, disk.state, mem.snapshot)
           /\ mem.snapshot \in Snapshots /\ Shown(mem.snapshot, exposed, submitted)
  BY <1>1, ServingHolds
<1>4. PICK n \in Nat : n = submitted + 1 /\ submitted <= n /\ n <= n
  BY <1>2
<1>5. PICK f \in Records : f = CommandRecord(mem.chain, n)
  BY <1>2, <1>3, DigestFacts
<1>6. PICK t \in Seq(Records) : t = Append(r, f) /\ Len(t) = Len(r) + 1 /\ \A i \in 1..Len(r) : t[i] = r[i]
  <2>1. /\ Append(r, f) \in Seq(Records) /\ Len(Append(r, f)) = Len(r) + 1
        /\ \A i \in 1..Len(r) : Append(r, f)[i] = r[i]
    BY AppendFacts
  <2> QED
    BY <2>1
<1>7. Chained(t, 1, disk.state) /\ Replays(t, 1, disk.state, Append(mem.snapshot, n))
  <2>1. t = Append(r, CommandRecord(r[Len(r)].resulting, n))
    BY <1>3, <1>5, <1>6 DEF Backed
  <2> QED
    BY <1>3, <2>1, ChainAppend
<1>8. Shown(mem.snapshot, exposed, n) /\ \A i \in 1..Len(mem.snapshot) : mem.snapshot[i] < n
  <2>1. Shown(mem.snapshot, exposed, n)
    BY <1>2, <1>3, <1>4, ShownMore
  <2>2. ASSUME NEW i \in 1..Len(mem.snapshot) PROVE mem.snapshot[i] < n
    <3>1. mem.snapshot[i] <= submitted /\ mem.snapshot[i] \in Nat
      BY <1>3, SnapshotFacts DEF Shown
    <3> QED
      BY <1>2, <1>4, <3>1
  <2> QED
    BY <2>1, <2>2
<1>9. Append(mem.snapshot, n) \in Snapshots /\ Shown(Append(mem.snapshot, n), exposed, n)
  BY <1>2, <1>3, <1>4, <1>8, ShownAppend
<1>10. /\ Appended(disk.journal, f) = Journal(b, t) /\ Journal(b, t) \in Journals
       /\ TornAppends(disk.journal) = {Journal(b, r), Journal(b, Append(r, TornFrame))}
       /\ Journal(b, t).base = b /\ Journal(b, t).frames = t /\ WholeJournal(Journal(b, t))
  <2>1. Appended(disk.journal, f) = Journal(b, t)
    BY <1>3, <1>6, AppendedJournal
  <2>2. TornAppends(disk.journal) = {Journal(b, r), Journal(b, Append(r, TornFrame))}
    BY <1>3, AppendedJournal
  <2>3. Journal(b, t) \in Journals /\ Journal(b, t).base = b /\ Journal(b, t).frames = t /\ WholeJournal(Journal(b, t))
    BY CleanReads
  <2> QED
    BY <2>1, <2>2, <2>3
<1>11. PICK next : next = [disk EXCEPT !.journal = Journal(b, t)]
  OBVIOUS
<1>12. next \in Files /\ next.state = disk.state /\ next.prepared = disk.prepared /\ next.journal = Journal(b, t)
  BY <1>2, <1>10, <1>11, JournalChanged
<1>13. Fine(next, exposed, n)
  <2>1. Solid(Journal(b, t), disk.state, exposed, n)
    BY <1>3, <1>7, <1>9, SolidBy
  <2> QED
    BY <1>12, <2>1, SolidFine
<1>14. PICK images : images = {[disk EXCEPT !.journal = j] : j \in TornAppends(disk.journal)}
  OBVIOUS
<1>15. ASSUME NEW x \in images PROVE x \in Files /\ Fine(x, exposed, n)
  <2>1. PICK j \in TornAppends(disk.journal) : x = [disk EXCEPT !.journal = j]
    BY <1>14
  <2>2. Solid(j, disk.state, exposed, n) /\ j \in Journals
    BY <1>3, <1>8, <1>10, <2>1, SolidBy
  <2>3. x \in Files /\ x.state = disk.state /\ x.journal = j
    BY <1>2, <2>1, <2>2, JournalChanged
  <2> QED
    BY <2>2, <2>3, SolidFine
<1>16. Changed(next, images) /\ submitted' = n /\ exposed' = exposed
  BY <1>1, <1>4, <1>5, <1>10, <1>11, <1>14
<1>17. disk' = next
  BY <1>16 DEF Changed
<1>18. disk' \in Files /\ survivors' \subseteq Files /\ ImagesInv'
  BY <1>2, <1>4, <1>12, <1>13, <1>15, <1>16, ImagesGrow
<1>19. Backed(r)'
  BY <1>1, <1>3, <1>10, <1>12, <1>17 DEF Backed
<1>20. ServeInv'
  <2>1. exposed = mem.snapshot
    BY <1>1 DEF Inv, ServeInv, Serving
  <2>2. ~CheckpointLocked'
    BY <1>1 DEF CheckpointLocked
  <2>3. (disk.journal = Journal(disk.journal.base, Append(r, CommandRecord(mem.chain, submitted))))'
    BY <1>1, <1>5, <1>6, <1>10, <1>12, <1>16, <1>17
  <2>4. WholeJournal(disk.journal)'
    BY <1>10, <1>12, <1>17
  <2> QED
    BY <1>1, <1>8, <1>16, <1>19, <2>1, <2>2, <2>3, <2>4 DEF ServeInv
<1>21. CaptureInv'
  <2>1. SUFFICES ASSUME cpc \in Preparing PROVE CaptureInv'
    BY <1>1 DEF CaptureInv
  <2>2. CaptureInv /\ capture' = capture /\ mem' = mem
    BY <1>1 DEF Inv
  <2>3. PICK q \in 1..Len(r) : q = capture.offset - b /\ capture.chain = r[q].resulting
    BY <1>1, <1>3, <2>1, <2>2 DEF CaptureInv
  <2>4. q \in 1..Len(t) /\ t[q] = r[q]
    BY <1>3, <1>6
  <2>5. disk'.journal.base = b /\ disk'.journal.frames = t
    BY <1>10, <1>12, <1>17
  <2> QED
    BY <1>1, <2>1, <2>2, <2>3, <2>4, <2>5 DEF CaptureInv
<1>22. LoadInv' /\ AnchorInv'
  BY <1>1, ServeRest DEF Serving
<1>23. PoisonInv' /\ LockedInv'
  BY <1>1 DEF PoisonInv, LockedInv, CheckpointLocked
<1>24. ThreadInv'
  BY <1>1, <1>12, <1>17 DEF Inv, ThreadInv, Serving, Loading, Anchoring
<1>25. TypeInv'
  BY <1>1, <1>2, <1>4, <1>16, <1>18 DEF TypeInv, Serving
<1> QED
  BY <1>18, <1>20, <1>21, <1>22, <1>23, <1>24, <1>25 DEF Inv

LEMMA LatchedFacts ==
  ASSUME NEW m \in Memories
  PROVE  Latched(m) \in Memories /\ Latched(m).poisoned = TRUE /\ Latched(m).snapshot = m.snapshot
BY DEF Latched, Memories

LEMMA CommitTornStep ==
  ASSUME Inv, CommitTorn
  PROVE  Inv'
<1>1. /\ apc = "serving" /\ ~CheckpointLocked /\ ~mem.poisoned /\ submitted' = submitted + 1 /\ faults' = faults + 1
      /\ Changed([disk EXCEPT !.journal = Appended(disk.journal, TornFrame)], {})
      /\ unsynced' = TRUE /\ mem' = Latched(mem)
      /\ UNCHANGED <<apc, cpc, capture, exposed, opens>>
  BY DEF CommitTorn, CommitReady
<1>2. /\ disk \in Files /\ submitted \in Nat /\ faults \in Nat /\ exposed \in Snapshots /\ mem \in Memories
      /\ TypeInv /\ ImagesInv
  BY DEF Inv, TypeInv
<1>3. PICK b \in Nat, r \in Seq(Records) :
           /\ disk.journal = Journal(b, r)
           /\ disk.state \in Snapshots /\ Chained(r, 1, disk.state) /\ Replays(r, 1, disk.state, mem.snapshot)
           /\ mem.snapshot \in Snapshots /\ Shown(mem.snapshot, exposed, submitted)
  BY <1>1, ServingHolds
<1>4. PICK n \in Nat : n = submitted + 1 /\ submitted <= n
  BY <1>2
<1>5. Shown(mem.snapshot, exposed, n)
  BY <1>2, <1>3, <1>4, ShownMore
<1>6. Solid(Journal(b, r), disk.state, exposed, n) /\ Solid(Journal(b, Append(r, TornFrame)), disk.state, exposed, n)
      /\ Journal(b, Append(r, TornFrame)) \in Journals
  BY <1>3, <1>5, SolidBy
<1>7. Appended(disk.journal, TornFrame) = Journal(b, Append(r, TornFrame))
  <2>1. TornFrame \in Records \cup {TornFrame}
    OBVIOUS
  <2>2. Appended(Journal(b, r), TornFrame) = Journal(b, Append(r, TornFrame))
    BY <2>1, AppendedJournal
  <2> QED
    BY <1>3, <2>2
<1>8. PICK next : next = [disk EXCEPT !.journal = Journal(b, Append(r, TornFrame))]
  OBVIOUS
<1>9. next \in Files /\ next.state = disk.state /\ next.prepared = disk.prepared
      /\ next.journal = Journal(b, Append(r, TornFrame))
  BY <1>2, <1>6, <1>8, JournalChanged
<1>10. Fine(next, exposed, n)
  BY <1>6, <1>9, SolidFine
<1>11. Changed(next, {}) /\ submitted' = n /\ exposed' = exposed
  BY <1>1, <1>4, <1>7, <1>8
<1>12. disk' = next
  BY <1>11 DEF Changed
<1>13. disk' \in Files /\ survivors' \subseteq Files /\ ImagesInv'
  BY <1>2, <1>4, <1>9, <1>10, <1>11, ImagesGrow
<1>14. mem' \in Memories /\ mem'.poisoned = TRUE /\ mem'.snapshot = mem.snapshot
  BY <1>1, <1>2, LatchedFacts
<1>15. PoisonInv'
  <2>1. ASSUME NEW j \in (JournalImages \cup {disk.journal})' PROVE Solid(j, disk.state, exposed, n)
    <3>1. PICK w : w = Journal(b, Append(r, TornFrame))
      OBVIOUS
    <3>2. [w EXCEPT !.frames = Front(w.frames)] = Journal(b, r)
      BY <3>1, TailImages
    <3>3. Journal(b, r).frames = r
      BY FramesReplaced
    <3>4. [Journal(b, r) EXCEPT !.frames = Append(r, TornFrame)] = Journal(b, Append(r, TornFrame))
      BY FrameAdded
    <3>5. disk'.journal = w
      BY <1>9, <1>12, <3>1
    <3>6. j \in {Journal(b, r), Journal(b, Append(r, TornFrame))}
      BY <2>1, <3>1, <3>2, <3>3, <3>4, <3>5 DEF JournalImages
    <3> QED
      BY <1>6, <3>6
  <2> QED
    BY <1>9, <1>11, <1>12, <2>1 DEF PoisonInv
<1>16. ServeInv'
  <2>1. exposed = mem.snapshot
    BY <1>1 DEF Inv, ServeInv, Serving
  <2> QED
    BY <1>1, <1>5, <1>11, <1>14, <2>1 DEF ServeInv, Serving
<1>17. LoadInv' /\ AnchorInv'
  BY <1>1, ServeRest DEF Serving
<1>18. CaptureInv' /\ LockedInv'
  BY <1>1, <1>14 DEF CaptureInv, LockedInv, CheckpointLocked
<1>19. ThreadInv'
  <2>1. faults' > 0
    BY <1>1, <1>2
  <2> QED
    BY <1>1, <1>9, <1>12, <1>14, <2>1 DEF Inv, ThreadInv, Serving, Loading, Anchoring
<1>20. TypeInv'
  <2>1. faults' \in Nat
    BY <1>1, <1>2
  <2> QED
    BY <1>1, <1>2, <1>11, <1>13, <1>14, <2>1 DEF TypeInv, Serving
<1> QED
  BY <1>13, <1>15, <1>16, <1>17, <1>18, <1>19, <1>20 DEF Inv

LEMMA CommitSyncFailsStep ==
  ASSUME Inv, CommitSyncFails
  PROVE  Inv'
<1>1. /\ apc = "commit_sync" /\ apc' = "serving" /\ faults' = faults + 1 /\ mem' = Latched(mem)
      /\ UNCHANGED <<disk, survivors, unsynced, cpc, capture, exposed, submitted, opens>>
  BY DEF CommitSyncFails
<1>2. /\ disk \in Files /\ submitted \in Nat /\ faults \in Nat /\ mem \in Memories
      /\ TypeInv /\ ImagesInv /\ ~mem.poisoned /\ ~CheckpointLocked
  BY <1>1 DEF Inv, TypeInv, ServeInv
<1>3. disk' \in Files /\ survivors' \subseteq Files /\ ImagesInv'
  BY <1>1, <1>2, ImagesKept
<1>4. mem' \in Memories /\ mem'.poisoned = TRUE /\ mem'.snapshot = mem.snapshot
  BY <1>1, <1>2, LatchedFacts
<1>5. PoisonInv'
  <2>1. JournalImages' = JournalImages
    BY <1>1, JournalImagesKept DEF Serving
  <2>2. \A j \in JournalImages \cup {disk.journal} : Solid(j, disk.state, exposed, submitted)
    BY <1>1, <1>2, SolidNow DEF Serving
  <2> QED
    BY <1>1, <2>1, <2>2 DEF PoisonInv
<1>6. ServeInv'
  BY <1>1, <1>4 DEF Inv, ServeInv, Serving
<1>7. LoadInv' /\ AnchorInv'
  BY <1>1, ServeRest DEF Serving
<1>8. CaptureInv' /\ LockedInv'
  BY <1>1, <1>2, <1>4 DEF CaptureInv, LockedInv, CheckpointLocked
<1>9. ThreadInv'
  <2>1. faults' > 0
    BY <1>1, <1>2
  <2> QED
    BY <1>1, <1>4, <2>1 DEF Inv, ThreadInv, Serving, Loading, Anchoring
<1>10. TypeInv'
  <2>1. faults' \in Nat
    BY <1>1, <1>2
  <2> QED
    BY <1>1, <1>2, <1>3, <1>4, <2>1 DEF TypeInv, Serving
<1> QED
  BY <1>3, <1>5, <1>6, <1>7, <1>8, <1>9, <1>10 DEF Inv

LEMMA CommitSyncedStep ==
  ASSUME Inv, CommitSynced
  PROVE  Inv'
<1>1. /\ apc = "commit_sync" /\ apc' = "serving"
      /\ Synced(disk, {disk.journal}, PreparedImages)
      /\ unsynced' = FALSE
      /\ mem' = [mem EXCEPT !.snapshot = Append(mem.snapshot, submitted), !.chain = ChainDigest(mem.chain, submitted),
                            !.clean = mem.clean + 1, !.since = mem.since + 1, !.due = TRUE]
      /\ exposed' = mem'.snapshot
      /\ UNCHANGED <<cpc, capture, submitted, opens, faults>>
  BY DEF CommitSynced
<1>2. /\ disk \in Files /\ submitted \in Nat /\ faults \in Nat /\ mem \in Memories
      /\ TypeInv /\ ~mem.poisoned /\ ~CheckpointLocked
  BY <1>1 DEF Inv, TypeInv, ServeInv
<1>3. PICK b \in Nat, r \in Seq(Records), t \in Seq(Records) :
           /\ Len(r) \in Nat /\ Len(r) \in 1..Len(r) /\ Len(t) = Len(r) + 1
           /\ t[Len(t)].resulting = ChainDigest(mem.chain, submitted) /\ mem.chain \in Digests
           /\ \A i \in 1..Len(r) : t[i] = r[i]
           /\ disk.journal = Journal(b, t) /\ disk.journal.base = b /\ disk.journal.frames = t
           /\ WholeJournal(disk.journal)
           /\ mem.clean = b + Len(r) /\ mem.since = Len(r) - 1
           /\ disk.state \in Snapshots
           /\ Chained(t, 1, disk.state) /\ Replays(t, 1, disk.state, Append(mem.snapshot, submitted))
           /\ mem.snapshot \in Snapshots /\ Append(mem.snapshot, submitted) \in Snapshots
           /\ Shown(Append(mem.snapshot, submitted), Append(mem.snapshot, submitted), submitted)
  BY <1>1, CommitHolds
<1>4. PICK s \in Snapshots : s = Append(mem.snapshot, submitted)
  BY <1>3
<1>5. ChainDigest(mem.chain, submitted) \in Digests
  BY <1>2, <1>3, DigestFacts
<1>6. /\ mem' \in Memories /\ mem'.snapshot = s /\ mem'.chain = ChainDigest(mem.chain, submitted)
      /\ mem'.clean = mem.clean + 1 /\ mem'.since = mem.since + 1 /\ mem'.poisoned = mem.poisoned
      /\ mem'.generation = mem.generation
  <2>1. mem.clean + 1 \in Nat /\ mem.since + 1 \in Nat
    BY <1>2 DEF Memories
  <2> QED
    BY <1>1, <1>2, <1>4, <1>5, <2>1 DEF Memories
<1>7. Solid(disk.journal, disk.state, s, submitted) /\ disk.journal \in Journals
  BY <1>3, <1>4, SolidBy
<1>8. disk' \in Files /\ survivors' \subseteq Files /\ ImagesInv' /\ disk' = disk
  <2>1. Fine(disk, s, submitted)
    BY <1>7, SolidFine
  <2>2. PreparedImages \subseteq Snapshots \cup {Absent, Partial}
    BY <1>2 DEF PreparedImages, CheckpointSnapshot, Files, TypeInv, Captures, Preparing
  <2>3. ASSUME NEW j \in {disk.journal}, NEW p \in PreparedImages
        PROVE  Fine([disk EXCEPT !.journal = j, !.prepared = p], s, submitted)
    <3>1. PICK x : x = [disk EXCEPT !.journal = j, !.prepared = p]
      OBVIOUS
    <3>2. x.journal = disk.journal /\ x.state = disk.state
      BY <1>2, <3>1 DEF Files
    <3> QED
      BY <1>7, <3>1, <3>2, SolidFine
  <2>4. {disk.journal} \subseteq Journals
    BY <1>7
  <2>5. disk' = disk /\ exposed' = s /\ submitted' = submitted
    BY <1>1, <1>6 DEF Synced
  <2>6. PICK J, P : J = {disk.journal} /\ P = PreparedImages
    OBVIOUS
  <2>7. /\ Synced(disk, J, P) /\ J \subseteq Journals /\ P \subseteq Snapshots \cup {Absent, Partial}
        /\ Fine(disk, exposed', submitted')
        /\ \A j \in J, p \in P : Fine([disk EXCEPT !.journal = j, !.prepared = p], exposed', submitted')
    BY <1>1, <2>1, <2>2, <2>3, <2>4, <2>5, <2>6
  <2>8. disk' \in Files /\ survivors' \subseteq Files /\ ImagesInv'
    BY <1>2, <2>7, ImagesReset
  <2> QED
    BY <2>5, <2>8
<1>9. Backed(disk.journal.frames)'
  <2>1. mem'.clean = b + Len(t) /\ mem'.since = Len(t) - 1
    BY <1>3, <1>6
  <2> QED
    BY <1>3, <1>4, <1>6, <1>8, <2>1 DEF Backed
<1>10. ServeInv'
  BY <1>1, <1>3, <1>4, <1>6, <1>8, <1>9 DEF ServeInv
<1>11. CaptureInv'
  <2>1. SUFFICES ASSUME cpc \in Preparing PROVE CaptureInv'
    BY <1>1 DEF CaptureInv
  <2>2. /\ capture.generation = mem.generation /\ capture.offset <= mem.clean
        /\ capture.offset - disk.journal.base \in 1..Len(disk.journal.frames)
        /\ capture.chain = disk.journal.frames[capture.offset - disk.journal.base].resulting
        /\ Len(mem.snapshot) - Len(capture.snapshot) = mem.clean - capture.offset
        /\ \A i \in 1..Len(capture.snapshot) : capture.snapshot[i] = mem.snapshot[i]
    BY <1>2, <2>1 DEF Inv, CaptureInv
  <2>3. capture.offset \in Nat /\ capture.snapshot \in Snapshots /\ mem.clean \in Nat
    BY <1>2, <2>1 DEF TypeInv, Captures, Memories
  <2>4. Len(capture.snapshot) \in Nat /\ Len(mem.snapshot) \in Nat
    BY <1>3, <2>3, SnapshotFacts
  <2>5. Len(s) = Len(mem.snapshot) + 1 /\ \A i \in 1..Len(mem.snapshot) : s[i] = mem.snapshot[i]
    BY <1>2, <1>3, <1>4, AppendProperties DEF Snapshots
  <2>6. Len(s) - Len(capture.snapshot) = mem'.clean - capture.offset /\ capture.offset <= mem'.clean
    <3>1. PICK a \in Nat, c \in Nat, m \in Nat, o \in Nat :
            a = Len(mem.snapshot) /\ c = Len(capture.snapshot) /\ m = mem.clean /\ o = capture.offset
      BY <2>3, <2>4
    <3>2. a - c = m - o /\ o <= m
      BY <2>2, <3>1
    <3>3. PICK u \in Nat, v \in Nat : u = a + 1 /\ v = m + 1
      OBVIOUS
    <3>4. u - c = v - o /\ o <= v
      BY <3>2, <3>3
    <3>5. Len(s) = u /\ mem'.clean = v
      BY <1>6, <2>5, <3>1, <3>3
    <3> QED
      BY <3>1, <3>4, <3>5, Zenon
  <2>7. ASSUME NEW i \in 1..Len(capture.snapshot) PROVE capture.snapshot[i] = s[i]
    <3>1. i \in 1..Len(mem.snapshot)
      <4>1. PICK a \in Nat, c \in Nat, m \in Nat, o \in Nat :
              a = Len(mem.snapshot) /\ c = Len(capture.snapshot) /\ m = mem.clean /\ o = capture.offset
        BY <2>3, <2>4
      <4>2. a - c = m - o /\ o <= m /\ i \in 1..c
        BY <2>2, <4>1
      <4>3. i \in 1..a
        BY <4>2
      <4> QED
        BY <4>1, <4>3
    <3> QED
      BY <2>2, <2>5, <3>1
  <2> QED
    BY <1>1, <1>6, <1>8, <2>2, <2>6, <2>7 DEF CaptureInv
<1>12. LoadInv' /\ AnchorInv'
  BY <1>1, ServeRest DEF Serving
<1>13. PoisonInv' /\ LockedInv'
  BY <1>1, <1>2, <1>6 DEF PoisonInv, LockedInv, CheckpointLocked
<1>14. ThreadInv'
  BY <1>1, <1>2, <1>6, <1>8 DEF Inv, ThreadInv, Serving, Loading, Anchoring
<1>15. TypeInv'
  BY <1>1, <1>2, <1>6, <1>8 DEF TypeInv, Serving
<1> QED
  BY <1>8, <1>10, <1>11, <1>12, <1>13, <1>14, <1>15 DEF Inv

-----------------------------------------------------------------------------
(***************************************************************************)
(* The checkpoint thread preserves the invariant.                          *)
(***************************************************************************)

\* The authority does not notice what happens to the prepared snapshot.
LEMMA ServeKeeps ==
  ASSUME ServeInv, UNCHANGED <<apc, mem, exposed, submitted, unsynced>>,
         disk'.journal = disk.journal, disk'.state = disk.state, CheckpointLocked' = CheckpointLocked
  PROVE  ServeInv'
<1>1. \A r : Backed(r)' <=> Backed(r)
  BY DEF Backed
<1> QED
  BY <1>1 DEF ServeInv

\* While a checkpoint is prepared, power may be lost.
LEMMA SolidPreparing ==
  ASSUME Inv, cpc \in Preparing, NEW j \in JournalImages \cup {disk.journal}
  PROVE  Solid(j, disk.state, exposed, submitted) /\ j \in Journals
<1>1. apc \in Serving /\ ~CheckpointLocked
  BY DEF Inv, ThreadInv, Preparing, CheckpointLocked
<1>2. CASE mem.poisoned
  BY <1>2 DEF Inv, PoisonInv, Solid
<1>3. CASE ~mem.poisoned
  BY <1>1, <1>3, SolidNow
<1> QED
  BY <1>2, <1>3

LEMMA CaptureStep ==
  ASSUME Inv, Capture
  PROVE  Inv'
<1>1. /\ cpc = "idle" /\ apc = "serving" /\ ~mem.poisoned /\ cpc' = "prepare"
      /\ capture' = [generation |-> mem.generation, offset |-> mem.clean, chain |-> mem.chain,
                     snapshot |-> mem.snapshot]
      /\ UNCHANGED <<disk, survivors, unsynced, apc, mem, exposed, submitted, opens, faults>>
  BY DEF Capture
<1>2. TypeInv /\ ImagesInv /\ ServeInv /\ mem \in Memories
  BY DEF Inv, TypeInv
<1>3. CheckpointLocked = FALSE /\ CheckpointLocked' = FALSE
  BY <1>1 DEF CheckpointLocked
<1>4. PICK b \in Nat, r \in Seq(Records) :
           /\ disk.journal.base = b /\ disk.journal.frames = r
           /\ Len(r) \in Nat /\ Len(r) \in 1..Len(r)
           /\ Backed(r) /\ mem.chain \in Digests /\ mem.clean = b + Len(r)
  BY <1>1, <1>3, ServingHolds
<1>5. disk' \in Files /\ survivors' \subseteq Files /\ ImagesInv'
  BY <1>1, <1>2, ImagesKept
<1>6. /\ capture' \in Captures /\ capture'.generation = mem.generation /\ capture'.offset = mem.clean
      /\ capture'.chain = mem.chain /\ capture'.snapshot = mem.snapshot
  BY <1>1, <1>2, <1>4 DEF Captures, Memories
<1>7. CaptureInv'
  <2>1. PICK n \in Nat, m \in Nat : n = Len(r) /\ m = mem.clean
    BY <1>2, <1>4 DEF Memories
  <2>2. m = b + n /\ n \in 1..n
    BY <1>4, <2>1
  <2>3. m <= m /\ m - b = n
    BY <2>2
  <2>4. mem.chain = r[n].resulting
    BY <1>4, <2>1 DEF Backed
  <2>5. PICK a \in Nat : a = Len(mem.snapshot)
    BY <1>2, SnapshotFacts DEF Memories
  <2>6. a - a = m - m
    BY <2>5
  <2> QED
    BY <1>1, <1>4, <1>6, <2>1, <2>2, <2>3, <2>4, <2>5, <2>6 DEF CaptureInv
<1>8. ServeInv'
  BY <1>1, <1>2, <1>3, ServeKeeps
<1>9. LoadInv' /\ AnchorInv'
  BY <1>1, ServeRest DEF Serving
<1>10. PoisonInv' /\ LockedInv' /\ ThreadInv'
  BY <1>1, <1>3 DEF PoisonInv, LockedInv, Inv, ThreadInv, Serving, Loading, Anchoring
<1>11. TypeInv'
  BY <1>1, <1>2, <1>5, <1>6 DEF TypeInv, Preparing
<1> QED
  BY <1>5, <1>7, <1>8, <1>9, <1>10, <1>11 DEF Inv

\* A healthy authority's capture is valid, whatever was committed since.
LEMMA CaptureStaysValid ==
  ASSUME Inv, cpc \in Preparing, ~mem.poisoned
  PROVE  CaptureValid
<1>1. /\ capture.generation = mem.generation /\ capture.offset <= mem.clean
      /\ capture.offset - disk.journal.base \in 1..Len(disk.journal.frames)
  BY DEF Inv, CaptureInv
<1>2. capture.offset \in Nat
  BY DEF Inv, TypeInv, Captures
<1>3. disk.journal \in Journals
  BY SolidPreparing
<1>4. PICK b \in Nat, n \in Nat, o \in Nat : b = disk.journal.base /\ n = Len(disk.journal.frames) /\ o = capture.offset
  BY <1>2, <1>3, LenProperties DEF Journals
<1>5. o - b \in 1..n
  BY <1>1, <1>4
<1>6. o \in b..(b + n)
  BY <1>5
<1> QED
  BY <1>1, <1>4, <1>6 DEF CaptureValid

\* The checkpoint is given up.
LEMMA GiveUpKeeps ==
  ASSUME Inv, cpc # "idle", cpc' = "failed", mem' \in Memories, mem'.poisoned = TRUE, mem'.snapshot = mem.snapshot,
         apc = "serving", UNCHANGED <<unsynced, apc, capture, exposed, submitted, opens>>,
         faults' \in Nat, faults' > 0,
         disk' \in Files, survivors' \subseteq Files, ImagesInv'
  PROVE  Inv'
<1>1. LoadInv' /\ AnchorInv'
  BY ServeRest DEF Serving
<1>2. ServeInv'
  BY DEF Inv, ServeInv, Serving
<1>3. PoisonInv' /\ CaptureInv' /\ LockedInv'
  BY DEF PoisonInv, CaptureInv, LockedInv, Preparing, CheckpointLocked
<1>4. ThreadInv'
  BY DEF ThreadInv, Serving, Loading, Anchoring
<1>5. TypeInv'
  BY DEF Inv, TypeInv, Preparing, Locked
<1> QED
  BY <1>1, <1>2, <1>3, <1>4, <1>5 DEF Inv

LEMMA PrepareStep ==
  ASSUME Inv, Prepare
  PROVE  Inv'
<1>1. /\ cpc = "prepare" /\ apc # "commit_sync"
      /\ UNCHANGED <<unsynced, apc, capture, exposed, submitted, opens, faults>>
  BY DEF Prepare
<1>2. TypeInv /\ ImagesInv /\ ServeInv /\ CaptureInv /\ ThreadInv /\ disk \in Files /\ submitted \in Nat /\ faults \in Nat
      /\ mem \in Memories /\ capture \in Captures
  BY <1>1 DEF Inv, TypeInv, Preparing
<1>3. apc = "serving" /\ cpc \in Preparing
  BY <1>1 DEF Inv, ThreadInv, Serving, Preparing
<1>4. CASE ~CaptureValid
  <2>1. mem.poisoned = TRUE
    BY <1>2, <1>3, <1>4, CaptureStaysValid DEF Memories
  <2>2. cpc' = "failed" /\ mem' = mem /\ disk' = disk /\ survivors' = survivors
    BY <1>4 DEF Prepare, GiveUp
  <2>3. disk' \in Files /\ survivors' \subseteq Files /\ ImagesInv'
    BY <1>1, <1>2, <2>2, ImagesKept
  <2>4. faults' > 0 /\ faults' \in Nat
    BY <1>1, <1>2, <2>1 DEF ThreadInv
  <2> QED
    BY <1>1, <1>2, <1>3, <2>1, <2>2, <2>3, <2>4, GiveUpKeeps
<1>5. CASE CaptureValid
  <2>1. /\ cpc' = "prepare_sync" /\ mem' = mem
        /\ Changed([disk EXCEPT !.prepared = Partial], {[disk EXCEPT !.prepared = capture.snapshot]})
    BY <1>5 DEF Prepare, CheckpointSnapshot
  <2>2. mem.poisoned = FALSE /\ capture.snapshot \in Snapshots
    BY <1>2, <1>5 DEF CaptureValid, Memories, Captures
  <2>3. PICK next : next = [disk EXCEPT !.prepared = Partial]
    OBVIOUS
  <2>4. PICK full : full = [disk EXCEPT !.prepared = capture.snapshot]
    OBVIOUS
  <2>5. next \in Files /\ next.state = disk.state /\ next.journal = disk.journal
    <3>1. Partial \in Snapshots \cup {Absent, Partial}
      OBVIOUS
    <3> QED
      BY <1>2, <2>3, <3>1, PreparedChanged
  <2>6. full \in Files /\ full.state = disk.state /\ full.journal = disk.journal
    BY <1>2, <2>2, <2>4, PreparedChanged
  <2>7. Solid(disk.journal, disk.state, exposed, submitted)
    BY <1>3, SolidPreparing
  <2>8. Fine(next, exposed, submitted) /\ Fine(full, exposed, submitted)
    BY <2>5, <2>6, <2>7, SolidFine
  <2>9. Changed(next, {full}) /\ submitted' = submitted /\ submitted <= submitted' /\ exposed' = exposed
    BY <1>1, <1>2, <2>1, <2>3, <2>4
  <2>10. disk' = next
    BY <2>9 DEF Changed
  <2>11. disk' \in Files /\ survivors' \subseteq Files /\ ImagesInv'
    BY <1>2, <2>5, <2>6, <2>8, <2>9, ImagesGrow
  <2>12. CheckpointLocked = FALSE /\ CheckpointLocked' = FALSE
    BY <1>1, <2>1 DEF CheckpointLocked
  <2>13. ServeInv'
    BY <1>1, <1>2, <2>1, <2>5, <2>10, <2>12, ServeKeeps
  <2>14. CaptureInv'
    BY <1>1, <1>2, <1>3, <2>1, <2>2, <2>5, <2>10 DEF CaptureInv
  <2>15. LoadInv' /\ AnchorInv'
    BY <1>1, <1>3, ServeRest DEF Serving
  <2>16. PoisonInv' /\ LockedInv' /\ ThreadInv'
    BY <1>1, <1>2, <1>3, <2>1, <2>2, <2>12 DEF PoisonInv, LockedInv, ThreadInv, Serving, Loading, Anchoring
  <2>17. TypeInv'
    BY <1>1, <1>2, <2>1, <2>11 DEF TypeInv, Preparing
  <2> QED
    BY <2>11, <2>13, <2>14, <2>15, <2>16, <2>17 DEF Inv
<1> QED
  BY <1>4, <1>5

LEMMA PrepareSyncedStep ==
  ASSUME Inv, PrepareSynced
  PROVE  Inv'
<1>1. /\ cpc = "prepare_sync" /\ cpc' = "replace"
      /\ UNCHANGED <<unsynced, apc, mem, capture, exposed, submitted, opens, faults>>
  BY DEF PrepareSynced
<1>2. TypeInv /\ ServeInv /\ CaptureInv /\ ThreadInv /\ disk \in Files /\ submitted \in Nat
      /\ mem \in Memories /\ capture \in Captures /\ capture.snapshot \in Snapshots
  BY <1>1 DEF Inv, TypeInv, Preparing, Captures
<1>3. apc \in Serving /\ cpc \in Preparing
  BY <1>1 DEF Inv, ThreadInv, Preparing
<1>4. PICK next : next = [disk EXCEPT !.prepared = capture.snapshot]
  OBVIOUS
<1>5. next \in Files /\ next.state = disk.state /\ next.prepared = capture.snapshot /\ next.journal = disk.journal
  BY <1>2, <1>4, PreparedChanged
<1>6. PICK J, P : J = JournalImages /\ P = {next.prepared}
  OBVIOUS
<1>7. Synced(next, J, P)
  BY <1>4, <1>6 DEF PrepareSynced, CheckpointSnapshot
<1>8. \A j \in J \cup {disk.journal} : Solid(j, disk.state, exposed, submitted) /\ j \in Journals
  BY <1>3, <1>6, SolidPreparing
<1>9. J \subseteq Journals /\ P \subseteq Snapshots \cup {Absent, Partial}
  BY <1>2, <1>5, <1>6, <1>8
<1>10. Fine(next, exposed', submitted')
  BY <1>1, <1>5, <1>8, SolidFine
<1>11. ASSUME NEW j \in J, NEW p \in P
       PROVE  Fine([next EXCEPT !.journal = j, !.prepared = p], exposed', submitted')
  <2>1. PICK x : x = [next EXCEPT !.journal = j, !.prepared = p]
    OBVIOUS
  <2>2. x.journal = j /\ x.state = disk.state
    BY <1>5, <2>1 DEF Files
  <2>3. Solid(j, disk.state, exposed, submitted)
    BY <1>8
  <2>4. Fine(x, exposed, submitted)
    BY <2>2, <2>3, SolidFine
  <2> QED
    BY <1>1, <2>1, <2>4
<1>12. disk' \in Files /\ survivors' \subseteq Files /\ ImagesInv'
  BY <1>5, <1>7, <1>9, <1>10, <1>11, ImagesReset
<1>13. disk' = next
  BY <1>7 DEF Synced
<1>14. CheckpointLocked = FALSE /\ CheckpointLocked' = FALSE
  BY <1>1 DEF CheckpointLocked
<1>15. ServeInv'
  BY <1>1, <1>2, <1>5, <1>13, <1>14, ServeKeeps
<1>16. CaptureInv'
  BY <1>1, <1>2, <1>3, <1>5, <1>13 DEF CaptureInv
<1>17. PoisonInv'
  <2>1. JournalImages' = JournalImages
    BY <1>1, <1>3, <1>5, <1>13, JournalImagesKept
  <2> QED
    BY <1>1, <1>5, <1>6, <1>8, <1>13, <2>1 DEF PoisonInv
<1>18. LoadInv' /\ AnchorInv'
  BY <1>1, <1>3, ServeRest
<1>19. LockedInv' /\ ThreadInv'
  BY <1>1, <1>2, <1>3, <1>5, <1>13, <1>14 DEF LockedInv, ThreadInv, Serving, Loading, Anchoring
<1>20. TypeInv'
  BY <1>1, <1>2, <1>12 DEF TypeInv, Preparing
<1> QED
  BY <1>12, <1>15, <1>16, <1>17, <1>18, <1>19, <1>20 DEF Inv

\* The digest after the first n of the commands c on the anchor of snapshot T.
After(T, c, n) == [SnapshotDigest(T) EXCEPT !.commands = SubSeq(c, 1, n)]

LEMMA ChainOf ==
  ASSUME NEW T \in Snapshots, NEW c \in Seq(Nat), NEW i \in 0..Len(c)
  PROVE  /\ After(T, c, i) \in Digests
         /\ i = 0 => After(T, c, i) = SnapshotDigest(T)
         /\ i > 0 => After(T, c, i) = ChainDigest(After(T, c, i - 1), c[i])
<1> DEFINE after(n) == [SnapshotDigest(T) EXCEPT !.commands = SubSeq(c, 1, n)]
<1>1. Len(c) \in Nat /\ \A n \in 1..Len(c) : c[n] \in Nat
  BY LenProperties, ElementOfSeq
<1>2. ASSUME NEW n \in 0..Len(c)
      PROVE  /\ SubSeq(c, 1, n) \in Seq(Nat) /\ Len(SubSeq(c, 1, n)) = n
             /\ \A m \in 1..n : SubSeq(c, 1, n)[m] = c[m]
  <2>1. n \in Int /\ \A m \in 1..n : c[m] \in Nat
    BY <1>1
  <2>2. /\ SubSeq(c, 1, n) \in Seq(Nat)
        /\ Len(SubSeq(c, 1, n)) = IF 1 <= n THEN n - 1 + 1 ELSE 0
        /\ \A m \in 1..n - 1 + 1 : SubSeq(c, 1, n)[m] = c[1 + m - 1]
    BY <2>1, SubSeqProperties
  <2>3. Len(SubSeq(c, 1, n)) = n
    BY <1>1, <2>2
  <2>4. ASSUME NEW m \in 1..n PROVE SubSeq(c, 1, n)[m] = c[m]
    <3>1. m \in 1..n - 1 + 1 /\ 1 + m - 1 = m
      BY <2>1
    <3> QED
      BY <2>2, <3>1
  <2> QED
    BY <2>2, <2>3, <2>4
<1>3. ASSUME NEW u \in Seq(Nat)
      PROVE  /\ [SnapshotDigest(T) EXCEPT !.commands = u] = [base |-> T, commands |-> u]
             /\ [base |-> T, commands |-> u] \in Digests
  BY DEF SnapshotDigest, Digests
<1>4. after(i) \in Digests /\ after(i) = [base |-> T, commands |-> SubSeq(c, 1, i)]
  BY <1>2, <1>3
<1>5. i = 0 => after(i) = SnapshotDigest(T)
  <2>1. i = 0 => SubSeq(c, 1, i) = <<>>
    BY <1>2, EmptySeq
  <2> QED
    BY <1>4, <2>1 DEF SnapshotDigest
<1>6. i > 0 => after(i) = ChainDigest(after(i - 1), c[i])
  <2>1. SUFFICES ASSUME i > 0 PROVE after(i) = ChainDigest(after(i - 1), c[i])
    OBVIOUS
  <2>2. PICK h \in 0..Len(c) : h = i - 1 /\ h + 1 = i /\ i \in 1..Len(c)
    BY <1>1, <2>1
  <2>3. PICK v \in Seq(Nat) : v = SubSeq(c, 1, h) /\ Len(v) = h /\ \A m \in 1..h : v[m] = c[m]
    BY <1>2
  <2>4. PICK w \in Seq(Nat) : w = SubSeq(c, 1, i) /\ Len(w) = i /\ \A m \in 1..i : w[m] = c[m]
    BY <1>2
  <2>5. c[i] \in Nat
    BY <1>1, <2>2
  <2>6. Append(v, c[i]) = w
    <3>1. /\ Append(v, c[i]) \in Seq(Nat) /\ Len(Append(v, c[i])) = Len(v) + 1
          /\ \A m \in 1..Len(v) : Append(v, c[i])[m] = v[m]
          /\ Append(v, c[i])[Len(v) + 1] = c[i]
      BY <2>5, AppendProperties
    <3>2. Len(Append(v, c[i])) = Len(w)
      BY <2>2, <2>3, <2>4, <3>1
    <3>3. ASSUME NEW m \in 1..Len(w) PROVE Append(v, c[i])[m] = w[m]
      <4>1. m \in 1..i /\ (m \in 1..h \/ m = h + 1)
        BY <2>2, <2>4
      <4> QED
        BY <2>2, <2>3, <2>4, <3>1, <4>1
    <3> QED
      BY <3>1, <3>2, <3>3, SeqEqual
  <2>7. after(i - 1) = [base |-> T, commands |-> v] /\ after(i) = [base |-> T, commands |-> w]
    BY <1>3, <2>2, <2>3, <2>4
  <2>8. ChainDigest([base |-> T, commands |-> v], c[i]) = [base |-> T, commands |-> Append(v, c[i])]
    <3>1. PICK g : g = c[i]
      OBVIOUS
    <3>2. PICK x : x = Append(v, g)
      OBVIOUS
    <3>3. [[base |-> T, commands |-> v] EXCEPT !.commands = x] = [base |-> T, commands |-> x]
      OBVIOUS
    <3> QED
      BY <3>1, <3>2, <3>3 DEF ChainDigest
  <2> QED
    BY <2>6, <2>7, <2>8
<1> QED
  BY <1>4, <1>5, <1>6 DEF After

\* The new journal of a checkpoint: its anchor, and the commands since.
LEMMA RebasedChain ==
  ASSUME NEW c \in Seq(Nat), CheckpointSnapshot \in Snapshots, NEW dg \in Digests,
         NEW s \in Snapshots, Len(s) = Len(CheckpointSnapshot) + Len(c),
         \A i \in 1..Len(CheckpointSnapshot) : s[i] = CheckpointSnapshot[i],
         \A i \in 1..Len(c) : s[Len(CheckpointSnapshot) + i] = c[i]
  PROVE  LET t == <<Anchor(dg, CheckpointSnapshot)>> \o Rebased(c)
         IN t \in Seq(Records) /\ Chained(t, 1, CheckpointSnapshot) /\ Replays(t, 1, CheckpointSnapshot, s)
<1> DEFINE T == CheckpointSnapshot
           after(n) == After(T, c, n)
           R == Rebased(c)
           a == Anchor(dg, T)
           t == <<a>> \o R
<1>1. Len(c) \in Nat /\ DOMAIN c = 1..Len(c) /\ \A i \in 1..Len(c) : c[i] \in Nat
  BY LenProperties, ElementOfSeq
<1>2. R = [i \in DOMAIN c |-> CommandRecord(after(i - 1), c[i])]
  BY DEF Rebased, After
<1>3. \A i \in 0..Len(c) : after(i) \in Digests
  BY ChainOf
<1>4. after(0) = SnapshotDigest(T)
  <2>1. 0 \in 0..Len(c)
    BY <1>1
  <2> QED
    BY <2>1, ChainOf
<1>5. \A i \in 1..Len(c) : after(i) = ChainDigest(after(i - 1), c[i])
  <2>1. ASSUME NEW i \in 1..Len(c) PROVE after(i) = ChainDigest(after(i - 1), c[i])
    <3>1. i \in 0..Len(c) /\ i > 0
      BY <1>1
    <3> QED
      BY <3>1, ChainOf
  <2> HIDE DEF after
  <2> QED
    BY <2>1
<1> HIDE DEF after, R, a, T
<1>6. ASSUME NEW i \in 1..Len(c)
      PROVE  /\ R[i] \in Records /\ R[i].kind = "command" /\ R[i].previous = after(i - 1) /\ R[i].command = c[i]
             /\ R[i].resulting = after(i) /\ R[i].resulting = ChainDigest(R[i].previous, R[i].command)
  <2>1. i - 1 \in 0..Len(c) /\ c[i] \in Nat
    BY <1>1
  <2>2. after(i - 1) \in Digests
    BY <1>3, <2>1
  <2>3. R[i] = CommandRecord(after(i - 1), c[i])
    BY <1>1, <1>2
  <2>4. after(i) = ChainDigest(after(i - 1), c[i])
    BY <1>5
  <2>5. PICK x \in Digests : x = after(i - 1)
    BY <2>2
  <2>6. /\ CommandRecord(x, c[i]) \in Records /\ CommandRecord(x, c[i]).kind = "command"
        /\ CommandRecord(x, c[i]).previous = x /\ CommandRecord(x, c[i]).command = c[i]
        /\ CommandRecord(x, c[i]).resulting = ChainDigest(x, c[i])
    <3>2. PICK g \in Nat : g = c[i]
      BY <2>1
    <3>3. /\ CommandRecord(x, g) \in Records /\ CommandRecord(x, g).kind = "command"
          /\ CommandRecord(x, g).previous = x /\ CommandRecord(x, g).command = g
          /\ CommandRecord(x, g).resulting = ChainDigest(x, g)
      BY CommandFacts
    <3> QED
      BY <3>2, <3>3
  <2> QED
    BY <2>3, <2>4, <2>5, <2>6
<1>7. R \in Seq(Records) /\ Len(R) = Len(c)
  <2>1. R \in [1..Len(c) -> Records]
    BY <1>1, <1>2, <1>6
  <2>2. R \in Seq(Records)
    <3>1. PICK n \in Nat : n = Len(c)
      BY <1>1
    <3>2. R \in [1..n -> Records]
      BY <2>1, <3>1
    <3> QED
      BY <3>2, SeqDef
  <2>3. DOMAIN R = 1..Len(R) /\ Len(R) \in Nat
    BY <2>2, LenProperties
  <2> QED
    BY <1>1, <2>1, <2>2, <2>3
<1>8. a \in Records /\ a.kind = "anchor" /\ a.resulting = SnapshotDigest(T) /\ T \in Snapshots
  <2>1. T \in Snapshots
    BY DEF T
  <2>2. PICK y \in Nat : TRUE
    OBVIOUS
  <2> QED
    BY <2>1, <2>2, DigestFacts DEF a
<1>9. /\ <<a>> \in Seq(Records) /\ Len(<<a>>) = 1 /\ <<a>>[1] = a
  BY <1>8
<1>10. /\ t \in Seq(Records) /\ Len(t) = 1 + Len(c)
       /\ \A i \in 1..1 + Len(c) : t[i] = IF i <= 1 THEN <<a>>[i] ELSE R[i - 1]
  BY <1>7, <1>9, ConcatProperties
<1>11. t[1] = a /\ \A i \in 1..Len(c) : t[i + 1] = R[i]
  <2>1. 1 \in 1..1 + Len(c)
    BY <1>1
  <2>2. \A i \in 1..Len(c) : i + 1 \in 1..1 + Len(c) /\ ~(i + 1 <= 1) /\ i + 1 - 1 = i
    BY <1>1
  <2> QED
    BY <1>9, <1>10, <2>1, <2>2
<1>12. DOMAIN t = 1..1 + Len(c)
  BY <1>10, LenProperties
<1> HIDE DEF t
<1>13. Chained(t, 1, T)
  <2>1. ASSUME NEW i \in DOMAIN t, i > 1
        PROVE  /\ t[i].kind = "command" /\ t[i].previous = t[i - 1].resulting
               /\ t[i].resulting = ChainDigest(t[i].previous, t[i].command)
    <3>1. PICK h \in 1..Len(c) : h = i - 1 /\ h + 1 = i
      BY <1>1, <1>12, <2>1
    <3>2. t[i] = R[h]
      BY <1>11, <3>1
    <3>3. t[i - 1].resulting = after(h - 1)
      <4>1. CASE h = 1
        <5>1. i - 1 = 1 /\ h - 1 = 0
          BY <3>1, <4>1
        <5> QED
          BY <1>4, <1>8, <1>11, <5>1
      <4>2. CASE h # 1
        <5>1. PICK g \in 1..Len(c) : g = h - 1 /\ g + 1 = h
          BY <1>1, <4>2
        <5>2. t[i - 1] = R[g]
          BY <1>11, <3>1, <5>1
        <5> QED
          BY <1>6, <5>1, <5>2
      <4> QED
        BY <4>1, <4>2
    <3> QED
      BY <1>6, <3>2, <3>3
  <2>2. 1 \in DOMAIN t
    BY <1>1, <1>12
  <2> QED
    BY <1>8, <1>11, <2>1, <2>2 DEF Chained
<1>14. Replays(t, 1, T, s)
  <2>1. Len(T) \in Nat
    BY <1>8, SnapshotFacts
  <2>2. Len(s) = Len(T) + Len(c) /\ (\A i \in 1..Len(T) : s[i] = T[i]) /\ \A i \in 1..Len(c) : s[Len(T) + i] = c[i]
    BY DEF T
  <2>3. Len(s) = Len(T) + Len(t) - 1 /\ Len(t) - 1 = Len(c)
    <3>1. PICK m \in Nat, n \in Nat : m = Len(T) /\ n = Len(c)
      BY <1>1, <2>1
    <3>2. PICK u, v : u = Len(s) /\ v = Len(t)
      OBVIOUS
    <3>3. u = m + n /\ v = 1 + n
      BY <1>10, <2>2, <3>1, <3>2
    <3>4. u = m + v - 1 /\ v - 1 = n
      BY <3>3
    <3> QED
      BY <3>1, <3>2, <3>4, Zenon
  <2>4. ASSUME NEW i \in 1..Len(t) - 1 PROVE s[Len(T) + i] = t[1 + i].command
    <3>1. i \in 1..Len(c) /\ 1 + i = i + 1
      BY <1>1, <2>3
    <3> QED
      BY <1>6, <1>11, <2>2, <3>1, SMTT(30)
  <2> QED
    BY <2>2, <2>3, <2>4 DEF Replays
<1> QED
  BY <1>10, <1>13, <1>14 DEF t, a, R, T

\* The commands since a capture, which are what the memory has beyond it.
LEMMA SuffixHolds ==
  ASSUME Inv, cpc \in Preparing, apc = "serving", ~mem.poisoned
  PROVE  /\ SuffixValid
         /\ capture.chain \in Digests
         /\ LET c == CommandsOf(Suffix)
            IN /\ c \in Seq(Nat)
               /\ Len(mem.snapshot) = Len(capture.snapshot) + Len(c)
               /\ \A i \in 1..Len(c) : mem.snapshot[Len(capture.snapshot) + i] = c[i]
<1>1. ~CheckpointLocked
  BY DEF Preparing, CheckpointLocked
<1>2. PICK b \in Nat, r \in Seq(Records) :
           /\ disk.journal = Journal(b, r) /\ disk.journal.base = b /\ disk.journal.frames = r
           /\ Len(r) \in Nat /\ Len(r) \in 1..Len(r)
           /\ Backed(r) /\ mem.clean = b + Len(r)
           /\ disk.state \in Snapshots /\ Chained(r, 1, disk.state) /\ Replays(r, 1, disk.state, mem.snapshot)
           /\ mem.snapshot \in Snapshots
  BY <1>1, ServingHolds
<1>3. capture.offset \in Nat /\ capture.snapshot \in Snapshots /\ capture.chain \in Digests
  BY DEF Inv, TypeInv, Captures
<1>4. PICK n \in Nat, o \in Nat : n = Len(r) /\ o = capture.offset
  BY <1>2, <1>3
<1>5. PICK q \in 1..n : q = o - b /\ capture.chain = r[q].resulting
  <2>1. /\ capture.offset - disk.journal.base \in 1..Len(disk.journal.frames)
        /\ capture.chain = disk.journal.frames[capture.offset - disk.journal.base].resulting
    BY DEF Inv, CaptureInv
  <2> QED
    BY <1>2, <1>4, <2>1
<1>6. WholeFrames(disk.journal) = r /\ ~HasTornTail(disk.journal)
  <2>1. WholeFrames(Journal(b, r)) = r /\ ~HasTornTail(Journal(b, r))
    BY CleanReads
  <2> QED
    BY <1>2, <2>1
<1> DEFINE u == SubSeq(r, q + 1, n)
<1>7. Suffix = u
  <2>1. o - b + 1 = q + 1
    BY <1>5
  <2>2. Suffix = SubSeq(r, o - b + 1, n)
    BY <1>2, <1>4, <1>6 DEF Suffix, FramesFrom
  <2> QED
    BY <2>1, <2>2
<1>8. q \in 0..Len(r) /\ q \in 1..Len(r)
  BY <1>4, <1>5
<1>9. /\ u \in Seq(Records) /\ Len(u) = n - q /\ DOMAIN u = 1..n - q
      /\ \A i \in 1..n - q : u[i] = r[q + i]
      /\ u = <<>> <=> q = n
      /\ q < n => Last(u) = r[n]
  <2>1. PICK w : w = SubSeq(r, q + 1, Len(r))
    OBVIOUS
  <2>2. /\ w \in Seq(Records) /\ Len(w) = Len(r) - q /\ DOMAIN w = 1..Len(r) - q
        /\ \A i \in 1..Len(r) - q : w[i] = r[q + i]
        /\ w = <<>> <=> q = Len(r)
        /\ q < Len(r) => Last(w) = r[Len(r)]
    BY <1>8, <2>1, SuffixFacts
  <2>3. u = w
    BY <1>4, <2>1
  <2> HIDE DEF u
  <2> QED
    BY <1>4, <2>2, <2>3
<1>10. Continues(capture.chain, u)
  BY <1>2, <1>4, <1>5, <1>8, SuffixContinues
<1> HIDE DEF u
<1>11. mem.chain = (IF u = <<>> THEN capture.chain ELSE Last(u).resulting)
  <2>1. mem.chain = r[n].resulting
    BY <1>2, <1>4 DEF Backed
  <2>2. q = n \/ q < n
    BY <1>5
  <2> QED
    BY <1>5, <1>9, <2>1, <2>2
<1>12. SuffixValid
  BY <1>6, <1>7, <1>10, <1>11 DEF SuffixValid
<1> DEFINE c == CommandsOf(u)
<1>13. c = [i \in 1..n - q |-> u[i].command]
  BY <1>9 DEF CommandsOf
<1>14. ASSUME NEW i \in 1..n - q PROVE u[i].command \in Nat /\ u[i] = r[q + i]
  <2>1. q + i \in 1..n /\ q + i > 1
    BY <1>5
  <2>2. r[q + i] \in Records
    BY <1>4, <2>1, ElementOfSeq
  <2>3. q + i \in DOMAIN r
    BY <1>4, <2>1, LenProperties
  <2>4. r[q + i].kind = "command"
    BY <1>2, <2>1, <2>3 DEF Chained
  <2>5. u[i] = r[q + i]
    BY <1>9
  <2> QED
    BY <2>2, <2>4, <2>5, RecordFacts
<1>15. c \in Seq(Nat) /\ Len(c) = n - q
  <2>1. PICK m \in Nat : m = n - q
    BY <1>5
  <2>2. c \in [1..m -> Nat]
    BY <1>13, <1>14, <2>1
  <2>3. c \in Seq(Nat)
    BY <2>2, SeqDef
  <2>4. DOMAIN c = 1..Len(c) /\ Len(c) \in Nat /\ DOMAIN c = 1..m
    BY <2>2, <2>3, LenProperties
  <2> QED
    BY <2>1, <2>3, <2>4
<1> HIDE DEF c
<1>16. PICK a \in Nat, z \in Nat, y \in Nat : a = Len(mem.snapshot) /\ z = Len(capture.snapshot) /\ y = Len(disk.state)
  BY <1>2, <1>3, SnapshotFacts
<1>17. a = z + (n - q) /\ z + 1 = y + q
  <2>1. PICK m : m = mem.clean
    OBVIOUS
  <2>2. a - z = m - o /\ m = b + n
    BY <1>2, <1>4, <1>16, <2>1 DEF Inv, CaptureInv
  <2>3. a = y + n - 1
    BY <1>2, <1>4, <1>16 DEF Replays
  <2> QED
    BY <1>5, <2>2, <2>3
<1>18. ASSUME NEW i \in 1..Len(c) PROVE mem.snapshot[z + i] = c[i]
  <2>1. i \in 1..n - q
    BY <1>15
  <2>2. PICK h : h = q + i - 1
    OBVIOUS
  <2>3. h \in 1..n - 1 /\ z + i = y + h /\ 1 + h = q + i
    BY <1>5, <1>17, <2>1, <2>2
  <2>4. mem.snapshot[y + h] = r[1 + h].command
    BY <1>2, <1>4, <1>16, <2>3 DEF Replays
  <2>5. c[i] = u[i].command
    BY <1>13, <2>1
  <2>6. u[i] = r[q + i]
    BY <1>14, <2>1
  <2> QED
    BY <2>3, <2>4, <2>5, <2>6
<1>19. CommandsOf(Suffix) = c
  BY <1>7 DEF c
<1>20. Len(mem.snapshot) = Len(capture.snapshot) + Len(c)
  BY <1>15, <1>16, <1>17
<1> QED
  BY <1>3, <1>12, <1>15, <1>16, <1>18, <1>19, <1>20

LEMMA ReplaceStep ==
  ASSUME Inv, Replace
  PROVE  Inv'
<1>1. /\ cpc = "replace" /\ apc # "commit_sync"
      /\ unsynced' = (unsynced /\ cpc' = "failed")
      /\ UNCHANGED <<apc, capture, exposed, submitted, opens, faults>>
  BY DEF Replace
<1>2. TypeInv /\ ImagesInv /\ ServeInv /\ CaptureInv /\ ThreadInv /\ disk \in Files /\ submitted \in Nat /\ faults \in Nat
      /\ mem \in Memories /\ capture \in Captures /\ capture.snapshot \in Snapshots /\ unsynced \in BOOLEAN
  BY <1>1 DEF Inv, TypeInv, Preparing, Captures
<1>3. apc = "serving" /\ cpc \in Preparing
  BY <1>1 DEF Inv, ThreadInv, Serving, Preparing
<1>4. CASE mem.poisoned
  <2>1. cpc' = "failed" /\ mem' = Latched(mem) /\ disk' = disk /\ survivors' = survivors
    BY <1>4 DEF Replace, GiveUp
  <2>2. mem' \in Memories /\ mem'.poisoned = TRUE /\ mem'.snapshot = mem.snapshot
    BY <1>2, <2>1, LatchedFacts
  <2>3. disk' \in Files /\ survivors' \subseteq Files /\ ImagesInv'
    BY <1>1, <1>2, <2>1, ImagesKept
  <2>4. faults' > 0 /\ faults' \in Nat
    BY <1>1, <1>2, <1>4 DEF ThreadInv
  <2>5. unsynced' = unsynced
    BY <1>1, <1>2, <2>1
  <2> QED
    BY <1>1, <1>2, <1>3, <2>1, <2>2, <2>3, <2>4, <2>5, GiveUpKeeps
<1>5. CASE ~mem.poisoned
  <2>1. PICK c \in Seq(Nat) :
          /\ SuffixValid /\ capture.chain \in Digests /\ c = CommandsOf(Suffix)
          /\ Len(mem.snapshot) = Len(capture.snapshot) + Len(c)
          /\ \A i \in 1..Len(c) : mem.snapshot[Len(capture.snapshot) + i] = c[i]
    BY <1>3, <1>5, SuffixHolds
  <2>2. \A i \in 1..Len(capture.snapshot) : capture.snapshot[i] = mem.snapshot[i]
    BY <1>2, <1>3, <1>5 DEF CaptureInv
  <2>3. PICK t \in Seq(Records) :
          /\ t = <<Anchor(capture.chain, CheckpointSnapshot)>> \o Rebased(c)
          /\ Chained(t, 1, capture.snapshot) /\ Replays(t, 1, capture.snapshot, mem.snapshot)
    <3>1. CheckpointSnapshot = capture.snapshot
      BY DEF CheckpointSnapshot
    <3>2. mem.snapshot \in Snapshots
      BY <1>2 DEF Memories
    <3>3. PICK t : t = <<Anchor(capture.chain, CheckpointSnapshot)>> \o Rebased(c)
      OBVIOUS
    <3>4. t \in Seq(Records) /\ Chained(t, 1, CheckpointSnapshot) /\ Replays(t, 1, CheckpointSnapshot, mem.snapshot)
      BY <1>2, <2>1, <2>2, <3>1, <3>2, <3>3, RebasedChain
    <3> QED
      BY <3>1, <3>3, <3>4
  <2>4. PICK o \in Nat : o = capture.offset
    BY <1>2 DEF Captures
  <2>5. PICK next : next = [disk EXCEPT !.journal = Journal(o, t)]
    OBVIOUS
  <2>6. cpc' = "replace_sync" /\ mem' = mem /\ Changed(next, {})
    BY <1>5, <2>1, <2>3, <2>4, <2>5 DEF Replace
  <2>7. Journal(o, t) \in Journals /\ Journal(o, t).base = o /\ Journal(o, t).frames = t /\ WholeJournal(Journal(o, t))
    BY CleanReads
  <2>8. next \in Files /\ next.state = disk.state /\ next.prepared = disk.prepared /\ next.journal = Journal(o, t)
    BY <1>2, <2>5, <2>7, JournalChanged
  <2>9. disk.prepared = capture.snapshot
    BY <1>1, <1>2 DEF ThreadInv
  <2>10. mem.snapshot \in Snapshots /\ exposed = mem.snapshot /\ Shown(mem.snapshot, exposed, submitted)
    BY <1>2, <1>3 DEF ServeInv, Serving, Memories
  <2>11. Fine(next, exposed, submitted)
    <3>1. Recovers(next, 1, capture.snapshot, mem.snapshot)
      BY <1>2, <2>3, <2>8, <2>9, RecoversJournal
    <3> QED
      BY <1>2, <2>10, <3>1, FineBy
  <2>12. disk' = next
    BY <2>6 DEF Changed
  <2>13. disk' \in Files /\ survivors' \subseteq Files /\ ImagesInv'
    <3>1. submitted' = submitted /\ submitted <= submitted' /\ exposed' = exposed
      BY <1>1, <1>2
    <3> QED
      BY <1>2, <2>6, <2>8, <2>11, <3>1, ImagesGrow
  <2>14. unsynced' = FALSE
    BY <1>1, <2>6
  <2>15. LockedInv'
    BY <1>1, <1>3, <1>5, <2>3, <2>4, <2>6, <2>7, <2>8, <2>9, <2>12, <2>14 DEF LockedInv
  <2>16. ServeInv'
    BY <1>1, <1>3, <2>6, <2>10 DEF ServeInv, CheckpointLocked
  <2>17. LoadInv' /\ AnchorInv'
    BY <1>1, <1>3, ServeRest DEF Serving
  <2>18. PoisonInv' /\ CaptureInv' /\ ThreadInv'
    BY <1>1, <1>3, <1>5, <2>6 DEF PoisonInv, CaptureInv, ThreadInv, Preparing, Serving, Loading, Anchoring
  <2>19. TypeInv'
    BY <1>1, <1>2, <2>6, <2>13, <2>14 DEF TypeInv, Locked
  <2> QED
    BY <2>13, <2>15, <2>16, <2>17, <2>18, <2>19 DEF Inv
<1> QED
  BY <1>4, <1>5

\* What holds while the checkpoint thread has the durability lock.
LEMMA LockedHolds ==
  ASSUME Inv, CheckpointLocked
  PROVE  \E b \in Nat, r \in Seq(Records) :
           /\ disk.journal = Journal(b, r) /\ disk.journal.base = b /\ disk.journal.frames = r
           /\ WholeJournal(disk.journal) /\ b = capture.offset
           /\ Len(r) \in Nat /\ Len(r) \in 1..Len(r)
           /\ Chained(r, 1, capture.snapshot) /\ Replays(r, 1, capture.snapshot, mem.snapshot)
           /\ capture.snapshot \in Snapshots
           /\ mem.snapshot \in Snapshots /\ Shown(mem.snapshot, exposed, submitted)
           /\ exposed = mem.snapshot
           /\ apc = "serving" /\ mem.poisoned = FALSE /\ unsynced = FALSE
<1>1. disk \in Files /\ mem \in Memories /\ capture \in Captures /\ unsynced \in BOOLEAN
  BY DEF Inv, TypeInv, CheckpointLocked, Locked
<1>2. mem.snapshot \in Snapshots /\ capture.snapshot \in Snapshots /\ mem.poisoned \in BOOLEAN
  BY <1>1 DEF Memories, Captures
<1>3. /\ apc = "serving" /\ ~mem.poisoned /\ ~unsynced
      /\ WholeJournal(disk.journal) /\ disk.journal.base = capture.offset
      /\ Chained(disk.journal.frames, 1, capture.snapshot)
      /\ Replays(disk.journal.frames, 1, capture.snapshot, mem.snapshot)
  BY DEF Inv, LockedInv
<1>4. exposed = mem.snapshot /\ Shown(mem.snapshot, exposed, submitted)
  BY <1>3 DEF Inv, ServeInv, Serving
<1>5. PICK b, r : b = disk.journal.base /\ r = disk.journal.frames
  OBVIOUS
<1>6. disk.journal \in Journals /\ r \in Seq(Records) /\ b \in Nat /\ disk.journal.header = TRUE
  BY <1>1, <1>3, <1>5 DEF Files, WholeJournal, Journals
<1>7. disk.journal = Journal(b, r)
  BY <1>5, <1>6 DEF Journals, Journal
<1>8. Len(r) \in Nat /\ Len(r) \in 1..Len(r)
  <2>1. Len(r) \in Nat /\ DOMAIN r = 1..Len(r)
    BY <1>6, LenProperties
  <2>2. 1 \in DOMAIN r
    BY <1>3, <1>5 DEF Chained
  <2> QED
    BY <2>1, <2>2
<1> QED
  BY <1>1, <1>2, <1>3, <1>4, <1>5, <1>6, <1>7, <1>8

LEMMA ReplaceSyncedStep ==
  ASSUME Inv, ReplaceSynced
  PROVE  Inv'
<1>1. /\ cpc = "replace_sync" /\ cpc' = "publish"
      /\ Synced(disk, {disk.journal}, {disk.prepared})
      /\ UNCHANGED <<unsynced, apc, mem, capture, exposed, submitted, opens, faults>>
  BY DEF ReplaceSynced
<1>2. TypeInv /\ ServeInv /\ ThreadInv /\ LockedInv /\ disk \in Files /\ Fine(disk, exposed, submitted)
  BY DEF Inv, TypeInv, ImagesInv, Images
<1>3. CheckpointLocked = TRUE /\ CheckpointLocked' = TRUE
  BY <1>1 DEF CheckpointLocked
<1>4. apc = "serving" /\ mem.poisoned = FALSE
  BY <1>3, LockedHolds
<1>5. disk' \in Files /\ survivors' \subseteq Files /\ ImagesInv'
  <2>1. Fine(disk, exposed', submitted')
    BY <1>1, <1>2
  <2> QED
    BY <1>1, <1>2, <2>1, ImagesSettled
<1>6. disk' = disk
  BY <1>1 DEF Synced
<1>7. ServeInv'
  BY <1>1, <1>2, <1>3, <1>6, ServeKeeps
<1>8. LockedInv'
  BY <1>1, <1>2, <1>3, <1>6 DEF LockedInv
<1>9. LoadInv' /\ AnchorInv'
  BY <1>1, <1>4, ServeRest DEF Serving
<1>10. PoisonInv' /\ CaptureInv' /\ ThreadInv'
  BY <1>1, <1>2, <1>4 DEF PoisonInv, CaptureInv, ThreadInv, Preparing, Serving, Loading, Anchoring
<1>11. TypeInv'
  BY <1>1, <1>2, <1>5 DEF TypeInv, Locked
<1> QED
  BY <1>5, <1>7, <1>8, <1>9, <1>10, <1>11 DEF Inv

LEMMA PublishStep ==
  ASSUME Inv, Publish
  PROVE  Inv'
<1>1. /\ cpc = "publish" /\ cpc' = "publish_sync"
      /\ Changed([disk EXCEPT !.state = disk.prepared, !.prepared = Absent], {})
      /\ UNCHANGED <<unsynced, apc, mem, capture, exposed, submitted, opens, faults>>
  BY DEF Publish
<1>2. TypeInv /\ ImagesInv /\ ServeInv /\ ThreadInv /\ LockedInv /\ disk \in Files /\ submitted \in Nat
  BY DEF Inv, TypeInv
<1>3. CheckpointLocked = TRUE /\ CheckpointLocked' = TRUE
  BY <1>1 DEF CheckpointLocked
<1>4. PICK b \in Nat, r \in Seq(Records) :
           /\ disk.journal = Journal(b, r)
           /\ Chained(r, 1, capture.snapshot) /\ Replays(r, 1, capture.snapshot, mem.snapshot)
           /\ capture.snapshot \in Snapshots
           /\ mem.snapshot \in Snapshots /\ Shown(mem.snapshot, exposed, submitted)
           /\ exposed = mem.snapshot
           /\ apc = "serving" /\ mem.poisoned = FALSE
  BY <1>3, LockedHolds
<1>5. disk.prepared = capture.snapshot
  BY <1>1, <1>2, <1>3 DEF LockedInv
<1>6. PICK next : next = [disk EXCEPT !.state = disk.prepared, !.prepared = Absent]
  OBVIOUS
<1>7. next \in Files /\ next.state = capture.snapshot /\ next.journal = disk.journal
  BY <1>2, <1>4, <1>5, <1>6, StatePublished
<1>8. Fine(next, exposed, submitted)
  <2>1. Recovers(next, 1, capture.snapshot, mem.snapshot)
    BY <1>4, <1>7, RecoversJournal
  <2> QED
    BY <1>4, <2>1, FineBy
<1>9. Changed(next, {}) /\ submitted' = submitted /\ submitted <= submitted' /\ exposed' = exposed
  BY <1>1, <1>2, <1>6
<1>10. disk' = next
  BY <1>9 DEF Changed
<1>11. disk' \in Files /\ survivors' \subseteq Files /\ ImagesInv'
  BY <1>2, <1>7, <1>8, <1>9, ImagesGrow
<1>12. ServeInv'
  BY <1>1, <1>3, <1>4 DEF ServeInv
<1>13. LockedInv'
  BY <1>1, <1>2, <1>3, <1>7, <1>10 DEF LockedInv
<1>14. LoadInv' /\ AnchorInv'
  BY <1>1, <1>4, ServeRest DEF Serving
<1>15. PoisonInv' /\ CaptureInv' /\ ThreadInv'
  BY <1>1, <1>2, <1>4 DEF PoisonInv, CaptureInv, ThreadInv, Preparing, Serving, Loading, Anchoring
<1>16. TypeInv'
  BY <1>1, <1>2, <1>11 DEF TypeInv, Locked
<1> QED
  BY <1>11, <1>12, <1>13, <1>14, <1>15, <1>16 DEF Inv

LEMMA PublishSyncedStep ==
  ASSUME Inv, PublishSynced
  PROVE  Inv'
<1>1. /\ cpc = "publish_sync" /\ cpc' = "idle"
      /\ Synced(disk, {disk.journal}, {disk.prepared})
      /\ mem' = AfterCheckpoint(mem, disk.journal.frames)
      /\ UNCHANGED <<unsynced, apc, exposed, submitted, opens, faults>>
  BY DEF PublishSynced
<1>2. /\ TypeInv /\ ServeInv /\ ThreadInv /\ LockedInv /\ disk \in Files /\ Fine(disk, exposed, submitted)
      /\ mem \in Memories
  BY DEF Inv, TypeInv, ImagesInv, Images
<1>3. CheckpointLocked = TRUE /\ CheckpointLocked' = FALSE
  BY <1>1 DEF CheckpointLocked
<1>4. PICK b \in Nat, r \in Seq(Records) :
           /\ disk.journal = Journal(b, r) /\ disk.journal.base = b /\ disk.journal.frames = r
           /\ WholeJournal(disk.journal) /\ b = capture.offset
           /\ Len(r) \in Nat /\ Len(r) \in 1..Len(r)
           /\ Chained(r, 1, capture.snapshot) /\ Replays(r, 1, capture.snapshot, mem.snapshot)
           /\ capture.snapshot \in Snapshots
           /\ mem.snapshot \in Snapshots /\ Shown(mem.snapshot, exposed, submitted)
           /\ exposed = mem.snapshot
           /\ apc = "serving" /\ mem.poisoned = FALSE /\ unsynced = FALSE
  BY <1>3, LockedHolds
<1>5. disk' \in Files /\ survivors' \subseteq Files /\ ImagesInv'
  <2>1. Fine(disk, exposed', submitted')
    BY <1>1, <1>2
  <2> QED
    BY <1>1, <1>2, <2>1, ImagesSettled
<1>6. disk' = disk /\ disk.state = capture.snapshot
  BY <1>1, <1>2, <1>3 DEF Synced, LockedInv
<1>7. PICK n \in Nat : n = Len(r) /\ n >= 1
  BY <1>4
<1>8. PICK dg : dg = r[n].resulting
  OBVIOUS
<1>9. dg \in Digests /\ Last(r).resulting = dg
  <2>1. r[n] \in Records
    BY <1>4, <1>7, ElementOfSeq
  <2>2. Last(r) = r[n]
    BY <1>7 DEF Last
  <2> QED
    BY <1>8, <2>1, <2>2, RecordFacts
<1>10. PICK g \in Nat : g = mem.generation + 1
  BY <1>2 DEF Memories
<1>11. PICK since \in Nat : since = n - 1
  BY <1>7
<1>12. PICK clean \in Nat : clean = b + n
  BY <1>7
<1>13. /\ mem' \in Memories /\ mem'.snapshot = mem.snapshot /\ mem'.poisoned = FALSE
       /\ mem'.chain = dg /\ mem'.clean = clean /\ mem'.since = since
  <2>1. PICK due \in BOOLEAN : due = (Len(r) > 1)
    <3>1. (Len(r) > 1) \in BOOLEAN
      BY <1>4
    <3> QED
      BY <3>1
  <2>2. mem' = [mem EXCEPT !.clean = capture.offset + Len(r), !.since = Len(r) - 1, !.due = due,
                           !.generation = mem.generation + 1, !.chain = Last(r).resulting]
    BY <1>1, <1>4, <2>1 DEF AfterCheckpoint
  <2>3. mem' = [mem EXCEPT !.clean = clean, !.since = since, !.due = due, !.generation = g, !.chain = dg]
    BY <1>4, <1>7, <1>9, <1>10, <1>11, <1>12, <2>2
  <2> QED
    BY <1>2, <1>4, <1>9, <2>3 DEF Memories
<1>14. Backed(r)'
  BY <1>4, <1>6, <1>7, <1>8, <1>11, <1>12, <1>13 DEF Backed
<1>15. ServeInv'
  BY <1>1, <1>4, <1>6, <1>13, <1>14 DEF ServeInv
<1>16. LoadInv' /\ AnchorInv'
  BY <1>1, <1>4, ServeRest DEF Serving
<1>17. PoisonInv' /\ CaptureInv' /\ ThreadInv' /\ LockedInv'
  BY <1>1, <1>3, <1>4, <1>13 DEF PoisonInv, CaptureInv, LockedInv, ThreadInv, Preparing, Serving, Loading, Anchoring
<1>18. TypeInv'
  BY <1>1, <1>2, <1>5, <1>13 DEF TypeInv, Locked, Preparing
<1> QED
  BY <1>5, <1>15, <1>16, <1>17, <1>18 DEF Inv

LEMMA CheckpointFailsStep ==
  ASSUME Inv, CheckpointFails
  PROVE  Inv'
<1>1. /\ cpc \in {"prepare_sync", "replace", "replace_sync", "publish", "publish_sync"}
      /\ CheckpointLocked \/ apc # "commit_sync"
      /\ faults' = faults + 1 /\ cpc' = "failed" /\ mem' = Latched(mem)
      /\ UNCHANGED <<unsynced, apc, capture, exposed, submitted, opens>>
  BY DEF CheckpointFails, GiveUp
<1>2. TypeInv /\ ImagesInv /\ ThreadInv /\ disk \in Files /\ submitted \in Nat /\ mem \in Memories /\ faults \in Nat
  BY DEF Inv, TypeInv
<1>3. apc = "serving" /\ cpc # "idle"
  BY <1>1, <1>2 DEF Inv, LockedInv, ThreadInv, Serving
<1>4. mem' \in Memories /\ mem'.poisoned = TRUE /\ mem'.snapshot = mem.snapshot
  BY <1>1, <1>2, LatchedFacts
<1>5. faults' \in Nat /\ faults' > 0
  BY <1>1, <1>2
<1>6. disk' \in Files /\ survivors' \subseteq Files /\ ImagesInv'
  <2>1. CASE UNCHANGED <<disk, survivors>>
    BY <1>1, <1>2, <2>1, ImagesKept
  <2>2. CASE cpc = "prepare_sync" /\ Changed([disk EXCEPT !.prepared = CheckpointSnapshot], {})
    <3>1. capture.snapshot \in Snapshots /\ cpc \in Preparing
      BY <1>2, <2>2 DEF TypeInv, Preparing, Captures
    <3>2. PICK next : next = [disk EXCEPT !.prepared = capture.snapshot]
      OBVIOUS
    <3>3. next \in Files /\ next.state = disk.state /\ next.journal = disk.journal
      BY <1>2, <3>1, <3>2, PreparedChanged
    <3>4. Solid(disk.journal, disk.state, exposed, submitted)
      BY <3>1, SolidPreparing
    <3>5. Fine(next, exposed, submitted)
      BY <3>3, <3>4, SolidFine
    <3>6. Changed(next, {}) /\ submitted' = submitted /\ submitted <= submitted' /\ exposed' = exposed
      BY <1>1, <1>2, <2>2, <3>2 DEF CheckpointSnapshot
    <3> QED
      BY <1>2, <3>3, <3>5, <3>6, ImagesGrow
  <2> QED
    BY <2>1, <2>2 DEF CheckpointFails
<1> QED
  BY <1>1, <1>3, <1>4, <1>5, <1>6, GiveUpKeeps

-----------------------------------------------------------------------------
(***************************************************************************)
(* The invariant holds, and what follows from it.                          *)
(***************************************************************************)

LEMMA InitInv == Init => Inv
<1> SUFFICES ASSUME Init PROVE Inv
  OBVIOUS
<1>1. <<>> \in Snapshots
  BY EmptySeq DEF Snapshots
<1>2. disk \in Files /\ survivors = {disk}
  BY DEF Init, EmptyDisk, Files
<1>3. mem \in Memories /\ mem.poisoned = FALSE
  BY <1>1 DEF Init, FreshMem, Memories
<1>4. TypeInv
  BY <1>1, <1>2, <1>3 DEF Init, TypeInv, Preparing, Locked
<1>5. ImagesInv
  <2>1. Blank(disk)
    BY DEF Init, EmptyDisk, Blank
  <2>2. exposed = <<>> /\ Images = {disk}
    BY <1>2 DEF Init, Images
  <2> QED
    BY <2>1, <2>2, BlankFine DEF ImagesInv
<1>6. apc = "down" /\ cpc = "idle"
  BY DEF Init
<1>7. LoadInv /\ AnchorInv /\ ServeInv
  BY <1>6 DEF LoadInv, AnchorInv, ServeInv, Serving, Anchoring
<1>8. ThreadInv /\ PoisonInv /\ CaptureInv /\ LockedInv
  BY <1>3, <1>6 DEF ThreadInv, PoisonInv, CaptureInv, LockedInv, CheckpointLocked, Preparing
<1> QED
  BY <1>4, <1>5, <1>7, <1>8 DEF Inv

LEMMA StutterInv ==
  ASSUME Inv, UNCHANGED vars
  PROVE  Inv'
<1>1. UNCHANGED <<disk, survivors, unsynced, apc, cpc, mem, capture, exposed, submitted, opens, faults>>
  BY DEF vars
<1>2. TypeInv' /\ ImagesInv'
  BY <1>1 DEF Inv, TypeInv, ImagesInv, Images
<1>3. LoadInv' /\ AnchorInv'
  BY <1>1 DEF Inv, LoadInv, AnchorInv, Loaded, FreshOpen
<1>4. ServeInv'
  BY <1>1, ServeKeeps DEF Inv, CheckpointLocked
<1>5. ThreadInv' /\ CaptureInv' /\ LockedInv'
  BY <1>1 DEF Inv, ThreadInv, CaptureInv, LockedInv, CheckpointLocked
<1>6. PoisonInv'
  <2>1. JournalImages' = JournalImages
    BY <1>1 DEF JournalImages
  <2> QED
    BY <1>1, <2>1 DEF Inv, PoisonInv
<1> QED
  BY <1>2, <1>3, <1>4, <1>5, <1>6 DEF Inv

LEMMA NextInv ==
  ASSUME WritesAreOrdered, Inv, [Next]_vars
  PROVE  Inv'
<1>1. CASE OpenStep
  BY <1>1, OpenStarts, TruncateStep, AdoptStep, DiscardStep, OpenPrepareStep, OpenAnchorStep, OpenAnchorTornStep,
     OpenPublishStep, OpenCompactStep, OpenMarkStep, OpenSyncStep, OpenDoneStep DEF OpenStep
<1>2. CASE CommitStep
  BY <1>2, CommitStarts, CommitTornStep, CommitSyncedStep, CommitSyncFailsStep DEF CommitStep
<1>3. CASE CheckpointStep
  BY <1>3, CaptureStep, PrepareStep, PrepareSyncedStep, ReplaceStep, ReplaceSyncedStep, PublishStep,
     PublishSyncedStep DEF CheckpointStep
<1>4. CASE CheckpointFails
  BY <1>4, CheckpointFailsStep
<1>5. CASE Crash
  BY <1>5, CrashStep
<1>6. CASE PowerLoss
  BY <1>6, PowerLossStep
<1>7. CASE UNCHANGED vars
  BY <1>7, StutterInv
<1> QED
  BY <1>1, <1>2, <1>3, <1>4, <1>5, <1>6, <1>7 DEF Next

LEMMA InvCorrect ==
  ASSUME WritesAreOrdered
  PROVE  Spec => []Inv
<1>1. Inv /\ [Next]_vars => Inv'
  BY NextInv
<1> QED
  BY <1>1, InitInv, PTL DEF Spec

LEMMA PrefixOf ==
  ASSUME NEW e \in Snapshots, NEW s \in Snapshots, Len(e) <= Len(s), \A i \in 1..Len(e) : e[i] = s[i]
  PROVE  IsPrefix(e, s)
<1>1. Len(e) \in Nat /\ Len(s) \in Nat
  BY SnapshotFacts
<1>2. PICK n \in Nat : n = Len(e)
  BY <1>1
<1>3. \A i \in 1..n : e[i] \in Nat /\ s[i] \in Nat
  BY <1>1, <1>2, SnapshotFacts
<1>4. PICK x, y : x = SubSeq(e, 1, n) /\ y = SubSeq(s, 1, n)
  OBVIOUS
<1>5. x \in Seq(Nat) /\ Len(x) = (IF 1 <= n THEN n - 1 + 1 ELSE 0) /\ \A i \in 1..n - 1 + 1 : x[i] = e[1 + i - 1]
  BY <1>3, <1>4, SubSeqProperties
<1>6. y \in Seq(Nat) /\ Len(y) = (IF 1 <= n THEN n - 1 + 1 ELSE 0) /\ \A i \in 1..n - 1 + 1 : y[i] = s[1 + i - 1]
  BY <1>3, <1>4, SubSeqProperties
<1>7. Len(x) = n /\ Len(y) = n
  BY <1>2, <1>5, <1>6
<1>8. ASSUME NEW i \in 1..Len(x) PROVE x[i] = y[i]
  <2>1. i \in 1..n /\ i \in 1..n - 1 + 1 /\ 1 + i - 1 = i
    BY <1>7
  <2>2. x[i] = e[i] /\ y[i] = s[i]
    BY <1>5, <1>6, <2>1
  <2> QED
    BY <1>2, <2>1, <2>2
<1>9. x = y
  BY <1>5, <1>6, <1>7, <1>8, SeqEqual
<1> QED
  BY <1>2, <1>4, <1>9 DEF IsPrefix

\* What load makes of files that the invariant calls fine.
LEMMA FineLoads ==
  ASSUME NEW d \in Files, NEW e \in Snapshots, NEW n, Fine(d, e, n)
  PROVE  /\ Load(d).outcome # "refuse"
         /\ e # <<>> => Load(d).outcome = "recover"
         /\ Load(d).outcome = "recover" => Load(d).snapshot \in Snapshots /\ Shown(Load(d).snapshot, e, n)
<1>1. CASE Blank(d) /\ e = <<>>
  <2>1. Load(d).outcome = "fresh" \/ Load(d).outcome = "discard"
    BY <1>1, LoadBlank
  <2> QED
    BY <1>1, <2>1
<1>2. CASE \E k \in Nat, S \in Snapshots, s \in Snapshots : Recovers(d, k, S, s) /\ Shown(s, e, n)
  <2>1. PICK k \in Nat, S \in Snapshots, s \in Snapshots : Recovers(d, k, S, s) /\ Shown(s, e, n)
    BY <1>2
  <2>2. Load(d).outcome = "recover" /\ Load(d).snapshot = s
    BY <2>1, LoadRecovers
  <2> QED
    BY <2>1, <2>2
<1> QED
  BY <1>1, <1>2 DEF Fine

\* Wherever the process dies or the machine loses power, open finds a
\* checkpoint with its anchor and recovers all that clients were shown (load,
\* commit_command, persist_captured_checkpoint_inner,
\* checkpoint_snapshot_locked).  Without ordered writes TLC finds a
\* counterexample.
THEOREM EveryCrashImageRecoversCorrect ==
  ASSUME WritesAreOrdered
  PROVE  Spec => []EveryCrashImageRecovers
<1>1. Inv => EveryCrashImageRecovers
  <2> SUFFICES ASSUME Inv, NEW d \in Images
               PROVE  /\ Load(d).outcome # "refuse"
                      /\ exposed # <<>> => Load(d).outcome = "recover" /\ IsPrefix(exposed, Load(d).snapshot)
    BY DEF EveryCrashImageRecovers
  <2>1. d \in Files /\ exposed \in Snapshots /\ Fine(d, exposed, submitted)
    BY DEF Inv, TypeInv, ImagesInv, Images
  <2>2. /\ Load(d).outcome # "refuse"
        /\ exposed # <<>> => Load(d).outcome = "recover"
        /\ Load(d).outcome = "recover" => Load(d).snapshot \in Snapshots /\ Shown(Load(d).snapshot, exposed, submitted)
    BY <2>1, FineLoads
  <2>3. ASSUME exposed # <<>> PROVE IsPrefix(exposed, Load(d).snapshot)
    <3>1. PICK s : s = Load(d).snapshot
      OBVIOUS
    <3>2. s \in Snapshots /\ Len(exposed) <= Len(s) /\ \A i \in 1..Len(exposed) : exposed[i] = s[i]
      BY <2>2, <2>3, <3>1 DEF Shown
    <3> QED
      BY <2>1, <3>1, <3>2, PrefixOf
  <2> QED
    BY <2>2, <2>3
<1> QED
  BY <1>1, InvCorrect, PTL

\* No crash image applies a command twice, however commits and a checkpoint
\* taken beside them interleave (persist_captured_checkpoint_inner,
\* replace_from).
THEOREM AppliedOnceCorrect ==
  ASSUME WritesAreOrdered
  PROVE  Spec => []AppliedOnce
<1>1. Inv => AppliedOnce
  <2> SUFFICES ASSUME Inv, NEW d \in Images, Load(d).outcome = "recover", NEW c \in Commands
               PROVE  Cardinality({i \in DOMAIN Load(d).snapshot : Load(d).snapshot[i] = c}) <= 1
    BY DEF AppliedOnce
  <2>1. PICK s : s = Load(d).snapshot
    OBVIOUS
  <2>2. s \in Snapshots /\ Shown(s, exposed, submitted)
    <3>1. d \in Files /\ exposed \in Snapshots /\ Fine(d, exposed, submitted)
      BY DEF Inv, TypeInv, ImagesInv, Images
    <3> QED
      BY <2>1, <3>1, FineLoads
  <2>3. PICK P : P = {i \in DOMAIN s : s[i] = c}
    OBVIOUS
  <2>4. DOMAIN s = 1..Len(s)
    BY <2>2, LenProperties DEF Snapshots
  <2>5. c # Restart
    BY BoundsAssumption DEF Commands, Restart
  <2>6. \A i, j \in P : i = j
    BY <2>2, <2>3, <2>4, <2>5 DEF Shown
  <2>7. Cardinality(P) <= 1
    <3>1. CASE P = {}
      <4>1. Cardinality(P) = 0
        BY <3>1, FS_EmptySet
      <4> QED
        BY <4>1
    <3>2. CASE P # {}
      <4>1. PICK i : i \in P
        BY <3>2
      <4>2. P = {i}
        BY <2>6, <4>1
      <4>3. Cardinality(P) = 1
        BY <4>2, FS_Singleton
      <4> QED
        BY <4>3
    <3> QED
      BY <3>1, <3>2
  <2> QED
    BY <2>1, <2>3, <2>7
<1> QED
  BY <1>1, InvCorrect, PTL

\* Between operations a healthy authority has in memory exactly what load would
\* rebuild from the files (commit_command and the end of
\* persist_captured_checkpoint_inner update both).
THEOREM MemoryMatchesFilesCorrect ==
  ASSUME WritesAreOrdered
  PROVE  Spec => []MemoryMatchesFiles
<1>1. Inv => MemoryMatchesFiles
  <2> SUFFICES ASSUME Inv, apc = "serving", ~CheckpointLocked, ~mem.poisoned
               PROVE  /\ Load(disk).outcome = "recover" /\ ~HasTornTail(disk.journal)
                      /\ Load(disk).snapshot = mem.snapshot /\ Load(disk).chain = mem.chain
                      /\ Load(disk).clean = mem.clean /\ Load(disk).since = mem.since
    BY DEF MemoryMatchesFiles
  <2>1. PICK b \in Nat, r \in Seq(Records) :
           /\ disk.journal = Journal(b, r)
           /\ Backed(r) /\ mem.clean = b + Len(r)
           /\ disk.state \in Snapshots /\ Chained(r, 1, disk.state) /\ Replays(r, 1, disk.state, mem.snapshot)
           /\ mem.snapshot \in Snapshots
    BY ServingHolds
  <2>2. disk \in Files
    BY DEF Inv, TypeInv
  <2>3. ~HasTornTail(disk.journal) /\ WholeFrames(disk.journal) = r /\ CleanLen(disk.journal) = b + Len(r)
    BY <2>1, CleanReads
  <2>4. PICK S \in Snapshots : S = disk.state
    BY <2>1
  <2>5. Recovers(disk, 1, S, mem.snapshot)
    BY <2>1, <2>4, RecoversJournal
  <2>6. /\ Load(disk).outcome = "recover" /\ Load(disk).snapshot = mem.snapshot
        /\ Load(disk).chain = WholeFrames(disk.journal)[Len(WholeFrames(disk.journal))].resulting
        /\ Load(disk).clean = CleanLen(disk.journal)
        /\ Load(disk).since = Len(WholeFrames(disk.journal)) - 1
    BY <2>1, <2>2, <2>5, LoadRecovers
  <2> QED
    BY <2>1, <2>3, <2>6 DEF Backed
<1> QED
  BY <1>1, InvCorrect, PTL

\* A checkpoint is given up, and the store poisoned, only after a write or a
\* sync has failed: no commit that runs beside a checkpoint makes its
\* validation fail (validate_checkpoint_capture, the checks of the suffix).
THEOREM OnlyFaultsPoisonCorrect ==
  ASSUME WritesAreOrdered
  PROVE  Spec => []OnlyFaultsPoison
<1>1. Inv => OnlyFaultsPoison
  BY DEF Inv, ThreadInv, OnlyFaultsPoison
<1> QED
  BY <1>1, InvCorrect, PTL

\* No step takes back what clients were shown; in particular an open after any
\* crash shows them an extension of it (SingleAuthorityControlPlane::open,
\* commit_command).
THEOREM ExposedOnlyGrowsCorrect ==
  ASSUME WritesAreOrdered
  PROVE  Spec => ExposedOnlyGrows
<1>1. ASSUME Inv, [Next]_vars PROVE IsPrefix(exposed, exposed')
  <2>1. exposed \in Snapshots /\ mem.snapshot \in Snapshots /\ submitted \in Nat
    BY <1>1 DEF Inv, TypeInv, Memories
  <2>2. CASE exposed' = exposed
    <3>1. Len(exposed) <= Len(exposed)
      BY <2>1, SnapshotFacts
    <3>2. IsPrefix(exposed, exposed)
      BY <2>1, <3>1, PrefixOf
    <3> QED
      BY <2>2, <3>2
  <2>3. CASE OpenDone
    <3>1. exposed' = mem.snapshot /\ apc \in Anchoring
      BY <2>3 DEF OpenDone, Anchoring
    <3>2. Shown(mem.snapshot, exposed, submitted)
      BY <1>1, <3>1 DEF Inv, AnchorInv
    <3>3. IsPrefix(exposed, mem.snapshot)
      BY <2>1, <3>2, PrefixOf DEF Shown
    <3> QED
      BY <3>1, <3>3
  <2>4. CASE CommitSynced
    <3>1. PICK t : t = Append(mem.snapshot, submitted)
      OBVIOUS
    <3>2. apc = "commit_sync" /\ exposed' = t
      BY <1>1, <2>4, <3>1 DEF CommitSynced, Inv, TypeInv, Memories
    <3>3. t \in Snapshots /\ Shown(t, exposed, submitted)
      BY <1>1, <3>1, <3>2, CommitHolds
    <3>4. IsPrefix(exposed, t)
      BY <2>1, <3>3, PrefixOf DEF Shown
    <3> QED
      BY <3>2, <3>4
  <2>5. exposed' = exposed \/ OpenDone \/ CommitSynced
    BY <1>1 DEF Next, OpenStep, CommitStep, CheckpointStep, Open, Truncate, Adopt, Discard, OpenPrepare, OpenAnchor,
       OpenAnchorTorn, OpenPublish, OpenCompact, OpenMark, OpenSync, Commit, CommitTorn, CommitSyncFails, Capture,
       Prepare, PrepareSynced, Replace, ReplaceSynced, Publish, PublishSynced, CheckpointFails, Crash, PowerLoss, vars
  <2> QED
    BY <2>2, <2>3, <2>4, <2>5
<1>2. Inv /\ [Next]_vars => [IsPrefix(exposed, exposed')]_vars
  BY <1>1
<1> QED
  BY <1>2, InvCorrect, PTL DEF Spec, ExposedOnlyGrows

=============================================================================
