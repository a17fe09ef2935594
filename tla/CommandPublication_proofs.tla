---------------------- MODULE CommandPublication_proofs ----------------------
(***************************************************************************)
(* Proofs about CommandPublication for every acting set, every set of      *)
(* frontends and payloads and every bound on indexes.  Except for type     *)
(* correctness they assume that a mark is not lost (MarkMayVanish).        *)
(***************************************************************************)
EXTENDS CommandPublication, SequenceTheorems, TLAPS

-----------------------------------------------------------------------------
(***************************************************************************)
(* The inductive invariant.                                                *)
(***************************************************************************)

\* A frontend that is doing something does it to a command.
Typed ==
  /\ TypeOK
  /\ \A f \in Frontends : op[f].stage # "idle" => op[f].command \in Commands

\* Every log is a beginning of the stream.
Prefixes ==
  \A n \in Nodes :
    /\ Len(log[n]) <= Len(Decided)
    /\ \A i \in 1..Len(log[n]) : log[n][i] = Decided[i]

\* The slot holds a payload that has been issued, at an index the primary has
\* or takes next; a marked command is settled, and one that is not marked has
\* not been applied at any index.
SlotInv ==
  /\ \A i \in 1..Len(log[Primary]) : log[Primary][i].payload \in issued
  /\ started => slot \in Commands /\ Settled(slot, FALSE)
  /\ slot \in Commands =>
       /\ slot.payload \in issued
       /\ slot.index <= Len(log[Primary]) + 1
       /\ ~started => \A i \in 1..Len(log[Primary]) : log[Primary][i] # Entry(slot, FALSE)

\* Requests that may still be executed went to replicas, with a settled end.
LateInv == \A q \in late : q.node # Primary /\ Settled(q.command, q.abandoned)

\* What the primary has applied, the witness has.
WitnessFirst ==
  \A i \in 1..Len(log[Primary]) : ~log[Primary][i].abandoned => i <= Len(log[Witness])

\* What a frontend may know of the publication of command c: progress is never
\* more than has happened.
Current(c) == c \in Commands => c.index <= Len(log[Primary]) \/ c = slot
Knows(c, p) ==
  /\ p # "Abortable" => c \in Commands /\ Settled(c, FALSE)
  /\ p = "Published" => Exact(Primary, c) /\ Exact(Witness, c)
Overtaken(c) == c.index <= Len(Decided) /\ Decided[c.index] # Entry(c, FALSE)

\* The command of a frontend: the primary has its index or takes it next from
\* the slot; a visited node has what it was asked to record; a tombstone is
\* only written on the primary while the command is not marked; and a command
\* is reissued because its index has gone to something else.
OpOK(f, o) ==
  LET c == o.command
  IN  /\ Current(c) /\ Knows(c, o.progress)
      /\ o.stage = "fanout" => \A n \in Nodes \ o.todo : Exact(n, c)
      /\ o.stage = "tombstone" =>
           IF Primary \in o.todo THEN section = f => ~(started /\ slot = c)
                                 ELSE Settled(c, TRUE)
      /\ o.stage \in {"reissue", "reload"} => o.progress = "Abortable"
      /\ o.stage = "reissue" => Overtaken(c)
OpInv(f) == OpOK(f, op[f])

Inv ==
  /\ Typed /\ Prefixes /\ SlotInv /\ LateInv /\ WitnessFirst /\ AckedIsDurable
  /\ \A f \in Frontends : OpInv(f)

-----------------------------------------------------------------------------
(***************************************************************************)
(* Type correctness.                                                       *)
(***************************************************************************)

LEMMA NoCommandIsNone == NoCommand \notin Commands
BY NamesAssumption DEF NoCommand, Commands

LEMMA InitTyped == Init => Typed
<1>1. <<>> \in Seq(Entries) /\ Idle \in Operations /\ Idle.stage = "idle"
  BY EmptySeq DEF Idle, Operations, Stages, Progress
<1> QED
  BY <1>1 DEF Init, Typed, TypeOK

LEMMA MergeTyped ==
  ASSUME NEW p \in Progress, NEW q \in Progress
  PROVE  Merge(p, q) \in {p, q}
BY DEF Merge

LEMMA ObservedTyped ==
  ASSUME NEW R, NEW c PROVE Observed(R, c) \in {"Abortable", "Witnessed", "Published"}
BY DEF Observed

LEMMA ReconstructedTyped ==
  ASSUME NEW R, NEW c PROVE Reconstructed(R, c) \in Progress \cup {"Unknown"}
BY DEF Reconstructed, Progress

\* A request to record a command leaves logs of entries.
LEMMA RecordedTyped ==
  ASSUME Typed, NEW n \in Nodes, NEW c \in Commands, NEW a \in BOOLEAN
  PROVE  /\ Entry(c, a) \in Entries
         /\ Recorded(n, c, a) \in [Nodes -> Seq(Entries)]
<1>1. Entry(c, a) \in Entries
  BY DEF Commands, Entry, Entries
<1>2. log \in [Nodes -> Seq(Entries)] /\ log[n] \in Seq(Entries)
  BY DEF Typed, TypeOK
<1>3. Append(log[n], Entry(c, a)) \in Seq(Entries)
  BY <1>1, <1>2, AppendProperties
<1> QED
  BY <1>1, <1>2, <1>3 DEF Recorded

\* A failed attempt to apply leaves the frontend with its command or without.
LEMMA FailedTyped ==
  ASSUME Typed, NEW f \in Frontends, NEW p \in Progress, NEW cause \in {"conflict", "refused", "fault"},
         op[f].command \in Commands, ApplyFailed(f, p, cause)
  PROVE  /\ section' \in Frontends \cup {NoFrontend}
         /\ acked' \subseteq Commands
         /\ op' \in [Frontends -> Operations]
         /\ \A g \in Frontends : op'[g].stage # "idle" => op'[g].command \in Commands
         /\ \A g \in Frontends : g # f => op'[g] = op[g]
<1>1. section' \in Frontends \cup {NoFrontend}
  BY DEF ApplyFailed, Released, Typed, TypeOK
<1>2. PICK R \in SUBSET {Primary, Witness} :
        LET q == Merge(p, Observed(R, op[f].command))
        IN  IF q = "Published" /\ cause # "conflict"
            THEN /\ acked' = acked \cup {op[f].command}
                 /\ op' = [op EXCEPT ![f] = Idle]
            ELSE /\ UNCHANGED acked
                 /\ \E s \in NextStages(q, cause) :
                        op' = [op EXCEPT ![f].stage = s, ![f].progress = q,
                                         ![f].todo = {}]
  BY DEF ApplyFailed
<1> DEFINE q == Merge(p, Observed(R, op[f].command))
<1>3. q \in Progress
  BY MergeTyped, ObservedTyped DEF Progress
<1>4. NextStages(q, cause) \subseteq {"apply", "reissue", "abandon", "check"}
  BY DEF NextStages
<1>5. op \in [Frontends -> Operations] /\ acked \subseteq Commands
  BY DEF Typed, TypeOK
<1> HIDE DEF q
<1>6. CASE q = "Published" /\ cause # "conflict"
  <2>1. acked' = acked \cup {op[f].command} /\ op' = [op EXCEPT ![f] = Idle]
    BY <1>2, <1>6 DEF q
  <2>2. Idle \in Operations /\ Idle.stage = "idle"
    BY DEF Idle, Operations, Stages, Progress
  <2> QED
    BY <1>1, <1>5, <2>1, <2>2 DEF Typed
<1>7. CASE ~(q = "Published" /\ cause # "conflict")
  <2>1. PICK s \in NextStages(q, cause) :
          op' = [op EXCEPT ![f].stage = s, ![f].progress = q, ![f].todo = {}]
    BY <1>2, <1>7 DEF q
  <2>2. acked' = acked
    BY <1>2, <1>7 DEF q
  <2> DEFINE o == [op[f] EXCEPT !.stage = s, !.progress = q, !.todo = {}]
  <2>3. op' = [op EXCEPT ![f] = o]
    BY <1>5, <2>1
  <2>4. o \in Operations /\ o.command = op[f].command
    BY <1>3, <1>4, <1>5 DEF Operations, Stages
  <2> HIDE DEF o
  <2> QED
    BY <1>1, <1>5, <2>2, <2>3, <2>4 DEF Typed
<1> QED
  BY <1>6, <1>7

LEMMA TypedStep == ASSUME Typed, [Next]_vars PROVE Typed'
<1> USE DEF Typed
<1>1. ASSUME NEW f \in Frontends, FrontendStep(f) PROVE Typed'
  <2>0. /\ op \in [Frontends -> Operations] /\ op[f] \in Operations
        /\ Idle \in Operations /\ Idle.stage = "idle"
    BY DEF TypeOK, Idle, Operations, Stages, Progress
  <2>1. ASSUME NEW p \in Payloads, Install(f, p) PROVE Typed'
    <3>1. slot' \in Commands
      <4>1. Len(log[Primary]) + 1 \in Nat \ {0}
        BY NodesAssumption, LenProperties DEF TypeOK
      <4> QED
        BY <2>1, <4>1 DEF Install, Commands
    <3>2. [Idle EXCEPT !.stage = "check", !.command = slot', !.owned = TRUE] \in Operations
      BY <3>1 DEF Idle, Operations, Stages, Progress
    <3> QED
      BY <2>0, <2>1, <3>1, <3>2 DEF Install, TypeOK, Idle
  <2>2. CASE Adopt(f)
    <3>1. [Idle EXCEPT !.stage = "check", !.command = slot] \in Operations /\ slot \in Commands
      BY <2>2 DEF Adopt, TypeOK, Idle, Operations, Stages, Progress
    <3> QED
      BY <2>0, <2>2, <3>1 DEF Adopt, TypeOK, Idle
  <2>3. CASE CheckAbandoned(f)
    BY <2>0, <2>3 DEF CheckAbandoned, TypeOK, Operations, Stages
  <2>4. CASE EnterApply(f)
    <3>0. op[f].command \in Commands
      BY <2>4 DEF EnterApply
    <3>1. PICK R \in SUBSET Nodes :
            LET c == op[f].command
                p == IF op[f].progress = "Abortable" /\ ~op[f].owned
                     THEN Reconstructed(R, c) ELSE op[f].progress
                a == Acceptance(Primary, c, FALSE)
                q == IF a = "AlreadyApplied" THEN "Published" ELSE p
            IN  \/ /\ p = "Unknown"
                   /\ op' = [op EXCEPT ![f] = Idle]
                   /\ UNCHANGED <<section, acked>>
                \/ /\ p # "Unknown"
                   /\ a \in {"Conflict", "Gap"}
                   /\ ApplyFailed(f, p, IF a = "Conflict" THEN "conflict" ELSE "refused")
                \/ /\ p # "Unknown"
                   /\ a = "Apply" /\ p = "Abortable"
                   /\ ApplyFailed(f, p, "refused")
                \/ /\ p # "Unknown"
                   /\ a \in {"Apply", "AlreadyApplied"}
                   /\ section' = f
                   /\ op' = [op EXCEPT ![f].stage = "fanout", ![f].progress = q,
                                       ![f].todo = Nodes]
                   /\ UNCHANGED acked
      BY <2>4 DEF EnterApply
    <3> DEFINE c == op[f].command
               p == IF op[f].progress = "Abortable" /\ ~op[f].owned
                    THEN Reconstructed(R, c) ELSE op[f].progress
               a == Acceptance(Primary, c, FALSE)
               q == IF a = "AlreadyApplied" THEN "Published" ELSE p
    <3>2. p \in Progress \cup {"Unknown"}
      BY <2>0, ReconstructedTyped DEF Operations
    <3>3. UNCHANGED <<log, slot, started, late, issued>>
      BY <2>4 DEF EnterApply
    <3> HIDE DEF p, a
    <3>4. CASE op' = [op EXCEPT ![f] = Idle] /\ UNCHANGED <<section, acked>>
      BY <2>0, <3>3, <3>4 DEF TypeOK
    <3>5. ASSUME NEW cause \in {"conflict", "refused"}, p # "Unknown", ApplyFailed(f, p, cause)
          PROVE  Typed'
      BY <3>0, <3>2, <3>3, <3>5, FailedTyped DEF TypeOK
    <3>6. CASE /\ p # "Unknown" /\ section' = f /\ UNCHANGED acked
               /\ op' = [op EXCEPT ![f].stage = "fanout", ![f].progress = q, ![f].todo = Nodes]
      <4>1. q \in Progress
        BY <3>2, <3>6 DEF Progress
      <4> HIDE DEF q
      <4>2. op' \in [Frontends -> Operations]
        BY <2>0, <3>6, <4>1 DEF Operations, Stages
      <4> QED
        BY <2>0, <3>0, <3>3, <3>6, <4>2 DEF TypeOK, Operations
    <3> QED
      BY <3>1, <3>4, <3>5, <3>6 DEF p, a
  <2>5. CASE AttemptFaults(f)
    <3>1. op[f].command \in Commands /\ op[f].progress \in Progress
      BY <2>0, <2>5 DEF AttemptFaults, Operations
    <3> QED
      BY <2>5, <3>1, FailedTyped DEF AttemptFaults, TypeOK
  <2>6. CASE Mark(f)
    <3>1. op[f].command \in Commands /\ "PublicationUnconfirmed" \in Progress
      BY <2>6 DEF Mark, Progress
    <3>2. started' \in BOOLEAN /\ UNCHANGED <<log, slot, late, issued>>
      BY <2>6 DEF Mark, TypeOK
    <3>3. CASE ApplyFailed(f, "PublicationUnconfirmed", "fault")
      BY <3>1, <3>2, <3>3, FailedTyped DEF TypeOK
    <3>4. CASE op' = [op EXCEPT ![f].progress = "PublicationStarted"] /\ UNCHANGED <<section, acked>>
      BY <2>0, <3>2, <3>4 DEF TypeOK, Operations, Progress
    <3> QED
      BY <2>6, <3>3, <3>4 DEF Mark
  <2>7. ASSUME NEW n \in Nodes, ApplyAt(f, n) PROVE Typed'
    <3>1. op[f].command \in Commands /\ op[f].progress \in Progress
      BY <2>0, <2>7 DEF ApplyAt, Operations
    <3>2. log' \in [Nodes -> Seq(Entries)]
      BY <2>7, <3>1, RecordedTyped DEF ApplyAt
    <3>3. AppliedAt(n, op[f].progress) \in Progress
      BY <3>1, MergeTyped DEF AppliedAt, Progress
    <3> QED
      BY <2>0, <2>7, <3>2, <3>3 DEF ApplyAt, TypeOK, Operations
  <2>8. ASSUME NEW n \in Nodes, RefusedAt(f, n) PROVE Typed'
    <3>1. op[f].command \in Commands /\ op[f].progress \in Progress
      BY <2>0, <2>8 DEF RefusedAt, Operations
    <3> QED
      BY <2>8, <3>1, FailedTyped DEF RefusedAt, TypeOK
  <2>9. ASSUME NEW n \in Nodes, ApplyLost(f, n) PROVE Typed'
    <3>1. op[f].command \in Commands /\ op[f].progress \in Progress
      BY <2>0, <2>9 DEF ApplyLost, Operations
    <3>2. log' \in [Nodes -> Seq(Entries)]
      <4>1. log' = log \/ log' = Recorded(n, op[f].command, FALSE)
        BY <2>9 DEF ApplyLost
      <4> QED
        BY <3>1, <4>1, RecordedTyped, ZenonT(40) DEF TypeOK
    <3>3. late' \subseteq Requests
      <4>1. [node |-> n, command |-> op[f].command, abandoned |-> FALSE] \in Requests
        BY <3>1 DEF Requests
      <4> QED
        BY <2>9, <4>1 DEF ApplyLost, TypeOK
    <3>4. PICK p \in Progress : ApplyFailed(f, p, "fault")
      BY <2>9, <3>1, MergeTyped DEF ApplyLost, Progress
    <3> QED
      BY <2>9, <3>1, <3>2, <3>3, <3>4, FailedTyped DEF ApplyLost, TypeOK
  <2>10. CASE Converge(f)
    BY <2>0, <2>10 DEF Converge, Released, TypeOK, Operations, Stages
  <2>11. CASE EnterAbandon(f)
    <3>1. CASE op' = [op EXCEPT ![f] = Idle] /\ UNCHANGED section
      BY <2>0, <2>11, <3>1 DEF EnterAbandon, TypeOK
    <3>2. CASE section' = f /\ op' = [op EXCEPT ![f].stage = "tombstone", ![f].todo = Nodes]
      BY <2>0, <2>11, <3>2 DEF EnterAbandon, TypeOK, Operations, Stages
    <3> QED
      BY <2>11, <3>1, <3>2 DEF EnterAbandon
  <2>12. ASSUME NEW n \in Nodes, TombstoneAt(f, n) PROVE Typed'
    <3>1. op[f].command \in Commands
      BY <2>12 DEF TombstoneAt
    <3>2. log' \in [Nodes -> Seq(Entries)]
      BY <2>12, <3>1, RecordedTyped DEF TombstoneAt
    <3> QED
      BY <2>0, <2>12, <3>2 DEF TombstoneAt, TypeOK, Operations
  <2>13. ASSUME NEW n \in Nodes, TombstoneLost(f, n) PROVE Typed'
    <3>1. op[f].command \in Commands
      BY <2>13 DEF TombstoneLost
    <3>2. log' \in [Nodes -> Seq(Entries)]
      <4>1. log' = log \/ log' = Recorded(n, op[f].command, TRUE)
        BY <2>13 DEF TombstoneLost
      <4> QED
        BY <3>1, <4>1, RecordedTyped, ZenonT(40) DEF TypeOK
    <3>3. late' \subseteq Requests
      <4>1. [node |-> n, command |-> op[f].command, abandoned |-> TRUE] \in Requests
        BY <3>1 DEF Requests
      <4> QED
        BY <2>13, <4>1 DEF TombstoneLost, TypeOK
    <3> QED
      BY <2>0, <2>13, <3>2, <3>3 DEF TombstoneLost, TypeOK, Released
  <2>14. CASE AbandonDone(f)
    BY <2>0, <2>14 DEF AbandonDone, Released, TypeOK, Operations, Stages
  <2>15. CASE RemoveSlot(f)
    BY <2>0, <2>15 DEF RemoveSlot, TypeOK
  <2>16. CASE Reissue(f)
    <3> DEFINE c == op[f].command
               tip == Len(log[Primary])
               next == (IF tip < c.index THEN c.index ELSE tip) + 1
    <3>1. c \in Commands /\ tip \in Nat
      BY <2>16, NodesAssumption, LenProperties DEF Reissue, TypeOK
    <3>2. [c EXCEPT !.index = next] \in Commands
      BY <3>1 DEF Commands
    <3> HIDE DEF next, tip
    <3>3. CASE op' = [op EXCEPT ![f] = Idle] /\ (slot' = [c EXCEPT !.index = next] \/ slot' = slot)
               /\ UNCHANGED started
      BY <2>0, <2>16, <3>2, <3>3 DEF Reissue, TypeOK
    <3>4. CASE /\ slot' = [c EXCEPT !.index = next] /\ UNCHANGED started
               /\ op' = [op EXCEPT ![f].stage = "check", ![f].command = slot',
                                   ![f].progress = "Abortable", ![f].owned = TRUE]
      BY <2>0, <2>16, <3>2, <3>4 DEF Reissue, TypeOK, Operations, Stages, Progress
    <3>5. CASE /\ slot.payload = c.payload /\ UNCHANGED <<slot, started>>
               /\ op' = [op EXCEPT ![f].stage = "reload", ![f].command = slot]
      <4>1. slot \in Commands
        BY <3>1, <3>5, NamesAssumption DEF TypeOK, NoCommand, Commands
      <4> QED
        BY <2>0, <2>16, <3>5, <4>1 DEF Reissue, TypeOK, Operations, Stages
    <3> QED
      BY <2>16, <3>3, <3>4, <3>5 DEF Reissue, next, tip
  <2>17. CASE Reload(f)
    <3>1. CASE op' = [op EXCEPT ![f] = Idle]
      BY <2>0, <2>17, <3>1 DEF Reload, TypeOK
    <3> DEFINE o == [op[f] EXCEPT !.stage = "check", !.progress = "Abortable", !.owned = TRUE]
    <3>2. CASE op' = [op EXCEPT ![f] = o]
      <4>1. o \in Operations /\ o.command \in Commands
        BY <2>0, <2>17 DEF Reload, Operations, Stages, Progress
      <4> HIDE DEF o
      <4> QED
        BY <2>0, <2>17, <3>2, <4>1 DEF Reload, TypeOK
    <3> QED
      BY <2>17, <3>1, <3>2 DEF Reload
  <2>18. CASE Leave(f)
    BY <2>0, <2>18 DEF Leave, Released, TypeOK
  <2> QED
    BY <1>1, <2>1, <2>2, <2>3, <2>4, <2>5, <2>6, <2>7, <2>8, <2>9, <2>10, <2>11, <2>12,
       <2>13, <2>14, <2>15, <2>16, <2>17, <2>18 DEF FrontendStep
<1>2. CASE LoseSection \/ UNCHANGED vars
  BY <1>2 DEF LoseSection, vars, TypeOK
<1>3. ASSUME NEW q \in late, ExecuteLate(q) \/ DropLate(q) PROVE Typed'
  <2>1. q.node \in Nodes /\ q.command \in Commands /\ q.abandoned \in BOOLEAN
    BY DEF TypeOK, Requests
  <2>2. Recorded(q.node, q.command, q.abandoned) \in [Nodes -> Seq(Entries)]
    BY <2>1, RecordedTyped
  <2> QED
    BY <1>3, <2>2 DEF ExecuteLate, DropLate, TypeOK
<1> QED
  BY <1>1, <1>2, <1>3 DEF Next

-----------------------------------------------------------------------------
(***************************************************************************)
(* Logs and the stream.                                                    *)
(***************************************************************************)

\* The answers of a node to a request to record the end of a command.
LEMMA Answers ==
  Typed => \A n \in Nodes, c \in Commands, a \in BOOLEAN :
    /\ Len(log[n]) \in Nat /\ c.index \in Nat \ {0}
    /\ Acceptance(n, c, a) = "Apply" <=> c.index = Len(log[n]) + 1
    /\ Acceptance(n, c, a) = "AlreadyApplied"
         <=> c.index <= Len(log[n]) /\ log[n][c.index] = Entry(c, a)
    /\ Acceptance(n, c, a) = "Conflict"
         <=> c.index <= Len(log[n]) /\ log[n][c.index] # Entry(c, a)
<1> SUFFICES ASSUME Typed, NEW n \in Nodes, NEW c \in Commands, NEW a \in BOOLEAN
             PROVE  /\ Len(log[n]) \in Nat /\ c.index \in Nat \ {0}
                    /\ Acceptance(n, c, a) = "Apply" <=> c.index = Len(log[n]) + 1
                    /\ Acceptance(n, c, a) = "AlreadyApplied"
                         <=> c.index <= Len(log[n]) /\ log[n][c.index] = Entry(c, a)
                    /\ Acceptance(n, c, a) = "Conflict"
                         <=> c.index <= Len(log[n]) /\ log[n][c.index] # Entry(c, a)
  OBVIOUS
<1>1. Len(log[n]) \in Nat /\ c.index \in Nat \ {0}
  BY LenProperties DEF Typed, TypeOK, Commands
<1> QED
  BY <1>1 DEF Acceptance

LEMMA ExactMeans ==
  Typed => \A n \in Nodes, c \in Commands :
    Exact(n, c) <=> c.index \in 1..Len(log[n]) /\ log[n][c.index] = Entry(c, FALSE)
<1> SUFFICES ASSUME Typed, NEW n \in Nodes, NEW c \in Commands
             PROVE  Exact(n, c) <=> c.index \in 1..Len(log[n]) /\ log[n][c.index] = Entry(c, FALSE)
  OBVIOUS
<1>1. Len(log[n]) \in Nat /\ c.index \in Nat \ {0}
  BY Answers
<1>2. Exact(n, c) <=> c.index <= Len(log[n]) /\ log[n][c.index] = Entry(c, FALSE)
  BY Answers DEF Exact
<1>3. c.index \in 1..Len(log[n]) <=> c.index <= Len(log[n])
  BY <1>1
<1> QED
  BY <1>2, <1>3

LEMMA Appended ==
  ASSUME NEW q \in Seq(Entries), NEW e \in Entries
  PROVE  /\ Len(q) \in Nat /\ Append(q, e) \in Seq(Entries)
         /\ Len(Append(q, e)) = Len(q) + 1 /\ Append(q, e)[Len(q) + 1] = e
         /\ \A i \in 1..Len(q) : Append(q, e)[i] = q[i]
BY AppendProperties, LenProperties

\* The stream is what the primary holds, and at most one entry more.
LEMMA StreamShape ==
  Typed =>
    /\ Decided \in Seq(Entries) /\ Len(Decided) \in Nat /\ Len(log[Primary]) \in Nat
    /\ \/ Decided = log[Primary] /\ ~(started /\ slot.index = Len(log[Primary]) + 1)
       \/ /\ started /\ slot \in Commands /\ slot.index = Len(log[Primary]) + 1
          /\ Decided = Append(log[Primary], Entry(slot, FALSE))
          /\ Len(Decided) = Len(log[Primary]) + 1
          /\ Decided[Len(log[Primary]) + 1] = Entry(slot, FALSE)
          /\ \A i \in 1..Len(log[Primary]) : Decided[i] = log[Primary][i]
<1> SUFFICES ASSUME Typed
             PROVE  /\ Decided \in Seq(Entries) /\ Len(Decided) \in Nat /\ Len(log[Primary]) \in Nat
                    /\ \/ Decided = log[Primary] /\ ~(started /\ slot.index = Len(log[Primary]) + 1)
                       \/ /\ started /\ slot \in Commands /\ slot.index = Len(log[Primary]) + 1
                          /\ Decided = Append(log[Primary], Entry(slot, FALSE))
                          /\ Len(Decided) = Len(log[Primary]) + 1
                          /\ Decided[Len(log[Primary]) + 1] = Entry(slot, FALSE)
                          /\ \A i \in 1..Len(log[Primary]) : Decided[i] = log[Primary][i]
  OBVIOUS
<1>1. log[Primary] \in Seq(Entries) /\ Len(log[Primary]) \in Nat
  BY NodesAssumption, LenProperties DEF Typed, TypeOK
<1>2. CASE started /\ slot.index = Len(log[Primary]) + 1
  <2>1. slot \in Commands
    BY <1>1, <1>2 DEF Typed, TypeOK, NoCommand
  <2>2. Entry(slot, FALSE) \in Entries
    BY <2>1 DEF Entry, Entries, Commands
  <2> DEFINE e == Entry(slot, FALSE)  q == log[Primary]  d == Append(q, e)
  <2>3. Decided = d
    BY <1>2 DEF Decided
  <2>4. q \in Seq(Entries) /\ e \in Entries
    BY <1>1, <2>2
  <2> HIDE DEF e, q
  <2>5. /\ d \in Seq(Entries) /\ Len(d) = Len(q) + 1 /\ d[Len(q) + 1] = e
        /\ \A i \in 1..Len(q) : d[i] = q[i]
    BY <2>4, Appended
  <2> HIDE DEF d
  <2>6. Len(d) \in Nat
    BY <2>5, LenProperties
  <2> QED
    BY <1>1, <1>2, <2>1, <2>3, <2>5, <2>6 DEF e, q, d
<1>3. CASE ~(started /\ slot.index = Len(log[Primary]) + 1)
  BY <1>1, <1>3 DEF Decided
<1> QED
  BY <1>2, <1>3

\* A node that records an entry the stream settles copies it.
LEMMA Copies ==
  ASSUME Inv, NEW n \in Nodes, NEW c \in Commands, NEW a \in BOOLEAN,
         Acceptance(n, c, a) = "Apply" => Settled(c, a),
         log' = Recorded(n, c, a), UNCHANGED <<slot, started>>, Typed'
  PROVE  Decided' = Decided /\ (log' = log \/ Stream!Learn(n))
<1> USE DEF Inv
<1>1. CASE Acceptance(n, c, a) # "Apply"
  BY <1>1 DEF Recorded, Decided
<1>2. CASE Acceptance(n, c, a) = "Apply"
  <2>1. /\ Len(log[n]) \in Nat /\ c.index = Len(log[n]) + 1
        /\ log \in [Nodes -> Seq(Entries)] /\ Entry(c, a) \in Entries
    BY <1>2, Answers, RecordedTyped DEF Typed, TypeOK
  <2>2. c.index <= Len(Decided) /\ Decided[c.index] = Entry(c, a)
    BY <1>2 DEF Settled
  <2>3. log' = [log EXCEPT ![n] = Append(log[n], Decided[Len(log[n]) + 1])]
    BY <1>2, <2>1, <2>2 DEF Recorded
  <2>4. Len(log[n]) < Len(Decided)
    BY <2>1, <2>2, StreamShape
  <2>5. Decided' = Decided
    <3>1. CASE n # Primary
      BY <2>1, <2>3, <3>1, NodesAssumption DEF Decided
    <3>2. CASE n = Primary
      <4>1. /\ started /\ slot.index = Len(log[Primary]) + 1
            /\ Decided = Append(log[Primary], Entry(slot, FALSE))
            /\ Len(Decided) = Len(log[Primary]) + 1
            /\ Decided[Len(log[Primary]) + 1] = Entry(slot, FALSE)
        <5>1. Decided # log[Primary]
          BY <2>4, <3>2, <2>1
        <5> QED
          BY <5>1, StreamShape
      <4>2. log'[Primary] = Decided
        BY <2>1, <2>3, <3>2, <4>1
      <4>3. slot'.index # Len(log'[Primary]) + 1
        BY <2>1, <3>2, <4>1, <4>2
      <4> QED
        BY <4>2, <4>3 DEF Decided
    <3> QED
      BY <3>1, <3>2
  <2> QED
    BY <2>3, <2>4, <2>5 DEF Stream!Learn
<1> QED
  BY <1>1, <1>2

\* The primary records a tombstone for a command that is not marked.
LEMMA PrimaryAbandons ==
  ASSUME Inv, NEW f \in Frontends, op[f].stage = "tombstone", Primary \in op[f].todo,
         section = f, log' = Recorded(Primary, op[f].command, TRUE),
         UNCHANGED <<slot, started>>, Typed'
  PROVE  \/ Decided' = Decided /\ log' = log
         \/ /\ Stream!DecideAt(Primary) /\ op[f].command = slot /\ ~started
            /\ log' = [log EXCEPT ![Primary] = Append(log[Primary], Entry(slot, TRUE))]
<1> DEFINE c == op[f].command
<1> USE NodesAssumption DEF Inv
<1>0. c \in Commands /\ log \in [Nodes -> Seq(Entries)]
  BY DEF Typed, TypeOK
<1>1. CASE Acceptance(Primary, c, TRUE) # "Apply"
  BY <1>1 DEF Recorded, Decided
<1>2. CASE Acceptance(Primary, c, TRUE) = "Apply"
  <2>1. Len(log[Primary]) \in Nat /\ c.index = Len(log[Primary]) + 1
    BY <1>0, <1>2, Answers
  <2>2. c = slot
    <3>1. Current(c)
      BY DEF OpInv, OpOK
    <3> QED
      BY <1>0, <2>1, <3>1 DEF Current
  <2>3. ~started
    BY <2>2 DEF OpInv, OpOK
  <2>4. Decided = log[Primary]
    BY <2>3, StreamShape
  <2>5. Entry(slot, TRUE) \in Entries
    BY <1>0, <2>2, RecordedTyped
  <2>6. log' = [log EXCEPT ![Primary] = Append(log[Primary], Entry(slot, TRUE))]
    BY <1>2, <2>2 DEF Recorded
  <2>7. Decided' = log'[Primary]
    BY <2>3 DEF Decided
  <2>8. Decided' = Append(Decided, Entry(slot, TRUE))
    BY <1>0, <2>4, <2>6, <2>7
  <2>9. Entry(slot, TRUE).abandoned
    BY DEF Entry
  <2>10. Stream!MayFollow(Entry(slot, TRUE))
    BY <2>9 DEF Stream!MayFollow
  <2>11. Stream!DecideAt(Primary)
    BY <2>4, <2>5, <2>6, <2>8, <2>10 DEF Stream!DecideAt, Stream!Entries, Entries
  <2> QED
    BY <2>2, <2>3, <2>6, <2>11
<1> QED
  BY <1>1, <1>2

\* A mark decides the command of the slot, unless it is decided.
LEMMA MarkDecides ==
  ASSUME Inv, ~MarkMayVanish, NEW f \in Frontends, Mark(f)
  PROVE  /\ log' = log /\ slot' = slot /\ started' /\ section = f /\ op[f].command = slot
         /\ Decided' = Decided \/ (~started /\ Stream!Decide)
         /\ Settled(slot, FALSE)'
<1> USE NodesAssumption DEF Inv
<1>1. /\ log' = log /\ slot' = slot /\ started' /\ section = f /\ op[f].command = slot
      /\ Acceptance(Primary, slot, FALSE) \in {"Apply", "AlreadyApplied"} /\ slot \in Commands
  BY DEF Mark, Markable, Typed, TypeOK
<1>2. Typed'
  BY TypedStep DEF Next, FrontendStep
<1>3. CASE started
  <2>1. Decided' = Decided
    BY <1>1, <1>3 DEF Decided
  <2> QED
    BY <1>1, <1>3, <2>1 DEF SlotInv, Settled
<1>4. CASE ~started
  <2>1. Decided = log[Primary] /\ Len(log[Primary]) \in Nat /\ slot.index \in Nat
    BY <1>1, <1>4, StreamShape, Answers
  <2>2. CASE Acceptance(Primary, slot, FALSE) = "AlreadyApplied"
    <3>1. slot.index <= Len(log[Primary]) /\ log[Primary][slot.index] = Entry(slot, FALSE)
      BY <1>1, <2>2, Answers
    <3>2. Decided' = Decided
      <4>1. slot'.index # Len(log'[Primary]) + 1
        BY <1>1, <2>1, <3>1
      <4> QED
        BY <1>1, <1>4, <4>1 DEF Decided
    <3> QED
      BY <1>1, <2>1, <3>1, <3>2 DEF Settled
  <2>3. CASE Acceptance(Primary, slot, FALSE) = "Apply"
    <3>1. slot.index = Len(log[Primary]) + 1
      BY <1>1, <2>3, Answers
    <3>2. Decided' = Append(Decided, Entry(slot, FALSE)) /\ Entry(slot, FALSE) \in Entries
      BY <1>1, <2>1, <3>1, RecordedTyped DEF Decided
    <3>3. Stream!MayFollow(Entry(slot, FALSE))
      BY <1>1, <1>4, <2>1 DEF SlotInv, Stream!MayFollow
    <3>4. Decided'[slot.index] = Entry(slot, FALSE) /\ Len(Decided') = Len(Decided) + 1
      <4> DEFINE e == Entry(slot, FALSE)
      <4> HIDE DEF e
      <4>1. Decided \in Seq(Entries)
        BY StreamShape
      <4>2. /\ Len(Append(Decided, e)) = Len(Decided) + 1
            /\ Append(Decided, e)[Len(Decided) + 1] = e
        BY <3>2, <4>1, AppendProperties DEF e
      <4> QED
        BY <2>1, <3>1, <3>2, <4>2 DEF e
    <3>5. Settled(slot, FALSE)'
      BY <1>1, <2>1, <3>1, <3>4 DEF Settled
    <3>6. Stream!Decide
      BY <1>1, <3>2, <3>3 DEF Stream!Decide, Stream!Entries, Entries
    <3> QED
      BY <1>1, <1>4, <3>5, <3>6
  <2> QED
    BY <1>1, <2>2, <2>3
<1> QED
  BY <1>3, <1>4

-----------------------------------------------------------------------------
(***************************************************************************)
(* What a step does to the logs and the slot.                              *)
(***************************************************************************)

Copy(n, c, a) ==
  /\ log' = Recorded(n, c, a) /\ UNCHANGED <<slot, started, issued>>
  /\ Acceptance(n, c, a) = "Apply" => Settled(c, a)
  /\ n = Primary => ~a /\ Exact(Witness, c)

AbandonOnPrimary(f) ==
  /\ op[f].stage = "tombstone" /\ Primary \in op[f].todo /\ section = f
  /\ log' = Recorded(Primary, op[f].command, TRUE) /\ UNCHANGED <<slot, started, issued>>

MoveSlot(f) == (\E p \in Payloads : Install(f, p)) \/ RemoveSlot(f) \/ Reissue(f)

Effect ==
  \/ UNCHANGED <<log, slot, started, issued>>
  \/ \E n \in Nodes, c \in Commands, a \in BOOLEAN : Copy(n, c, a)
  \/ \E f \in Frontends : AbandonOnPrimary(f) \/ Mark(f) \/ MoveSlot(f)

LEMMA Effects == ASSUME Inv, [Next]_vars PROVE Effect
<1> USE DEF Inv
<1>1. ASSUME NEW f \in Frontends, FrontendStep(f) PROVE Effect
  <2> DEFINE c == op[f].command
  <2>0. /\ op[f].stage # "idle" => c \in Commands
        /\ op[f].progress # "Abortable" => Settled(c, FALSE)
        /\ op[f].stage = "fanout" => \A n \in Nodes \ op[f].todo : Exact(n, c)
        /\ op[f].stage = "tombstone" /\ Primary \notin op[f].todo => Settled(c, TRUE)
    BY DEF Typed, OpInv, OpOK, Knows
  <2>1. CASE MoveSlot(f) \/ Mark(f)
    BY <2>1 DEF Effect
  <2>2. CASE Adopt(f) \/ CheckAbandoned(f) \/ EnterApply(f) \/ AttemptFaults(f) \/ Converge(f)
             \/ EnterAbandon(f) \/ AbandonDone(f) \/ Reload(f) \/ Leave(f)
    BY <2>2 DEF Adopt, CheckAbandoned, EnterApply, AttemptFaults, Converge, EnterAbandon,
                AbandonDone, Reload, Leave, Effect
  <2>3. ASSUME NEW n \in Nodes, ApplyAt(f, n) \/ ApplyLost(f, n) PROVE Effect
    <3>1. c \in Commands /\ op[f].stage = "fanout" /\ UNCHANGED <<slot, started, issued>>
      BY <2>0, <2>3 DEF ApplyAt, ApplyLost
    <3>2. CASE log' = log
      BY <3>1, <3>2 DEF Effect
    <3>3. CASE log' = Recorded(n, c, FALSE)
      <4>1. Acceptance(n, c, FALSE) = "Apply" => op[f].progress # "Abortable"
        BY <2>3 DEF ApplyAt, ApplyLost
      <4>2. n = Primary => Witness \in Nodes \ op[f].todo
        BY <2>3, NodesAssumption DEF ApplyAt, ApplyLost, FirstToApply
      <4>3. Copy(n, c, FALSE)
        BY <2>0, <3>1, <3>3, <4>1, <4>2 DEF Copy
      <4> QED
        BY <3>1, <4>3 DEF Effect
    <3> QED
      BY <2>3, <3>2, <3>3 DEF ApplyAt, ApplyLost
  <2>4. ASSUME NEW n \in Nodes, RefusedAt(f, n) PROVE Effect
    BY <2>4 DEF RefusedAt, Effect
  <2>5. ASSUME NEW n \in Nodes, TombstoneAt(f, n) \/ TombstoneLost(f, n) PROVE Effect
    <3>1. /\ c \in Commands /\ op[f].stage = "tombstone" /\ UNCHANGED <<slot, started, issued>>
          /\ n \in op[f].todo /\ (n # Primary => Primary \notin op[f].todo)
          /\ n = Primary => section = f /\ log' = Recorded(n, c, TRUE)
      BY <2>0, <2>5 DEF TombstoneAt, TombstoneLost, FirstToAbandon
    <3>2. CASE log' = log
      BY <3>1, <3>2 DEF Effect
    <3>3. CASE log' = Recorded(n, c, TRUE)
      <4>1. CASE n = Primary
        BY <3>1, <4>1 DEF AbandonOnPrimary, Effect
      <4>2. CASE n # Primary
        <5>1. Copy(n, c, TRUE)
          BY <2>0, <3>1, <3>3, <4>2 DEF Copy
        <5> QED
          BY <3>1, <5>1 DEF Effect
      <4> QED
        BY <4>1, <4>2
    <3> QED
      BY <2>5, <3>2, <3>3 DEF TombstoneAt, TombstoneLost
  <2> QED
    BY <1>1, <2>1, <2>2, <2>3, <2>4, <2>5 DEF FrontendStep, MoveSlot
<1>2. CASE LoseSection \/ UNCHANGED vars
  BY <1>2 DEF LoseSection, vars, Effect
<1>3. ASSUME NEW q \in late, ExecuteLate(q) \/ DropLate(q) PROVE Effect
  <2>1. /\ q.node \in Nodes /\ q.command \in Commands /\ q.abandoned \in BOOLEAN
        /\ q.node # Primary /\ Settled(q.command, q.abandoned)
    BY DEF Typed, TypeOK, Requests, LateInv
  <2>2. CASE DropLate(q)
    BY <2>2 DEF DropLate, Effect
  <2>3. CASE ExecuteLate(q)
    <3>1. Copy(q.node, q.command, q.abandoned)
      BY <2>1, <2>3 DEF ExecuteLate, Copy
    <3> QED
      BY <2>1, <3>1 DEF Effect
  <2> QED
    BY <1>3, <2>2, <2>3
<1> QED
  BY <1>1, <1>2, <1>3 DEF Next

\* The slot is filled, emptied or moved while nobody is in the section, and
\* its command leaves it when the primary has its index.
LEMMA SlotMoves ==
  ASSUME Inv, NEW f \in Frontends, MoveSlot(f)
  PROVE  /\ log' = log /\ Decided' = Decided /\ section = NoFrontend
         /\ \/ slot' = slot /\ started' = started
            \/ ~started' /\ (slot \in Commands => slot.index <= Len(log[Primary]))
<1> USE DEF Inv
<1>0. Len(log[Primary]) \in Nat /\ NoCommand \notin Commands
  BY StreamShape, NoCommandIsNone
<1>1. ASSUME NEW p \in Payloads, Install(f, p)
      PROVE  log' = log /\ Decided' = Decided /\ section = NoFrontend /\ slot = NoCommand /\ ~started' /\ ~started
  BY <1>0, <1>1 DEF Install, Decided, SlotInv
<1>2. CASE RemoveSlot(f)
  <2>1. CASE slot = op[f].command /\ (Exact(Primary, slot) \/ Abandoned(Primary, slot))
    <3>1. slot \in Commands
      BY <1>2, <2>1 DEF RemoveSlot, Typed
    <3>2. slot.index <= Len(log[Primary]) /\ slot.index \in Nat
      BY <2>1, <3>1, Answers, NodesAssumption DEF Exact, Abandoned
    <3>3. log' = log /\ section = NoFrontend /\ ~started'
      BY <1>2, <2>1 DEF RemoveSlot
    <3>4. slot.index # Len(log[Primary]) + 1
      BY <1>0, <3>2
    <3>5. Decided = log[Primary] /\ Decided' = log[Primary]
      BY <3>3, <3>4 DEF Decided
    <3> QED
      BY <3>2, <3>3, <3>5
  <2>2. CASE ~(slot = op[f].command /\ (Exact(Primary, slot) \/ Abandoned(Primary, slot)))
    BY <1>2, <2>2 DEF RemoveSlot, Decided
  <2> QED
    BY <2>1, <2>2
<1>3. CASE Reissue(f)
  <2>1. /\ log' = log /\ started' = started /\ section = NoFrontend
        /\ slot' = slot \/ (slot = op[f].command /\ ~started)
    BY <1>3 DEF Reissue
  <2>2. CASE slot' = slot
    BY <2>1, <2>2 DEF Decided
  <2>3. CASE slot = op[f].command /\ ~started
    <3>1. Decided = log[Primary] /\ Decided' = Decided
      BY <2>1, <2>3 DEF Decided
    <3>2. Overtaken(op[f].command)
      BY <1>3 DEF Reissue, OpInv, OpOK
    <3> QED
      BY <2>1, <2>3, <3>1, <3>2 DEF Overtaken
  <2> QED
    BY <2>1, <2>2, <2>3
<1> QED
  BY <1>0, <1>1, <1>2, <1>3 DEF MoveSlot

\* Every step is a step of the stream, or does not touch it.
LEMMA StreamStep ==
  ASSUME Inv, ~MarkMayVanish, [Next]_vars
  PROVE  Stream!Next \/ UNCHANGED <<Decided, log>>
<1>0. Effect /\ Typed'
  BY Effects, TypedStep DEF Inv
<1>1. CASE UNCHANGED <<log, slot, started, issued>>
  BY <1>1 DEF Decided
<1>2. ASSUME NEW n \in Nodes, NEW c \in Commands, NEW a \in BOOLEAN, Copy(n, c, a)
      PROVE  Stream!Next \/ UNCHANGED <<Decided, log>>
  BY <1>0, <1>2, Copies DEF Copy, Stream!Next
<1>3. ASSUME NEW f \in Frontends, AbandonOnPrimary(f)
      PROVE  Stream!Next \/ UNCHANGED <<Decided, log>>
  BY <1>0, <1>3, PrimaryAbandons, NodesAssumption DEF AbandonOnPrimary, Stream!Next
<1>4. ASSUME NEW f \in Frontends, Mark(f) PROVE Stream!Next \/ UNCHANGED <<Decided, log>>
  BY <1>4, MarkDecides DEF Stream!Next
<1>5. ASSUME NEW f \in Frontends, MoveSlot(f) PROVE Stream!Next \/ UNCHANGED <<Decided, log>>
  BY <1>5, SlotMoves
<1> QED
  BY <1>0, <1>1, <1>2, <1>3, <1>4, <1>5 DEF Effect

-----------------------------------------------------------------------------
(***************************************************************************)
(* What lasts: entries, settled ends and applied commands.                 *)
(***************************************************************************)

Grows ==
  /\ Len(Decided') \in Nat /\ Len(Decided) <= Len(Decided')
  /\ \A i \in 1..Len(Decided) : Decided'[i] = Decided[i]
  /\ \A n \in Nodes : /\ Len(log[n]) <= Len(log'[n])
                      /\ \A i \in 1..Len(log[n]) : log'[n][i] = log[n][i]

LEMMA GrowsStep ==
  ASSUME Inv, Typed', Stream!Next \/ UNCHANGED <<Decided, log>>
  PROVE  Grows /\ Prefixes'
<1> USE DEF Inv
<1>0. /\ log \in [Nodes -> Seq(Entries)] /\ Decided \in Seq(Entries) /\ Len(Decided) \in Nat
      /\ \A n \in Nodes : log[n] \in Seq(Entries) /\ Len(log[n]) \in Nat
  BY StreamShape, LenProperties DEF Typed, TypeOK
<1>1. CASE UNCHANGED <<Decided, log>>
  BY <1>0, <1>1 DEF Grows, Prefixes
<1>2. CASE Stream!Decide
  <2>1. PICK e \in Entries : Decided' = Append(Decided, e) /\ log' = log
    BY <1>2 DEF Stream!Decide, Stream!Entries, Entries
  <2>2. /\ Len(Decided') = Len(Decided) + 1
        /\ \A i \in 1..Len(Decided) : Decided'[i] = Decided[i]
    BY <1>0, <2>1, Appended
  <2> QED
    BY <1>0, <2>1, <2>2 DEF Grows, Prefixes
<1>3. ASSUME NEW n \in Nodes, Stream!DecideAt(n) PROVE Grows /\ Prefixes'
  <2>1. PICK e \in Entries : /\ Decided' = Append(Decided, e) /\ log[n] = Decided
                             /\ log' = [log EXCEPT ![n] = Append(log[n], e)]
    BY <1>3 DEF Stream!DecideAt, Stream!Entries, Entries
  <2>2. /\ Len(Decided') = Len(Decided) + 1
        /\ \A i \in 1..Len(Decided) : Decided'[i] = Decided[i]
    BY <1>0, <2>1, Appended
  <2>3. log'[n] = Decided' /\ \A m \in Nodes : m # n => log'[m] = log[m]
    BY <1>0, <2>1
  <2> QED
    BY <1>0, <2>1, <2>2, <2>3 DEF Grows, Prefixes
<1>4. ASSUME NEW n \in Nodes, Stream!Learn(n) PROVE Grows /\ Prefixes'
  <2> DEFINE e == Decided[Len(log[n]) + 1]
  <2>1. /\ Decided' = Decided /\ Len(log[n]) < Len(Decided)
        /\ log' = [log EXCEPT ![n] = Append(log[n], e)]
    BY <1>4 DEF Stream!Learn
  <2>2. e \in Entries
    BY <1>0, <2>1, ElementOfSeq
  <2>3. log'[n] = Append(log[n], e) /\ \A m \in Nodes : m # n => log'[m] = log[m]
    BY <1>0, <2>1
  <2>4. /\ Len(log'[n]) = Len(log[n]) + 1 /\ log'[n][Len(log[n]) + 1] = e
        /\ \A i \in 1..Len(log[n]) : log'[n][i] = log[n][i]
    BY <1>0, <2>2, <2>3, Appended
  <2>5. /\ Len(log'[n]) <= Len(Decided')
        /\ \A i \in 1..Len(log'[n]) : log'[n][i] = Decided'[i]
    BY <1>0, <2>1, <2>4 DEF Prefixes
  <2> HIDE DEF e
  <2>6. Grows
    BY <1>0, <2>1, <2>3, <2>4 DEF Grows
  <2>7. Prefixes'
    BY <1>0, <2>1, <2>3, <2>5 DEF Prefixes
  <2> QED
    BY <2>6, <2>7
<1> QED
  BY <1>1, <1>2, <1>3, <1>4 DEF Stream!Next

LEMMA SettledLasts ==
  ASSUME Typed, Typed', Grows
  PROVE  \A c \in Commands, a \in BOOLEAN : Settled(c, a) => Settled(c, a)'
<1>1. Len(Decided) \in Nat /\ (\A c \in Commands : c.index \in Nat \ {0})
  BY StreamShape DEF Commands
<1> QED
  BY <1>1 DEF Settled, Grows, Entry

LEMMA OvertakenLasts ==
  ASSUME Typed, Typed', Grows
  PROVE  \A c \in Commands : Overtaken(c) => Overtaken(c)'
<1>1. Len(Decided) \in Nat /\ (\A c \in Commands : c.index \in Nat \ {0})
  BY StreamShape DEF Commands
<1> QED
  BY <1>1 DEF Overtaken, Grows, Entry

LEMMA ExactLasts ==
  ASSUME Typed, Typed', Grows
  PROVE  \A n \in Nodes, c \in Commands : Exact(n, c) => Exact(n, c)'
<1>1. /\ \A n \in Nodes : Len(log[n]) \in Nat /\ Len(log'[n]) \in Nat
      /\ \A c \in Commands : c.index \in Nat \ {0}
  BY LenProperties DEF Typed, TypeOK, Commands
<1>2. ASSUME NEW n \in Nodes, NEW c \in Commands, Exact(n, c) PROVE Exact(n, c)'
  <2>1. c.index \in 1..Len(log[n]) /\ log[n][c.index] = Entry(c, FALSE)
    BY <1>2, ExactMeans
  <2>2. c.index \in 1..Len(log'[n]) /\ log'[n][c.index] = Entry(c, FALSE)
    <3>1. Len(log[n]) <= Len(log'[n]) /\ log'[n][c.index] = log[n][c.index]
      BY <2>1 DEF Grows
    <3> QED
      BY <1>1, <2>1, <3>1
  <2>3. Entry(c, FALSE)' = Entry(c, FALSE)
    BY DEF Entry
  <2> QED
    BY <1>1, <2>2, <2>3 DEF Exact, Acceptance
<1> QED
  BY <1>2

LEMMA KnowsLasts ==
  ASSUME Typed, Typed', Grows
  PROVE  \A c \in Commands, p \in Progress : Knows(c, p) => Knows(c, p)'
BY SettledLasts, ExactLasts, NodesAssumption DEF Knows

LEMMA CurrentLasts ==
  ASSUME Inv, ~MarkMayVanish, Typed', Effect, Grows
  PROVE  \A c \in Commands : Current(c) => Current(c)'
<1>1. Len(log[Primary]) \in Nat /\ Len(log'[Primary]) \in Nat /\ Len(log[Primary]) <= Len(log'[Primary])
  BY NodesAssumption, LenProperties DEF Inv, Typed, TypeOK, Grows
<1>2. slot' = slot \/ (slot \in Commands => slot.index <= Len(log[Primary]))
  BY SlotMoves, MarkDecides DEF Effect, Copy, AbandonOnPrimary
<1>3. \A c \in Commands : c.index \in Nat
  BY DEF Commands
<1> QED
  BY <1>1, <1>2, <1>3 DEF Current

\* A command that the primary has applied is settled and on the witness; one
\* that any node has applied is settled.
LEMMA ExactIsSettled ==
  ASSUME Inv, NEW n \in Nodes, NEW c \in Commands, Exact(n, c)
  PROVE  Settled(c, FALSE)
<1>1. c.index \in 1..Len(log[n]) /\ log[n][c.index] = Entry(c, FALSE) /\ Len(log[n]) \in Nat
  BY ExactMeans, Answers DEF Inv
<1>2. Len(log[n]) <= Len(Decided) /\ log[n][c.index] = Decided[c.index] /\ Len(Decided) \in Nat
  BY <1>1, StreamShape DEF Inv, Prefixes
<1>3. c.index <= Len(Decided)
  BY <1>1, <1>2
<1> QED
  BY <1>1, <1>2, <1>3 DEF Settled

LEMMA PrimaryThenWitness ==
  ASSUME Inv, NEW c \in Commands, Exact(Primary, c)
  PROVE  Exact(Witness, c)
<1> USE NodesAssumption DEF Inv
<1>1. /\ c.index \in 1..Len(log[Primary]) /\ log[Primary][c.index] = Entry(c, FALSE)
      /\ c.index \in Nat \ {0} /\ Len(log[Primary]) \in Nat /\ Len(log[Witness]) \in Nat
  BY ExactMeans, Answers
<1>2. c.index <= Len(log[Witness])
  BY <1>1 DEF WitnessFirst, Entry
<1>3. log[Witness][c.index] = Decided[c.index] /\ log[Primary][c.index] = Decided[c.index]
  <2>1. c.index \in 1..Len(log[Primary]) /\ c.index \in 1..Len(log[Witness])
    BY <1>1, <1>2
  <2> QED
    BY <2>1 DEF Prefixes
<1>4. c.index \in 1..Len(log[Witness])
  BY <1>1, <1>2
<1> QED
  BY <1>1, <1>3, <1>4, ExactMeans

-----------------------------------------------------------------------------
(***************************************************************************)
(* The slot and the witness.                                               *)
(***************************************************************************)

\* What Copy does when the primary is the node that copies.
LEMMA PrimaryCopies ==
  ASSUME Inv, NEW c \in Commands, NEW a \in BOOLEAN, Copy(Primary, c, a)
  PROVE  \/ log' = log
         \/ /\ log' = [log EXCEPT ![Primary] = Append(log[Primary], Entry(slot, FALSE))]
            /\ started /\ slot \in Commands /\ Len(log[Primary]) + 1 <= Len(log[Witness])
<1> USE NodesAssumption DEF Inv
<1>1. CASE Acceptance(Primary, c, a) = "Apply"
  <2>1. Len(log[Primary]) \in Nat /\ c.index = Len(log[Primary]) + 1
    BY <1>1, Answers
  <2>2. Settled(c, a) /\ ~a /\ Exact(Witness, c) /\ log' = [log EXCEPT ![Primary] = Append(log[Primary], Entry(c, a))]
    BY <1>1 DEF Copy, Recorded
  <2>3. Decided # log[Primary] /\ Decided[Len(log[Primary]) + 1] = Entry(c, a)
    BY <2>1, <2>2 DEF Settled
  <2>4. started /\ slot \in Commands /\ Entry(c, a) = Entry(slot, FALSE)
    BY <2>3, StreamShape
  <2>5. c.index <= Len(log[Witness])
    <3>1. c.index \in 1..Len(log[Witness])
      BY <2>2, ExactMeans
    <3> QED
      BY <3>1
  <2> QED
    BY <2>1, <2>2, <2>4, <2>5
<1>2. CASE Acceptance(Primary, c, a) # "Apply"
  BY <1>2 DEF Copy, Recorded
<1> QED
  BY <1>1, <1>2

\* How the primary's log can change.
LEMMA PrimaryLog ==
  ASSUME Inv, ~MarkMayVanish, Typed', Effect
  PROVE  \/ log'[Primary] = log[Primary]
         \/ /\ UNCHANGED <<slot, started, issued>> /\ slot \in Commands
            /\ log'[Primary] = Append(log[Primary], Entry(slot, ~started))
            /\ started => Len(log[Primary]) + 1 <= Len(log[Witness])
<1> USE NodesAssumption DEF Inv
<1>0. log \in [Nodes -> Seq(Entries)]
  BY DEF Typed, TypeOK
<1>1. ASSUME NEW n \in Nodes, n # Primary, NEW c \in Commands, NEW a \in BOOLEAN, Copy(n, c, a)
      PROVE  log'[Primary] = log[Primary]
  BY <1>0, <1>1 DEF Copy, Recorded
<1>2. ASSUME NEW c \in Commands, NEW a \in BOOLEAN, Copy(Primary, c, a)
      PROVE  \/ log'[Primary] = log[Primary]
             \/ /\ UNCHANGED <<slot, started, issued>> /\ slot \in Commands
                /\ log'[Primary] = Append(log[Primary], Entry(slot, FALSE))
                /\ started /\ Len(log[Primary]) + 1 <= Len(log[Witness])
  BY <1>0, <1>2, PrimaryCopies DEF Copy
<1>3. ASSUME NEW f \in Frontends, AbandonOnPrimary(f)
      PROVE  \/ log'[Primary] = log[Primary]
             \/ /\ UNCHANGED <<slot, started, issued>> /\ slot \in Commands /\ ~started
                /\ log'[Primary] = Append(log[Primary], Entry(slot, TRUE))
  BY <1>0, <1>3, PrimaryAbandons DEF AbandonOnPrimary, Typed
<1>4. ASSUME NEW f \in Frontends, Mark(f) \/ MoveSlot(f) PROVE log' = log
  BY <1>4, MarkDecides, SlotMoves
<1>5. started \in BOOLEAN
  BY DEF Typed, TypeOK
<1>6. (started => Entry(slot, ~started) = Entry(slot, FALSE)) /\ (~started => Entry(slot, ~started) = Entry(slot, TRUE))
  BY <1>5 DEF Entry
<1> QED
  BY <1>1, <1>2, <1>3, <1>4, <1>6 DEF Effect

LEMMA WitnessStep ==
  ASSUME Inv, ~MarkMayVanish, Typed', Effect, Grows PROVE WitnessFirst'
<1> USE NodesAssumption DEF Inv
<1>1. /\ log[Primary] \in Seq(Entries) /\ Len(log[Primary]) \in Nat
      /\ Len(log[Witness]) \in Nat /\ Len(log'[Witness]) \in Nat /\ Len(log[Witness]) <= Len(log'[Witness])
  BY LenProperties DEF Typed, TypeOK, Grows
<1>2. CASE log'[Primary] = log[Primary]
  BY <1>1, <1>2 DEF WitnessFirst
<1>3. CASE /\ slot \in Commands /\ log'[Primary] = Append(log[Primary], Entry(slot, ~started))
           /\ started => Len(log[Primary]) + 1 <= Len(log[Witness])
  <2>1. Entry(slot, ~started) \in Entries /\ Entry(slot, ~started).abandoned = ~started
    BY <1>3 DEF Entry, Entries, Commands, Typed, TypeOK
  <2>2. /\ Len(log'[Primary]) = Len(log[Primary]) + 1
        /\ log'[Primary][Len(log[Primary]) + 1] = Entry(slot, ~started)
        /\ \A i \in 1..Len(log[Primary]) : log'[Primary][i] = log[Primary][i]
    BY <1>1, <1>3, <2>1, Appended
  <2>3. ASSUME NEW i \in 1..Len(log[Primary]) + 1, ~log'[Primary][i].abandoned
        PROVE  i <= Len(log'[Witness])
    <3>1. CASE i = Len(log[Primary]) + 1
      <4>1. ~(~started)
        BY <2>1, <2>2, <2>3, <3>1
      <4>2. Len(log[Primary]) + 1 <= Len(log[Witness])
        BY <1>3, <4>1
      <4> QED
        BY <1>1, <3>1, <4>2
    <3>2. CASE i \in 1..Len(log[Primary])
      BY <1>1, <2>2, <2>3, <3>2 DEF WitnessFirst
    <3> QED
      BY <1>1, <3>1, <3>2
  <2> QED
    BY <2>2, <2>3 DEF WitnessFirst
<1> QED
  BY <1>2, <1>3, PrimaryLog

LEMMA SlotStep ==
  ASSUME Inv, ~MarkMayVanish, Typed', Effect, Grows PROVE SlotInv'
<1> USE NodesAssumption DEF Inv
<1>0. /\ log[Primary] \in Seq(Entries) /\ Len(log[Primary]) \in Nat /\ started \in BOOLEAN
      /\ slot \in Commands \cup {NoCommand}
  BY LenProperties DEF Typed, TypeOK
<1>1. CASE UNCHANGED <<slot, started, issued>>
  <2>1. slot \in Commands => (Settled(slot, FALSE) => Settled(slot, FALSE)')
    <3>1. \A c \in Commands : Settled(c, FALSE) => (c.index <= Len(Decided)' /\ Decided'[c.index] = Entry(c, FALSE))
      BY SettledLasts DEF Settled, Entry
    <3> QED
      BY <1>1, <3>1 DEF Settled, Entry
  <2>2. CASE log'[Primary] = log[Primary]
    BY <1>0, <1>1, <2>1, <2>2 DEF SlotInv, Entry
  <2>3. CASE slot \in Commands /\ log'[Primary] = Append(log[Primary], Entry(slot, ~started))
    <3>1. /\ Entry(slot, ~started) \in Entries /\ Entry(slot, ~started).abandoned = ~started
          /\ Entry(slot, ~started).payload = slot.payload
      BY <1>0, <2>3 DEF Entry, Entries, Commands
    <3>2. /\ Len(log'[Primary]) = Len(log[Primary]) + 1
          /\ log'[Primary][Len(log[Primary]) + 1] = Entry(slot, ~started)
          /\ \A i \in 1..Len(log[Primary]) : log'[Primary][i] = log[Primary][i]
      BY <1>0, <2>3, <3>1, Appended
    <3>3. \A i \in 1..Len(log'[Primary]) : log'[Primary][i].payload \in issued'
      BY <1>0, <1>1, <2>3, <3>1, <3>2 DEF SlotInv
    <3>4. ~started => \A i \in 1..Len(log'[Primary]) : log'[Primary][i] # Entry(slot, FALSE)
      <4>1. ~started => Entry(slot, ~started) # Entry(slot, FALSE)
        BY <1>0 DEF Entry
      <4>2. ~started => \A i \in 1..Len(log[Primary]) : log[Primary][i] # Entry(slot, FALSE)
        BY <2>3 DEF SlotInv
      <4>3. ASSUME ~started, NEW i \in 1..Len(log[Primary]) + 1
            PROVE  log'[Primary][i] # Entry(slot, FALSE)
        <5>1. CASE i = Len(log[Primary]) + 1
          BY <3>2, <4>1, <4>3, <5>1
        <5>2. CASE i \in 1..Len(log[Primary])
          BY <3>2, <4>2, <4>3, <5>2
        <5>3. i = Len(log[Primary]) + 1 \/ i \in 1..Len(log[Primary])
          BY <1>0
        <5> QED
          BY <5>1, <5>2, <5>3
      <4> QED
        BY <3>2, <4>3
    <3>5. slot.index <= Len(log'[Primary]) + 1
      BY <1>0, <2>3, <3>2 DEF SlotInv, Commands
    <3> QED
      BY <1>1, <2>1, <2>3, <3>3, <3>4, <3>5 DEF SlotInv, Entry
  <2> QED
    BY <2>2, <2>3, PrimaryLog
<1>2. ASSUME NEW f \in Frontends, Mark(f) PROVE SlotInv'
  <2>1. /\ log' = log /\ slot' = slot /\ started' /\ op[f].command = slot /\ issued' = issued
        /\ Settled(slot, FALSE)' /\ slot \in Commands
    BY <1>2, MarkDecides DEF Mark, Typed
  <2> QED
    BY <2>1 DEF SlotInv
<1>3. ASSUME NEW f \in Frontends, NEW p \in Payloads, Install(f, p) PROVE SlotInv'
  <2>1. /\ log' = log /\ started' = FALSE /\ issued' = issued \cup {p} /\ p \notin issued
        /\ slot'.payload = p /\ slot'.index = Len(log[Primary]) + 1
    BY <1>3 DEF Install
  <2>2. \A i \in 1..Len(log[Primary]) : log[Primary][i].payload \in issued /\ log[Primary][i].payload # p
    BY <2>1 DEF SlotInv
  <2>3. Entry(slot, FALSE)'.payload = p
    BY <2>1 DEF Entry
  <2>4. \A i \in 1..Len(log'[Primary]) : log'[Primary][i] # Entry(slot, FALSE)'
    BY <2>1, <2>2, <2>3
  <2>5. slot'.index <= Len(log'[Primary]) + 1 /\ slot'.payload \in issued'
    BY <1>0, <2>1
  <2> QED
    BY <2>1, <2>2, <2>4, <2>5 DEF SlotInv
<1>4. ASSUME NEW f \in Frontends, RemoveSlot(f), ~UNCHANGED <<slot, started, issued>> PROVE SlotInv'
  BY <1>4, NoCommandIsNone DEF RemoveSlot, SlotInv
<1>5. ASSUME NEW f \in Frontends, Reissue(f), ~UNCHANGED <<slot, started, issued>> PROVE SlotInv'
  <2>1. /\ log' = log /\ started' = started /\ ~started /\ issued' = issued
        /\ slot = op[f].command /\ slot \in Commands
        /\ slot' = [slot EXCEPT !.index = (IF Len(log[Primary]) < slot.index THEN slot.index ELSE Len(log[Primary])) + 1]
    BY <1>5 DEF Reissue, Typed
  <2>2. Decided = log[Primary] /\ Overtaken(slot)
    BY <1>5, <2>1 DEF Decided, Reissue, OpInv, OpOK
  <2>3. slot.index <= Len(log[Primary]) /\ slot.index \in Nat
    BY <2>1, <2>2 DEF Overtaken, Commands
  <2>4. slot'.index = Len(log[Primary]) + 1 /\ slot'.payload = slot.payload
    BY <1>0, <2>1, <2>3 DEF Commands
  <2>5. Entry(slot, FALSE)' = Entry(slot, FALSE)
    BY <2>4 DEF Entry
  <2>6. slot'.index <= Len(log'[Primary]) + 1
    BY <1>0, <2>1, <2>4
  <2>7. slot'.payload \in issued'
    <3>1. slot.payload \in issued
      BY <2>1 DEF SlotInv
    <3> QED
      BY <2>1, <2>4, <3>1
  <2> QED
    BY <2>1, <2>5, <2>6, <2>7 DEF SlotInv
<1> QED
  BY <1>1, <1>2, <1>3, <1>4, <1>5 DEF Effect, Copy, AbandonOnPrimary, MoveSlot

-----------------------------------------------------------------------------
(***************************************************************************)
(* What the frontends know.                                                *)
(***************************************************************************)

\* Nothing that is observed or reconstructed says more than has happened.
LEMMA ObservedIsKnown ==
  ASSUME Inv, NEW c \in Commands, NEW R PROVE Knows(c, Observed(R, c))
<1> USE NodesAssumption
<1>1. CASE Observed(R, c) = "Published"
  <2>1. Exact(Primary, c)
    BY <1>1 DEF Observed
  <2> QED
    BY <2>1, ExactIsSettled, PrimaryThenWitness DEF Knows
<1>2. CASE Observed(R, c) = "Witnessed"
  <2>1. Exact(Witness, c)
    BY <1>2 DEF Observed
  <2> QED
    BY <1>2, <2>1, ExactIsSettled DEF Knows
<1>3. CASE Observed(R, c) = "Abortable"
  BY <1>3 DEF Knows
<1> QED
  BY <1>1, <1>2, <1>3, ObservedTyped

LEMMA ReconstructedIsKnown ==
  ASSUME Inv, NEW c \in Commands, NEW R \in SUBSET Nodes, Reconstructed(R, c) # "Unknown"
  PROVE  /\ Knows(c, Reconstructed(R, c))
         /\ Reconstructed(R, c) = "Abortable" => ~(started /\ slot = c)
<1> USE NodesAssumption
<1> DEFINE p == Reconstructed(R, c)
<1>1. CASE p = "Published"
  <2>1. Exact(Primary, c) /\ Exact(Witness, c)
    BY <1>1 DEF Reconstructed
  <2> QED
    BY <1>1, <2>1, ExactIsSettled DEF Knows
<1>2. CASE p \in {"Witnessed", "PublicationUnconfirmed"}
  <2>1. \E n \in Nodes : Exact(n, c)
    BY <1>2 DEF Reconstructed
  <2> QED
    BY <1>2, <2>1, ExactIsSettled DEF Knows
<1>3. CASE p = "PublicationStarted"
  <2>1. slot = c /\ started
    BY <1>3 DEF Reconstructed
  <2> QED
    BY <1>3, <2>1 DEF Inv, SlotInv, Knows
<1>4. CASE p = "Abortable"
  <2>1. R = Nodes /\ ~(Primary \in R /\ slot = c /\ started)
    BY <1>4 DEF Reconstructed
  <2> QED
    BY <1>4, <2>1 DEF Knows
<1> QED
  BY <1>1, <1>2, <1>3, <1>4, ReconstructedTyped DEF Progress

LEMMA MergeIsKnown ==
  ASSUME NEW c \in Commands, NEW p \in Progress, NEW q \in Progress, Knows(c, p)', Knows(c, q)'
  PROVE  Knows(c, Merge(p, q))'
BY MergeTyped DEF Knows

\* A conflict with a copy of the stream is one with the stream.
LEMMA ConflictIsOvertaken ==
  ASSUME Inv, NEW n \in Nodes, NEW c \in Commands, Acceptance(n, c, FALSE) = "Conflict"
  PROVE  Overtaken(c)
<1>1. /\ c.index <= Len(log[n]) /\ log[n][c.index] # Entry(c, FALSE)
      /\ c.index \in Nat \ {0} /\ Len(log[n]) \in Nat /\ Len(Decided) \in Nat
  BY Answers, StreamShape DEF Inv
<1>2. c.index \in 1..Len(log[n])
  BY <1>1
<1>3. Len(log[n]) <= Len(Decided) /\ log[n][c.index] = Decided[c.index]
  BY <1>2 DEF Inv, Prefixes
<1>4. c.index <= Len(Decided)
  BY <1>1, <1>3
<1> QED
  BY <1>1, <1>3, <1>4 DEF Overtaken

\* What a node has recorded it has.
LEMMA RecordedIsExact ==
  ASSUME Typed, Typed', NEW n \in Nodes, NEW c \in Commands, log' = Recorded(n, c, FALSE),
         Acceptance(n, c, FALSE) \in {"Apply", "AlreadyApplied"}
  PROVE  Exact(n, c)'
<1>0. Len(log[n]) \in Nat /\ c.index \in Nat \ {0} /\ log \in [Nodes -> Seq(Entries)]
  BY Answers DEF Typed, TypeOK
<1>1. c.index <= Len(log'[n]) /\ log'[n][c.index] = Entry(c, FALSE) /\ Len(log'[n]) \in Nat
  <2>1. CASE Acceptance(n, c, FALSE) = "AlreadyApplied"
    BY <1>0, <2>1, Answers DEF Recorded
  <2>2. CASE Acceptance(n, c, FALSE) = "Apply"
    <3>1. /\ log'[n] = Append(log[n], Entry(c, FALSE)) /\ Entry(c, FALSE) \in Entries
          /\ log[n] \in Seq(Entries)
      BY <1>0, <2>2, RecordedTyped DEF Recorded
    <3>2. c.index = Len(log[n]) + 1
      BY <2>2, Answers
    <3> DEFINE e == Entry(c, FALSE)  q == log[n]
    <3> HIDE DEF e, q
    <3>3. Len(Append(q, e)) = Len(q) + 1 /\ Append(q, e)[Len(q) + 1] = e
      BY <3>1, Appended DEF e, q
    <3>4. Len(log'[n]) = c.index /\ log'[n][c.index] = e
      BY <3>1, <3>2, <3>3 DEF e, q
    <3>5. c.index \in Nat /\ c.index <= c.index
      BY <1>0
    <3> QED
      BY <3>4, <3>5 DEF e
  <2> QED
    BY <2>1, <2>2
<1>2. Entry(c, FALSE)' = Entry(c, FALSE)
  BY DEF Entry
<1>3. Acceptance(n, c, FALSE)' = "AlreadyApplied"
  <2>0. c.index \in Nat /\ Len(log'[n]) \in Nat /\ c.index <= Len(log'[n])
    BY <1>0, <1>1
  <2>1. ~(c.index > Len(log'[n]) + 1) /\ c.index # Len(log'[n]) + 1
    <3>1. \A i, l \in Nat : i <= l => ~(i > l + 1) /\ i # l + 1
      OBVIOUS
    <3> QED
      BY <2>0, <3>1
  <2> QED
    BY <1>1, <1>2, <2>1 DEF Acceptance
<1> QED
  BY <1>3 DEF Exact

LEMMA TombstoneSettles ==
  ASSUME Typed, Typed', Grows, Prefixes', NEW c \in Commands, log' = Recorded(Primary, c, TRUE),
         Acceptance(Primary, c, TRUE) \in {"Apply", "AlreadyApplied"}
  PROVE  Settled(c, TRUE)'
<1> USE NodesAssumption
<1>0. /\ Len(log[Primary]) \in Nat /\ c.index \in Nat \ {0} /\ log \in [Nodes -> Seq(Entries)]
      /\ Len(log'[Primary]) \in Nat /\ Len(Decided') \in Nat
  BY Answers, LenProperties DEF Typed, TypeOK, Grows
<1>1. c.index \in 1..Len(log'[Primary]) /\ log'[Primary][c.index] = Entry(c, TRUE)
  <2>1. CASE Acceptance(Primary, c, TRUE) = "AlreadyApplied"
    <3>1. log' = log /\ c.index <= Len(log[Primary]) /\ log[Primary][c.index] = Entry(c, TRUE)
      BY <2>1, Answers DEF Recorded
    <3>2. c.index \in 1..Len(log[Primary])
      BY <1>0, <3>1
    <3> QED
      BY <3>1, <3>2
  <2>2. CASE Acceptance(Primary, c, TRUE) = "Apply"
    <3>1. /\ log'[Primary] = Append(log[Primary], Entry(c, TRUE)) /\ Entry(c, TRUE) \in Entries
          /\ log[Primary] \in Seq(Entries)
      BY <1>0, <2>2, RecordedTyped DEF Recorded
    <3>2. c.index = Len(log[Primary]) + 1
      BY <2>2, Answers
    <3> DEFINE e == Entry(c, TRUE)  q == log[Primary]
    <3> HIDE DEF e, q
    <3>3. Len(Append(q, e)) = Len(q) + 1 /\ Append(q, e)[Len(q) + 1] = e
      BY <3>1, Appended DEF e, q
    <3>4. Len(log'[Primary]) = c.index /\ log'[Primary][c.index] = e
      BY <3>1, <3>2, <3>3 DEF e, q
    <3>5. c.index \in 1..c.index
      BY <1>0
    <3> QED
      BY <3>4, <3>5 DEF e
  <2> QED
    BY <2>1, <2>2
<1>2. Entry(c, TRUE)' = Entry(c, TRUE)
  BY DEF Entry
<1>3. Len(log'[Primary]) <= Len(Decided') /\ Decided'[c.index] = Entry(c, TRUE)
  BY <1>1 DEF Prefixes
<1>4. c.index <= Len(Decided')
  <2>1. \A i, l, d \in Nat : i \in 1..l /\ l <= d => i <= d
    OBVIOUS
  <2> QED
    BY <1>0, <1>1, <1>3, <2>1
<1> QED
  BY <1>2, <1>3, <1>4 DEF Settled

\* What holds of every step, in the form in which the actions use it.
Lasting ==
  /\ Typed' /\ Grows /\ Prefixes'
  /\ \A c \in Commands : Current(c) => Current(c)'
  /\ \A c \in Commands : Overtaken(c) => Overtaken(c)'
  /\ \A c \in Commands, p \in Progress : Knows(c, p) => Knows(c, p)'
  /\ \A c \in Commands, a \in BOOLEAN : Settled(c, a) => Settled(c, a)'
  /\ \A n \in Nodes, c \in Commands : Exact(n, c) => Exact(n, c)'

LEMMA Lasts == ASSUME Inv, ~MarkMayVanish, [Next]_vars PROVE Lasting
<1>1. Typed /\ Typed' /\ Effect
  BY TypedStep, Effects DEF Inv
<1>2. Grows /\ Prefixes'
  BY <1>1, StreamStep, GrowsStep
<1> QED
  BY <1>1, <1>2, CurrentLasts, OvertakenLasts, KnowsLasts, SettledLasts, ExactLasts DEF Lasting

\* An operation that is not visiting nodes, nor reissuing.
LEMMA PlainOp ==
  ASSUME NEW f \in Frontends, NEW o \in Operations, Current(o.command)', Knows(o.command, o.progress)',
         o.stage \notin {"fanout", "tombstone", "reissue", "reload"}
  PROVE  OpOK(f, o)'
BY DEF OpOK

LEMMA IdleOp == ASSUME NEW f \in Frontends PROVE OpOK(f, Idle)'
BY NoCommandIsNone DEF OpOK, Idle, Current, Knows

\* After a failed attempt to apply.
LEMMA FailedOp ==
  ASSUME Inv, Lasting, NEW f \in Frontends, NEW c \in Commands, op[f].command = c, Current(c)',
         NEW p \in Progress, NEW cause \in {"conflict", "refused", "fault"},
         ApplyFailed(f, p, cause), Knows(c, p)', cause = "conflict" => Overtaken(c),
         NEW o \in Operations, o = op'[f]
  PROVE  OpOK(f, o)' /\ AckedIsDurable'
<1>1. PICK R \in SUBSET {Primary, Witness} :
        LET q == Merge(p, Observed(R, op[f].command))
        IN  IF q = "Published" /\ cause # "conflict"
            THEN /\ acked' = acked \cup {op[f].command}
                 /\ op' = [op EXCEPT ![f] = Idle]
            ELSE /\ UNCHANGED acked
                 /\ \E s \in NextStages(q, cause) :
                        op' = [op EXCEPT ![f].stage = s, ![f].progress = q,
                                         ![f].todo = {}]
  BY DEF ApplyFailed
<1>2. PICK ob \in Progress : ob = Observed(R, c)
  BY ObservedTyped DEF Progress
<1>3. PICK q \in Progress : q = Merge(p, ob)
  BY MergeTyped
<1>4. Knows(c, q)'
  <2>1. Knows(c, ob)
    BY <1>2, ObservedIsKnown
  <2>2. Knows(c, ob)'
    BY <2>1 DEF Lasting
  <2>3. q \in {p, ob}
    BY <1>3, MergeTyped
  <2> QED
    BY <2>2, <2>3 DEF Knows
<1>5. op \in [Frontends -> Operations] /\ \A d \in acked : d \in Commands /\ Exact(Primary, d) /\ Exact(Witness, d)
  BY DEF Inv, Typed, TypeOK, AckedIsDurable
<1>6. \A d \in acked : Exact(Primary, d)' /\ Exact(Witness, d)'
  BY <1>5, NodesAssumption DEF Lasting
<1>7. CASE q = "Published" /\ cause # "conflict"
  <2>1. acked' = acked \cup {c} /\ op' = [op EXCEPT ![f] = Idle]
    BY <1>1, <1>2, <1>3, <1>7
  <2>2. Exact(Primary, c)' /\ Exact(Witness, c)'
    BY <1>4, <1>7 DEF Knows
  <2>3. o = Idle
    BY <1>5, <2>1
  <2> QED
    BY <1>6, <2>1, <2>2, <2>3, IdleOp DEF AckedIsDurable
<1>8. CASE ~(q = "Published" /\ cause # "conflict")
  <2>1. /\ acked' = acked
        /\ \E s \in NextStages(q, cause) :
             op' = [op EXCEPT ![f].stage = s, ![f].progress = q, ![f].todo = {}]
    BY <1>1, <1>2, <1>3, <1>8
  <2>2. /\ o.command = c /\ o.progress = q
        /\ o.stage \in NextStages(q, cause)
    BY <1>5, <2>1 DEF Operations
  <2>3. /\ o.stage \in {"apply", "check", "abandon", "reissue"}
        /\ o.stage = "reissue" => q = "Abortable" /\ cause = "conflict"
    BY <2>2 DEF NextStages
  <2>4. cause = "conflict" => Overtaken(c)'
    BY DEF Lasting
  <2> QED
    BY <1>4, <1>6, <2>1, <2>2, <2>3, <2>4 DEF OpOK, AckedIsDurable
<1> QED
  BY <1>7, <1>8

\* The operation of a frontend that another one's step does not touch.
LEMMA OpKept ==
  ASSUME Inv, Lasting, NEW g \in Frontends, op'[g] = op[g],
         section' = g => section = g /\ UNCHANGED <<slot, started>>,
         NEW o \in Operations, o = op'[g]
  PROVE  OpOK(g, o)'
<1>1. OpOK(g, o) /\ (o.stage # "idle" => o.command \in Commands) /\ o.progress \in Progress
  BY DEF Inv, OpInv, Typed, Operations
<1>2. CASE o.command \notin Commands
  BY <1>1, <1>2 DEF OpOK, Current, Knows
<1>3. CASE o.command \in Commands
  <2>1. /\ Current(o.command)' /\ Knows(o.command, o.progress)'
        /\ Settled(o.command, TRUE) => Settled(o.command, TRUE)'
        /\ Overtaken(o.command) => Overtaken(o.command)'
        /\ \A n \in Nodes : Exact(n, o.command) => Exact(n, o.command)'
    BY <1>1, <1>3 DEF Lasting, OpOK
  <2>2. ASSUME o.stage = "tombstone"
        PROVE  IF Primary \in o.todo THEN section' = g => ~(started' /\ slot' = o.command)
                                     ELSE Settled(o.command, TRUE)'
    <3>1. CASE Primary \in o.todo
      <4>1. section = g => ~(started /\ slot = o.command)
        BY <1>1, <2>2, <3>1 DEF OpOK
      <4> QED
        BY <3>1, <4>1
    <3>2. CASE Primary \notin o.todo
      <4>1. Settled(o.command, TRUE)
        BY <1>1, <2>2, <3>2 DEF OpOK
      <4> QED
        BY <2>1, <3>2, <4>1
    <3> QED
      BY <3>1, <3>2
  <2> QED
    BY <1>1, <2>1, <2>2 DEF OpOK
<1> QED
  BY <1>2, <1>3

\* The section passes only to the frontend that steps, and the slot is only
\* changed by that frontend or when nobody is in the section.
LEMMA SectionStep ==
  ASSUME Inv, ~MarkMayVanish, NEW f \in Frontends, FrontendStep(f)
  PROVE  /\ section' \in {section, NoFrontend, f}
         /\ UNCHANGED <<slot, started>> \/ section \in {NoFrontend, f}
         /\ \A g \in Frontends : g # f => op'[g] = op[g]
<1>0. op \in [Frontends -> Operations]
  BY DEF Inv, Typed, TypeOK
<1>1. ASSUME NEW p, NEW cause, ApplyFailed(f, p, cause)
      PROVE  section' \in {section, NoFrontend} /\ \A g \in Frontends : g # f => op'[g] = op[g]
  BY <1>0, <1>1 DEF ApplyFailed, Released
<1>2. CASE (\E p \in Payloads : Install(f, p)) \/ Adopt(f) \/ CheckAbandoned(f) \/ Converge(f)
           \/ AbandonDone(f) \/ RemoveSlot(f) \/ Reload(f) \/ Leave(f)
  BY <1>0, <1>2 DEF Install, Adopt, CheckAbandoned, Converge, AbandonDone, RemoveSlot, Reload,
                    Leave, Released
<1>3. CASE EnterAbandon(f) \/ Reissue(f)
  BY <1>0, <1>3 DEF EnterAbandon, Reissue
<1>4. CASE EnterApply(f)
  BY <1>0, <1>1, <1>4 DEF EnterApply
<1>5. CASE AttemptFaults(f)
  BY <1>1, <1>5 DEF AttemptFaults
<1>6. CASE Mark(f)
  <2>1. section = f
    BY <1>6, MarkDecides
  <2> QED
    BY <1>0, <1>1, <1>6, <2>1 DEF Mark
<1>7. ASSUME NEW n \in Nodes, ApplyAt(f, n) \/ RefusedAt(f, n) \/ ApplyLost(f, n)
      PROVE  /\ section' \in {section, NoFrontend} /\ UNCHANGED <<slot, started>>
             /\ \A g \in Frontends : g # f => op'[g] = op[g]
  BY <1>0, <1>1, <1>7 DEF ApplyAt, RefusedAt, ApplyLost
<1>8. ASSUME NEW n \in Nodes, TombstoneAt(f, n) \/ TombstoneLost(f, n)
      PROVE  /\ section' \in {section, NoFrontend} /\ UNCHANGED <<slot, started>>
             /\ \A g \in Frontends : g # f => op'[g] = op[g]
  BY <1>0, <1>8 DEF TombstoneAt, TombstoneLost, Released
<1> QED
  BY <1>2, <1>3, <1>4, <1>5, <1>6, <1>7, <1>8 DEF FrontendStep

\* The operation of the frontend that steps, and what it reports.
LEMMA OwnOp ==
  ASSUME Inv, ~MarkMayVanish, Lasting, NEW f \in Frontends, FrontendStep(f),
         NEW o \in Operations, o = op'[f]
  PROVE  OpOK(f, o)' /\ AckedIsDurable'
<1> USE NodesAssumption
<1>0. /\ op \in [Frontends -> Operations] /\ op[f] \in Operations /\ OpOK(f, op[f])
      /\ op[f].progress \in Progress /\ (op[f].stage # "idle" => op[f].command \in Commands)
      /\ slot \in Commands \cup {NoCommand}
      /\ \A d \in acked : d \in Commands /\ Exact(Primary, d) /\ Exact(Witness, d)
  BY DEF Inv, OpInv, Typed, TypeOK, AckedIsDurable, Operations
<1>1. \A d \in acked : Exact(Primary, d)' /\ Exact(Witness, d)'
  BY <1>0 DEF Lasting
<1>2. acked' = acked => AckedIsDurable'
  BY <1>1 DEF AckedIsDurable
<1>3. op' = [op EXCEPT ![f] = Idle] => OpOK(f, o)'
  BY <1>0, IdleOp
<1>4. ASSUME NEW p \in Payloads, Install(f, p) PROVE OpOK(f, o)' /\ acked' = acked
  <2>1. o.stage = "check" /\ o.command = slot' /\ o.progress = "Abortable" /\ acked' = acked
    BY <1>0, <1>4 DEF Install, Idle
  <2> QED
    BY <2>1, PlainOp DEF Current, Knows
<1>5. CASE Adopt(f)
  <2>1. /\ o.stage = "check" /\ o.command = slot /\ slot' = slot /\ o.progress = "Abortable"
        /\ acked' = acked
    BY <1>0, <1>5 DEF Adopt, Idle
  <2> QED
    BY <1>2, <2>1, PlainOp DEF Current, Knows
<1>6. ASSUME op[f].stage # "idle"
      PROVE  OpOK(f, o)' /\ AckedIsDurable'
  <2>1. PICK c \in Commands : c = op[f].command
    BY <1>0, <1>6
  <2>0. PICK p0 \in Progress : p0 = op[f].progress
    BY <1>0
  <2>2. Current(c)' /\ Knows(c, p0) /\ Knows(c, p0)'
    <3>1. Current(c) /\ Knows(c, p0)
      BY <1>0, <2>0, <2>1 DEF OpOK
    <3> QED
      BY <3>1 DEF Lasting
  <2>3. CASE CheckAbandoned(f)
    <3>1. o.stage \in {"abandon", "apply"} /\ o.command = c /\ o.progress = p0 /\ acked' = acked
      BY <1>0, <2>0, <2>1, <2>3 DEF CheckAbandoned, Operations
    <3> QED
      BY <1>2, <2>2, <3>1, PlainOp
  <2>4. CASE EnterApply(f)
    <3>1. PICK R \in SUBSET Nodes :
            LET d == op[f].command
                p == IF op[f].progress = "Abortable" /\ ~op[f].owned
                     THEN Reconstructed(R, d) ELSE op[f].progress
                a == Acceptance(Primary, d, FALSE)
                q == IF a = "AlreadyApplied" THEN "Published" ELSE p
            IN  \/ /\ p = "Unknown"
                   /\ op' = [op EXCEPT ![f] = Idle]
                   /\ UNCHANGED <<section, acked>>
                \/ /\ p # "Unknown"
                   /\ a \in {"Conflict", "Gap"}
                   /\ ApplyFailed(f, p, IF a = "Conflict" THEN "conflict" ELSE "refused")
                \/ /\ p # "Unknown"
                   /\ a = "Apply" /\ p = "Abortable"
                   /\ ApplyFailed(f, p, "refused")
                \/ /\ p # "Unknown"
                   /\ a \in {"Apply", "AlreadyApplied"}
                   /\ section' = f
                   /\ op' = [op EXCEPT ![f].stage = "fanout", ![f].progress = q,
                                       ![f].todo = Nodes]
                   /\ UNCHANGED acked
      BY <2>4 DEF EnterApply
    <3>2. PICK p \in Progress \cup {"Unknown"} :
            p = IF p0 = "Abortable" /\ ~op[f].owned THEN Reconstructed(R, c) ELSE p0
      BY ReconstructedTyped
    <3>3. p # "Unknown" => p \in Progress /\ Knows(c, p) /\ Knows(c, p)'
      BY <2>2, <3>2, ReconstructedIsKnown DEF Lasting
    <3> DEFINE a == Acceptance(Primary, c, FALSE)
    <3>4. a = "Conflict" => Overtaken(c)
      BY ConflictIsOvertaken
    <3>5. CASE op' = [op EXCEPT ![f] = Idle] /\ UNCHANGED <<section, acked>>
      BY <1>2, <1>3, <3>5
    <3>6. ASSUME NEW cause \in {"conflict", "refused"}, p # "Unknown", ApplyFailed(f, p, cause),
                 cause = "conflict" => a = "Conflict"
          PROVE  OpOK(f, o)' /\ AckedIsDurable'
      BY <2>1, <2>2, <3>3, <3>4, <3>6, FailedOp
    <3>7. CASE /\ p # "Unknown" /\ section' = f /\ UNCHANGED acked
               /\ op' = [op EXCEPT ![f].stage = "fanout",
                                   ![f].progress = IF a = "AlreadyApplied" THEN "Published" ELSE p,
                                   ![f].todo = Nodes]
      <4>1. PICK q \in Progress : q = IF a = "AlreadyApplied" THEN "Published" ELSE p
        BY <3>3, <3>7 DEF Progress
      <4>2. Knows(c, q)'
        <5>1. CASE a = "AlreadyApplied"
          <6>1. Exact(Primary, c)
            BY <5>1 DEF Exact
          <6>2. Exact(Witness, c) /\ Settled(c, FALSE)
            BY <6>1, PrimaryThenWitness, ExactIsSettled
          <6>3. Exact(Primary, c)' /\ Exact(Witness, c)' /\ Settled(c, FALSE)'
            BY <6>1, <6>2 DEF Lasting
          <6> QED
            BY <6>3 DEF Knows
        <5>2. CASE a # "AlreadyApplied"
          BY <3>3, <3>7, <4>1, <5>2
        <5> QED
          BY <5>1, <5>2
      <4>3. o.stage = "fanout" /\ o.command = c /\ o.progress = q /\ o.todo = Nodes
        BY <1>0, <2>1, <3>7, <4>1 DEF Operations
      <4> QED
        BY <1>2, <2>2, <3>7, <4>2, <4>3 DEF OpOK
    <3> HIDE DEF a
    <3> QED
      BY <2>0, <2>1, <3>1, <3>2, <3>5, <3>6, <3>7 DEF a
  <2>5. CASE AttemptFaults(f)
    <3>1. ApplyFailed(f, p0, "fault")
      BY <2>0, <2>5 DEF AttemptFaults
    <3> QED
      BY <2>1, <2>2, <3>1, FailedOp
  <2>6. CASE Mark(f)
    <3>1. c = slot /\ slot' = slot /\ Settled(slot, FALSE)'
      BY <2>1, <2>6, MarkDecides
    <3>2. Settled(c, FALSE)'
      BY <3>1 DEF Settled, Entry
    <3>3. CASE op' = [op EXCEPT ![f].progress = "PublicationStarted"] /\ UNCHANGED <<section, acked>>
      <4>1. o.stage = "fanout" /\ o.command = c /\ o.progress = "PublicationStarted" /\ o.todo = op[f].todo
        BY <1>0, <2>1, <2>6, <3>3 DEF Operations, Mark
      <4>2. \A n \in Nodes \ o.todo : Exact(n, c)'
        <5>1. \A n \in Nodes \ o.todo : Exact(n, c)
          BY <1>0, <2>1, <2>6, <4>1 DEF OpOK, Mark
        <5> QED
          BY <5>1 DEF Lasting
      <4>3. Knows(c, "PublicationStarted")'
        BY <3>2 DEF Knows
      <4> QED
        BY <1>2, <2>2, <3>3, <4>1, <4>2, <4>3 DEF OpOK
    <3>4. CASE ApplyFailed(f, "PublicationUnconfirmed", "fault")
      <4>1. Knows(c, "PublicationUnconfirmed")' /\ "PublicationUnconfirmed" \in Progress
        BY <3>2 DEF Knows, Progress
      <4> QED
        BY <2>1, <2>2, <3>4, <4>1, FailedOp
    <3> QED
      BY <2>6, <3>3, <3>4 DEF Mark
  <2>7. ASSUME NEW n \in Nodes, ApplyAt(f, n) PROVE OpOK(f, o)' /\ AckedIsDurable'
    <3>1. /\ op[f].stage = "fanout" /\ FirstToApply(op[f].todo, n) /\ acked' = acked
          /\ Acceptance(n, c, FALSE) \in {"Apply", "AlreadyApplied"}
          /\ Acceptance(n, c, FALSE) = "Apply" => p0 # "Abortable"
          /\ log' = Recorded(n, c, FALSE)
      BY <2>0, <2>1, <2>7 DEF ApplyAt
    <3>2. PICK q \in Progress : q = AppliedAt(n, p0)
      BY MergeTyped DEF AppliedAt, Progress
    <3>3. o.stage = "fanout" /\ o.command = c /\ o.progress = q /\ o.todo = op[f].todo \ {n}
      BY <1>0, <2>0, <2>1, <2>7, <3>1, <3>2 DEF ApplyAt, Operations
    <3>4. Exact(n, c)'
      BY <3>1, RecordedIsExact DEF Inv, Lasting
    <3>5. PICK todo \in SUBSET Nodes : todo = op[f].todo /\ \A m \in Nodes \ todo : Exact(m, c)
      BY <1>0, <2>1, <3>1 DEF OpOK, Operations
    <3>8. \A m \in Nodes \ todo : Exact(m, c)'
      BY <3>5 DEF Lasting
    <3>6. Settled(c, FALSE)'
      <4>1. CASE Acceptance(n, c, FALSE) = "Apply"
        BY <2>2, <3>1, <4>1 DEF Knows
      <4>2. CASE Acceptance(n, c, FALSE) = "AlreadyApplied"
        <5>1. Settled(c, FALSE)
          BY <4>2, ExactIsSettled DEF Exact
        <5> QED
          BY <5>1 DEF Lasting
      <4> QED
        BY <3>1, <4>1, <4>2
    <3>7. Knows(c, q)'
      <4>1. CASE n = Primary
        BY <3>1, <3>4, <3>5, <3>6, <3>8, <4>1 DEF Knows, FirstToApply
      <4>2. CASE n # Primary
        <5>1. q = "Published" => p0 = "Published"
          BY <3>2, <4>2, MergeTyped DEF AppliedAt, Progress
        <5> QED
          BY <2>2, <3>6, <5>1 DEF Knows
      <4> QED
        BY <4>1, <4>2
    <3> QED
      BY <1>2, <2>2, <3>1, <3>3, <3>4, <3>5, <3>7, <3>8 DEF OpOK
  <2>8. ASSUME NEW n \in Nodes, RefusedAt(f, n) PROVE OpOK(f, o)' /\ AckedIsDurable'
    <3>1. PICK cause \in {"conflict", "refused"} :
            /\ ApplyFailed(f, p0, cause)
            /\ cause = "conflict" => Acceptance(n, c, FALSE) = "Conflict"
      BY <2>0, <2>1, <2>8 DEF RefusedAt
    <3>2. cause = "conflict" => Overtaken(c)
      BY <3>1, ConflictIsOvertaken
    <3> QED
      BY <2>1, <2>2, <3>1, <3>2, FailedOp
  <2>9. ASSUME NEW n \in Nodes, ApplyLost(f, n) PROVE OpOK(f, o)' /\ AckedIsDurable'
    <3>1. PICK r \in {"PublicationUnconfirmed", "Witnessed"} :
            ApplyFailed(f, Merge(p0, r), "fault")
      BY <2>0, <2>9 DEF ApplyLost
    <3>2. r \in Progress /\ p0 # "Abortable"
      BY <2>0, <2>9 DEF ApplyLost, Progress
    <3>3. Knows(c, r)'
      BY <2>2, <3>1, <3>2 DEF Knows
    <3>4. PICK q \in Progress : q = Merge(p0, r) /\ q \in {p0, r}
      BY <3>2, MergeTyped
    <3>5. Knows(c, q)'
      BY <2>2, <3>3, <3>4
    <3> QED
      BY <2>1, <2>2, <3>1, <3>4, <3>5, FailedOp
  <2>10. CASE Converge(f)
    <3>1. /\ o.stage = "remove" /\ o.command = c /\ o.progress = p0
          /\ acked' = acked \cup {c} /\ op[f].todo = {} /\ op[f].stage = "fanout"
      BY <1>0, <2>0, <2>1, <2>10 DEF Converge, Operations
    <3>2. \A n \in Nodes : Exact(n, c)
      BY <1>0, <2>1, <3>1 DEF OpOK
    <3>3. \A n \in Nodes : Exact(n, c)'
      BY <3>2 DEF Lasting
    <3> QED
      BY <1>1, <2>2, <3>1, <3>3, PlainOp DEF AckedIsDurable
  <2>11. CASE EnterAbandon(f)
    <3>1. acked' = acked /\ UNCHANGED <<slot, started>>
      BY <2>11 DEF EnterAbandon
    <3>2. CASE op' = [op EXCEPT ![f] = Idle]
      BY <1>2, <1>3, <3>1, <3>2
    <3>3. ASSUME NEW R \in SUBSET Nodes, Reconstructed(R, c) = "Abortable",
                 op' = [op EXCEPT ![f].stage = "tombstone", ![f].todo = Nodes]
          PROVE  OpOK(f, o)' /\ AckedIsDurable'
      <4>1. ~(started' /\ slot' = c)
        BY <3>1, <3>3, ReconstructedIsKnown
      <4>2. o.stage = "tombstone" /\ o.command = c /\ o.progress = p0 /\ o.todo = Nodes
        BY <1>0, <2>0, <2>1, <3>3 DEF Operations
      <4> QED
        BY <1>2, <2>2, <3>1, <4>1, <4>2 DEF OpOK
    <3> QED
      BY <2>1, <2>11, <3>2, <3>3 DEF EnterAbandon
  <2>12. ASSUME NEW n \in Nodes, TombstoneAt(f, n) PROVE OpOK(f, o)' /\ AckedIsDurable'
    <3>1. /\ op[f].stage = "tombstone" /\ n \in op[f].todo /\ acked' = acked
          /\ n # Primary => Primary \notin op[f].todo
          /\ Acceptance(n, c, TRUE) \in {"Apply", "AlreadyApplied"}
          /\ log' = Recorded(n, c, TRUE)
      BY <2>1, <2>12 DEF TombstoneAt, FirstToAbandon
    <3>2. o.stage = "tombstone" /\ o.command = c /\ o.progress = p0 /\ o.todo = op[f].todo \ {n}
      BY <1>0, <2>0, <2>1, <2>12, <3>1 DEF TombstoneAt, Operations
    <3>3. Settled(c, TRUE)'
      <4>1. CASE n # Primary
        <5>1. Settled(c, TRUE)
          BY <1>0, <2>1, <3>1, <4>1 DEF OpOK
        <5> QED
          BY <5>1 DEF Lasting
      <4>2. CASE n = Primary
        BY <3>1, <4>2, TombstoneSettles DEF Inv, Lasting
      <4> QED
        BY <4>1, <4>2
    <3> QED
      BY <1>2, <2>2, <3>1, <3>2, <3>3 DEF OpOK
  <2>13. ASSUME NEW n \in Nodes, TombstoneLost(f, n) PROVE OpOK(f, o)' /\ AckedIsDurable'
    BY <1>2, <1>3, <2>13 DEF TombstoneLost
  <2>14. CASE AbandonDone(f)
    <3>1. o.stage = "remove" /\ o.command = c /\ o.progress = p0 /\ acked' = acked
      BY <1>0, <2>0, <2>1, <2>14 DEF AbandonDone, Operations
    <3> QED
      BY <1>2, <2>2, <3>1, PlainOp
  <2>15. CASE RemoveSlot(f) \/ Leave(f)
    BY <1>2, <1>3, <2>15 DEF RemoveSlot, Leave
  <2>16. CASE Reissue(f)
    <3>1. acked' = acked /\ op[f].progress = "Abortable"
      BY <1>0, <2>16 DEF Reissue, OpOK
    <3>2. CASE op' = [op EXCEPT ![f] = Idle]
      BY <1>2, <1>3, <3>1, <3>2
    <3>3. CASE op' = [op EXCEPT ![f].stage = "check", ![f].command = slot',
                                ![f].progress = "Abortable", ![f].owned = TRUE]
      <4>1. o.stage = "check" /\ o.command = slot' /\ o.progress = "Abortable"
        BY <1>0, <3>3 DEF Operations
      <4> QED
        BY <1>2, <3>1, <4>1, PlainOp DEF Current, Knows
    <3>4. CASE op' = [op EXCEPT ![f].stage = "reload", ![f].command = slot] /\ slot' = slot
      <4>1. o.stage = "reload" /\ o.command = slot /\ o.progress = "Abortable"
        BY <1>0, <3>1, <3>4 DEF Operations
      <4> QED
        BY <1>2, <3>1, <3>4, <4>1 DEF OpOK, Current, Knows
    <3> QED
      BY <2>16, <3>2, <3>3, <3>4 DEF Reissue
  <2>17. CASE Reload(f)
    <3>1. acked' = acked
      BY <2>17 DEF Reload
    <3>2. CASE op' = [op EXCEPT ![f] = Idle]
      BY <1>2, <1>3, <3>1, <3>2
    <3>3. CASE op' = [op EXCEPT ![f] = [@ EXCEPT !.stage = "check", !.progress = "Abortable", !.owned = TRUE]]
      <4>1. o.stage = "check" /\ o.command = c /\ o.progress = "Abortable"
        BY <1>0, <2>1, <3>3 DEF Operations
      <4>2. Knows(c, "Abortable")'
        BY DEF Knows
      <4> QED
        BY <1>2, <2>2, <3>1, <4>1, <4>2, PlainOp
    <3> QED
      BY <2>17, <3>2, <3>3 DEF Reload
  <2>18. ~Adopt(f) /\ \A p \in Payloads : ~Install(f, p)
    BY <1>6 DEF Adopt, Install
  <2> QED
    BY <2>3, <2>4, <2>5, <2>6, <2>7, <2>8, <2>9, <2>10, <2>11, <2>12, <2>13, <2>14, <2>15,
       <2>16, <2>17, <2>18 DEF FrontendStep
<1>7. CASE op[f].stage = "idle"
  <2>1. Adopt(f) \/ \E p \in Payloads : Install(f, p)
    BY <1>7 DEF FrontendStep, CheckAbandoned, EnterApply, AttemptFaults, Mark, ApplyAt, RefusedAt,
                ApplyLost, Converge, EnterAbandon, TombstoneAt, TombstoneLost, AbandonDone,
                RemoveSlot, Reissue, Reload, Leave
  <2> QED
    BY <1>2, <1>4, <1>5, <2>1
<1> QED
  BY <1>6, <1>7

\* Requests that nobody waits for any more are settled when they are given up.
LEMMA LateStep == ASSUME Inv, Lasting, [Next]_vars PROVE LateInv'
<1>0. \A q \in late : q.command \in Commands /\ q.abandoned \in BOOLEAN /\ q.node # Primary
                      /\ Settled(q.command, q.abandoned)
  BY DEF Inv, Typed, TypeOK, Requests, LateInv
<1>1. \A q \in late : q.node # Primary /\ Settled(q.command, q.abandoned)'
  BY <1>0 DEF Lasting
<1>2. late' \subseteq late => LateInv'
  BY <1>1 DEF LateInv
<1>3. ASSUME NEW f \in Frontends, FrontendStep(f) PROVE LateInv'
  <2>1. ASSUME NEW n \in Nodes, NEW a \in BOOLEAN, NEW c \in Commands, n # Primary, Settled(c, a),
               late' = late \cup {[node |-> n, command |-> c, abandoned |-> a]}
        PROVE  LateInv'
    <3> DEFINE q == [node |-> n, command |-> c, abandoned |-> a]
    <3>1. Settled(c, a)'
      BY <2>1 DEF Lasting
    <3>2. q.node # Primary /\ q.command = c /\ q.abandoned = a
      BY <2>1
    <3> HIDE DEF q
    <3>3. Settled(q.command, q.abandoned)'
      BY <3>1, <3>2
    <3> QED
      BY <1>1, <2>1, <3>2, <3>3 DEF LateInv, q
  <2>2. ASSUME NEW n \in Nodes, ApplyLost(f, n) PROVE LateInv'
    <3>1. op[f].command \in Commands /\ Settled(op[f].command, FALSE)
      BY <2>2 DEF Inv, OpInv, OpOK, Knows, ApplyLost
    <3>2. PICK c \in Commands : c = op[f].command
      BY <3>1
    <3> QED
      BY <1>2, <2>1, <2>2, <3>1, <3>2 DEF ApplyLost
  <2>3. ASSUME NEW n \in Nodes, TombstoneLost(f, n) PROVE LateInv'
    <3>1. /\ op[f].command \in Commands
          /\ n # Primary => Settled(op[f].command, TRUE)
      BY <2>3 DEF Inv, Typed, OpInv, OpOK, TombstoneLost, FirstToAbandon
    <3>2. PICK c \in Commands : c = op[f].command
      BY <3>1
    <3> QED
      BY <1>2, <2>1, <2>3, <3>1, <3>2 DEF TombstoneLost
  <2>4. CASE /\ \A n \in Nodes : ~ApplyLost(f, n) /\ ~TombstoneLost(f, n)
    <3>1. late' = late
      BY <1>3, <2>4 DEF FrontendStep, Install, Adopt, CheckAbandoned, EnterApply, AttemptFaults,
         Mark, ApplyAt, RefusedAt, Converge, EnterAbandon, TombstoneAt, AbandonDone, RemoveSlot,
         Reissue, Reload, Leave
    <3> QED
      BY <1>2, <3>1
  <2> QED
    BY <2>2, <2>3, <2>4
<1>4. CASE LoseSection \/ UNCHANGED vars
  BY <1>2, <1>4 DEF LoseSection, vars
<1>5. ASSUME NEW q \in late, ExecuteLate(q) \/ DropLate(q) PROVE LateInv'
  BY <1>2, <1>5 DEF ExecuteLate, DropLate
<1> QED
  BY <1>3, <1>4, <1>5 DEF Next

\* The operations of all frontends.
OpInvs == \A f \in Frontends : OpInv(f)
OpValues == \A f \in Frontends : \A o \in Operations : o = op[f] => OpOK(f, o)
LEMMA OpByValue == Typed /\ OpValues => OpInvs
BY DEF Typed, TypeOK, OpValues, OpInvs, OpInv

LEMMA OpStep ==
  ASSUME Inv, ~MarkMayVanish, Lasting, [Next]_vars PROVE OpValues' /\ AckedIsDurable'
<1>0. acked' = acked => AckedIsDurable'
  BY NodesAssumption DEF Inv, Typed, TypeOK, AckedIsDurable, Lasting
<1>1. ASSUME NEW f \in Frontends, FrontendStep(f) PROVE OpValues' /\ AckedIsDurable'
  <2>1. ASSUME NEW o \in Operations, o = op'[f] PROVE OpOK(f, o)' /\ AckedIsDurable'
    BY <1>1, <2>1, OwnOp
  <2>2. op'[f] \in Operations
    BY DEF Lasting, Typed, TypeOK
  <2>3. ASSUME NEW g \in Frontends, g # f, NEW o \in Operations, o = op'[g] PROVE OpOK(g, o)'
    <3>1. op'[g] = op[g] /\ (section' = g => section = g /\ UNCHANGED <<slot, started>>)
      BY <1>1, <2>3, SectionStep, NamesAssumption
    <3> QED
      BY <2>3, <3>1, OpKept
  <2> QED
    BY <2>1, <2>2, <2>3 DEF OpValues
<1>2. CASE LoseSection \/ (\E q \in late : ExecuteLate(q) \/ DropLate(q)) \/ UNCHANGED vars
  <2>1. UNCHANGED <<op, slot, started, acked>> /\ section' \in {section, NoFrontend}
    BY <1>2 DEF LoseSection, ExecuteLate, DropLate, vars
  <2>2. ASSUME NEW g \in Frontends, NEW o \in Operations, o = op'[g] PROVE OpOK(g, o)'
    BY <2>1, <2>2, OpKept, NamesAssumption
  <2> QED
    BY <1>0, <2>1, <2>2 DEF OpValues
<1> QED
  BY <1>1, <1>2 DEF Next

LEMMA InvStep == ASSUME Inv, ~MarkMayVanish, [Next]_vars PROVE Inv'
<1>1. Lasting /\ Effect
  BY Lasts, Effects
<1>2. Typed' /\ Grows /\ Prefixes'
  BY <1>1 DEF Lasting
<1>3. SlotInv' /\ WitnessFirst' /\ LateInv' /\ AckedIsDurable' /\ OpValues'
  BY <1>1, <1>2, SlotStep, WitnessStep, LateStep, OpStep
<1>4. Typed' /\ OpValues' => OpInvs'
  BY OpByValue, PTL
<1>5. \A f \in Frontends : OpInv(f)'
  BY <1>2, <1>3, <1>4 DEF OpInvs
<1> QED
  BY <1>2, <1>3, <1>5 DEF Inv

LEMMA InitInv == Init => Inv
<1> SUFFICES ASSUME Init PROVE Inv
  OBVIOUS
<1>1. Typed
  BY InitTyped
<1>2. Decided = <<>> /\ Len(<<>>) = 0 /\ \A n \in Nodes : log[n] = <<>>
  BY NodesAssumption, EmptySeq DEF Init, Decided
<1>3. Prefixes /\ WitnessFirst
  BY <1>2, NodesAssumption DEF Prefixes, WitnessFirst
<1>4. SlotInv
  <2>1. ~started /\ slot \notin Commands
    BY NoCommandIsNone DEF Init
  <2>2. 1..Len(log[Primary]) = {}
    BY <1>2, NodesAssumption
  <2> QED
    BY <2>1, <2>2 DEF SlotInv
<1>5. \A f \in Frontends : OpInv(f)
  BY NoCommandIsNone DEF Init, OpInv, OpOK, Idle, Current, Knows
<1> QED
  BY <1>1, <1>3, <1>4, <1>5 DEF Init, Inv, LateInv, AckedIsDurable

-----------------------------------------------------------------------------
(***************************************************************************)
(* The theorems.                                                           *)
(***************************************************************************)

LEMMA InvCorrect == ASSUME ~MarkMayVanish PROVE Spec => []Inv
<1>1. ASSUME Inv, [Next]_vars PROVE Inv'
  BY <1>1, InvStep
<1> QED
  BY <1>1, InitInv, PTL DEF Spec

\* The state keeps its type, whether or not a mark can be lost.
THEOREM TypeCorrect == Spec => []TypeOK
<1>1. ASSUME Typed, [Next]_vars PROVE Typed'
  BY <1>1, TypedStep
<1>2. Typed => TypeOK
  BY DEF Typed
<1> QED
  BY <1>1, <1>2, InitTyped, PTL DEF Spec

\* The nodes of the acting set never disagree on an index, so the violated
\* invariant that reconstruction reports cannot arise.
THEOREM LogsAgreeCorrect == ASSUME ~MarkMayVanish PROVE Spec => []LogsAgree
<1>1. Inv => LogsAgree
  <2> SUFFICES ASSUME Inv, NEW m \in Nodes, NEW n \in Nodes, NEW i \in 1..Len(log[m]), i <= Len(log[n])
               PROVE  log[m][i] = log[n][i]
    BY DEF LogsAgree
  <2>1. i \in 1..Len(log[n])
    BY LenProperties DEF Inv, Typed, TypeOK
  <2> QED
    BY <2>1 DEF Inv, Prefixes
<1> QED
  BY <1>1, InvCorrect, PTL

\* What a request that nobody waits for would record is settled: the marker
\* closes the interval between the dispatch of an apply and its commit.
THEOREM RequestsAreSettledCorrect == ASSUME ~MarkMayVanish PROVE Spec => []RequestsAreSettled
<1>1. Inv => RequestsAreSettled
  BY DEF Inv, LateInv, RequestsAreSettled
<1> QED
  BY <1>1, InvCorrect, PTL

\* A command that is reported as applied, also one handed over to recovery, is
\* on the primary and on the witness.
THEOREM AckedIsDurableCorrect == ASSUME ~MarkMayVanish PROVE Spec => []AckedIsDurable
<1>1. Inv => AckedIsDurable
  BY DEF Inv
<1> QED
  BY <1>1, InvCorrect, PTL

\* Publication implements the stream of CommandLog: marking a slot or recording
\* a tombstone on the primary decides an entry, everything else copies decided
\* ones, and no payload is applied at two indexes.
THEOREM StreamRefinement == ASSUME ~MarkMayVanish PROVE Spec => ImplementsStream
<1>1. Init => Stream!Init
  <2> SUFFICES ASSUME Init PROVE Stream!Init
    OBVIOUS
  <2>1. ~started /\ log = [n \in Nodes |-> <<>>]
    BY DEF Init
  <2>2. Decided = log[Primary]
    BY <2>1 DEF Decided
  <2>3. log[Primary] = <<>>
    BY <2>1, NodesAssumption
  <2> QED
    BY <2>1, <2>2, <2>3 DEF Stream!Init
<1>2. ASSUME Inv, [Next]_vars PROVE [Stream!Next]_(Stream!vars)
  BY <1>2, StreamStep DEF Stream!vars
<1> QED
  BY <1>1, <1>2, InvCorrect, PTL DEF Spec, ImplementsStream, Stream!Spec
=============================================================================
