------------------------- MODULE CommandPublication -------------------------
(***************************************************************************)
(* Publication of metadata commands to the acting set of a placement group *)
(* (PG).                                                                   *)
(*                                                                         *)
(* A frontend that changes metadata installs a command in the pending slot *)
(* of the PG's primary and then applies it on every node of the acting     *)
(* set: first on the witness, then on the primary, then on the others.     *)
(* Each node keeps a contiguous log of the commands it applied and of the  *)
(* ones it abandoned.  Any frontend that finds a command in the slot may   *)
(* finish it, abandon it or reissue it at the next index, so several       *)
(* frontends can be working on one command at once.  What they do to the   *)
(* PG is serialised by the primary's command lock (the critical section),  *)
(* and each of them must first find out how far the others have got.       *)
(*                                                                         *)
(* Source, under crates/storage/src: cluster/request_ops/                  *)
(* metadata_commands.rs and support.rs (the frontend), cluster/            *)
(* metadata_operations.rs and metadata_support.rs (reconstruction and      *)
(* reissue), pg_store/command_log.rs (slot and log of a node).             *)
(*                                                                         *)
(* Faults.  A frontend can stop at any point.  The primary can lose the    *)
(* session that holds the section while its frontend goes on.  A request   *)
(* to a replica whose answer the frontend does not wait for stays in       *)
(* `late' and is executed at any later time or never.  A request to the    *)
(* primary is executed with the section held, so one that the frontend has *)
(* given up is either executed before anyone else enters, or never.        *)
(***************************************************************************)
EXTENDS Naturals, Sequences, FiniteSets

CONSTANTS Nodes,         \* the acting set
          Primary,       \* its metadata primary
          Witness,       \* the lowest other node
          Frontends,     \* frontends, and recovery workers
          NoFrontend,    \* nobody holds the section
          Payloads,      \* mutations, each asked for once
          NoPayload,     \* no command
          MaxIndex,      \* bound on log indexes
          MarkMayVanish  \* a mark may be lost with its session and look delivered

ASSUME NodesAssumption ==
    /\ IsFiniteSet(Nodes)
    /\ Primary \in Nodes
    /\ Witness \in Nodes \ {Primary}
ASSUME NamesAssumption == NoFrontend \notin Frontends /\ NoPayload \notin Payloads
ASSUME BoundAssumption == MaxIndex \in Nat
ASSUME MarkAssumption == MarkMayVanish \in BOOLEAN

Commands == [payload : Payloads, index : Nat \ {0}]
NoCommand == [payload |-> NoPayload, index |-> 0]
Entries == [payload : Payloads, abandoned : BOOLEAN]
Requests == [node : Nodes, command : Commands, abandoned : BOOLEAN]

\* MetadataCommandApplyProgress, in the order in which knowledge is merged.
Progress == {"Abortable", "PublicationStarted", "Witnessed",
             "PublicationUnconfirmed", "Published"}
Rank == [p \in Progress |-> CASE p = "Abortable" -> 0
                              [] p = "PublicationStarted" -> 1
                              [] p = "Witnessed" -> 2
                              [] p = "PublicationUnconfirmed" -> 3
                              [] p = "Published" -> 4]
Merge(p, q) == IF Rank[p] < Rank[q] THEN q ELSE p

Stages == {"idle", "check", "apply", "fanout", "abandon", "tombstone",
           "reissue", "reload", "remove"}

VARIABLES
    log,       \* each node's command log
    slot,      \* the command in the primary's pending slot
    started,   \* its publication_started flag
    section,   \* the frontend whose session holds the command lock
    late,      \* requests to replicas that may still be executed
    issued,    \* payloads for which a command has been installed
    acked,     \* commands reported to the client as applied
    op         \* what each frontend is doing

vars == <<log, slot, started, section, late, issued, acked, op>>

Idle == [stage |-> "idle", command |-> NoCommand, progress |-> "Abortable",
         owned |-> FALSE, todo |-> {}]

\* The operation of a frontend: its command, what it knows of its
\* publication, whether that knowledge is authoritative (the command is its
\* own or was reissued by it) and the nodes it still has to visit.
Operations == [stage : Stages, command : Commands \cup {NoCommand},
               progress : Progress, owned : BOOLEAN, todo : SUBSET Nodes]

TypeOK ==
    /\ log \in [Nodes -> Seq(Entries)]
    /\ slot \in Commands \cup {NoCommand}
    /\ started \in BOOLEAN
    /\ section \in Frontends \cup {NoFrontend}
    /\ late \subseteq Requests
    /\ issued \subseteq Payloads
    /\ acked \subseteq Commands
    /\ op \in [Frontends -> Operations]

Init ==
    /\ log = [n \in Nodes |-> <<>>]
    /\ slot = NoCommand
    /\ started = FALSE
    /\ section = NoFrontend
    /\ late = {}
    /\ issued = {}
    /\ acked = {}
    /\ op = [f \in Frontends |-> Idle]

-----------------------------------------------------------------------------
(* A node's log. *)

Entry(c, abandoned) == [payload |-> c.payload, abandoned |-> abandoned]

\* What a node answers when asked to record the end of command c.
Acceptance(n, c, abandoned) ==
    IF c.index > Len(log[n]) + 1 THEN "Gap"
    ELSE IF c.index = Len(log[n]) + 1 THEN "Apply"
    ELSE IF log[n][c.index] = Entry(c, abandoned) THEN "AlreadyApplied"
    ELSE "Conflict"

Exact(n, c) == Acceptance(n, c, FALSE) = "AlreadyApplied"
Abandoned(n, c) == Acceptance(n, c, TRUE) = "AlreadyApplied"

\* The logs once node n has executed the request to record c.
Recorded(n, c, abandoned) ==
    IF Acceptance(n, c, abandoned) = "Apply"
    THEN [log EXCEPT ![n] = Append(@, Entry(c, abandoned))]
    ELSE log

\* Variant: the publication-start marker is not read.
ReconstructedIgnoringMark(R, c) ==
    LET exact == {n \in R : Exact(n, c)}
    IN  IF {Primary, Witness} \subseteq exact THEN "Published"
        ELSE IF Witness \in exact THEN "Witnessed"
        ELSE IF exact # {} THEN "PublicationUnconfirmed"
        ELSE IF R # Nodes THEN "Unknown"
        ELSE "Abortable"

\* Progress rebuilt from what the nodes in R, the ones that answer, hold of
\* command c.  "Unknown" stands for no answer and for the errors.
Reconstructed(R, c) ==
    LET exact == {n \in R : Exact(n, c)}
        abandoned == {n \in R : Abandoned(n, c)}
        conflicting == {n \in R : Acceptance(n, c, FALSE) = "Conflict"} \ abandoned
        marked == Primary \in R /\ slot = c /\ started
    IN  IF exact # {} /\ (conflicting # {} \/ abandoned # {}) THEN "Unknown"
        ELSE IF marked /\ abandoned # {} THEN "Unknown"
        ELSE IF {Primary, Witness} \subseteq exact THEN "Published"
        ELSE IF Witness \in exact THEN "Witnessed"
        ELSE IF exact # {} THEN "PublicationUnconfirmed"
        ELSE IF marked THEN "PublicationStarted"
        ELSE IF R # Nodes THEN "Unknown"
        ELSE "Abortable"

\* Progress seen, without the section, after an attempt failed.
Observed(R, c) ==
    IF Primary \in R /\ Exact(Primary, c) THEN "Published"
    ELSE IF Witness \in R /\ Exact(Witness, c) THEN "Witnessed"
    ELSE "Abortable"

-----------------------------------------------------------------------------
(* The frontend. *)

\* Variant: the primary is published before the witness.
FirstToApplyPrimary(todo, n) == n \in todo /\ (n # Primary => Primary \notin todo)

\* Publication order: the witness, the primary, the others.
FirstToApply(todo, n) ==
    /\ n \in todo
    /\ n # Witness => Witness \notin todo
    /\ n \notin {Witness, Primary} => Primary \notin todo

\* Abandonment order: the primary first.
FirstToAbandon(todo, n) == n \in todo /\ (n # Primary => Primary \notin todo)

Released(f) == IF section = f THEN NoFrontend ELSE section

\* What the caller does after an attempt to apply f's command failed with
\* progress p: hand a published command over to recovery, retry, reissue
\* after a conflict, or abandon.  (Leave covers the policies that return the
\* error instead.)
NextStages(p, cause) ==
    IF p # "Abortable" THEN {"apply"}
    ELSE CASE cause = "conflict" -> {"reissue"}
           [] cause = "refused" -> {"abandon"}
           [] cause = "fault" -> {"check", "abandon"}

ApplyFailed(f, p, cause) ==
    /\ section' = Released(f)
    /\ \E R \in SUBSET {Primary, Witness} :
        LET q == Merge(p, Observed(R, op[f].command))
        IN  IF q = "Published" /\ cause # "conflict"
            THEN /\ acked' = acked \cup {op[f].command}
                 /\ op' = [op EXCEPT ![f] = Idle]
            ELSE /\ UNCHANGED acked
                 /\ \E s \in NextStages(q, cause) :
                        op' = [op EXCEPT ![f].stage = s, ![f].progress = q,
                                         ![f].todo = {}]

\* Variant: the index of the last entry instead of the next one.
InstallAtTip(f, p) ==
    /\ op[f].stage = "idle"
    /\ section = NoFrontend
    /\ slot = NoCommand
    /\ p \notin issued
    /\ slot' = [payload |-> p, index |-> Len(log[Primary])]
    /\ started' = FALSE
    /\ issued' = issued \cup {p}
    /\ op' = [op EXCEPT ![f] = [Idle EXCEPT !.stage = "check", !.command = slot', !.owned = TRUE]]
    /\ UNCHANGED <<log, section, late, acked>>

\* A new command is installed in the empty slot.  The index was read
\* earlier; an install succeeds only if it is still the next one.
Install(f, p) ==
    /\ op[f].stage = "idle"
    /\ section = NoFrontend
    /\ slot = NoCommand
    /\ p \notin issued
    /\ Len(log[Primary]) < MaxIndex
    /\ slot' = [payload |-> p, index |-> Len(log[Primary]) + 1]
    /\ started' = FALSE
    /\ issued' = issued \cup {p}
    /\ op' = [op EXCEPT ![f] = [Idle EXCEPT !.stage = "check", !.command = slot', !.owned = TRUE]]
    /\ UNCHANGED <<log, section, late, acked>>

\* A frontend finds the slot occupied and sets out to finish its command.
Adopt(f) ==
    /\ op[f].stage = "idle"
    /\ slot # NoCommand
    /\ op' = [op EXCEPT ![f] = [Idle EXCEPT !.stage = "check", !.command = slot]]
    /\ UNCHANGED <<log, slot, started, section, late, issued, acked>>

\* Outside the section: has some node abandoned the command?
CheckAbandoned(f) ==
    /\ op[f].stage = "check"
    /\ op' = [op EXCEPT ![f].stage =
                 IF \E n \in Nodes : Abandoned(n, op[f].command) THEN "abandon" ELSE "apply"]
    /\ UNCHANGED <<log, slot, started, section, late, issued, acked>>

\* An attempt to apply enters the section and rebuilds the progress of a
\* command that this frontend did not install.
EnterApply(f) ==
    /\ op[f].stage = "apply"
    /\ section = NoFrontend
    /\ \E R \in SUBSET Nodes :
        LET c == op[f].command
            p == IF op[f].progress = "Abortable" /\ ~op[f].owned
                 THEN Reconstructed(R, c) ELSE op[f].progress
            a == Acceptance(Primary, c, FALSE)
            q == IF a = "AlreadyApplied" THEN "Published" ELSE p
        IN  \/ /\ p = "Unknown"
               /\ op' = [op EXCEPT ![f] = Idle]
               /\ UNCHANGED <<section, acked>>
            \/ /\ p # "Unknown"
               /\ a \in {"Conflict", "Gap"}
               /\ ApplyFailed(f, p, IF a = "Conflict" THEN "conflict" ELSE "refused")
            \/ /\ p # "Unknown"
               /\ a = "Apply" /\ p = "Abortable"   \* the reservation is gone
               /\ ApplyFailed(f, p, "refused")
            \/ /\ p # "Unknown"
               /\ a \in {"Apply", "AlreadyApplied"}
               /\ section' = f
               /\ op' = [op EXCEPT ![f].stage = "fanout", ![f].progress = q,
                                   ![f].todo = Nodes]
               /\ UNCHANGED acked
    /\ UNCHANGED <<log, slot, started, late, issued>>

\* The section cannot be opened or has been lost, a node does not answer, or
\* the primary refuses the mark.
AttemptFaults(f) ==
    /\ op[f].stage \in {"apply", "fanout"}
    /\ ApplyFailed(f, op[f].progress, "fault")
    /\ UNCHANGED <<log, slot, started, late, issued>>

\* The primary marks exactly the command in its slot, if it could apply it.
Markable(c) == slot = c /\ Acceptance(Primary, c, FALSE) \in {"Apply", "AlreadyApplied"}

\* Before the first apply request leaves, the slot is marked: from then on
\* nobody may abandon or reissue the command.
Mark(f) ==
    /\ op[f].stage = "fanout"
    /\ op[f].progress = "Abortable"
    /\ \E n \in op[f].todo :
        FirstToApply(op[f].todo, n) /\ Acceptance(n, op[f].command, FALSE) = "Apply"
    /\ \E arrives \in (IF MarkMayVanish THEN BOOLEAN ELSE {TRUE}) :
        /\ arrives => section = f /\ Markable(op[f].command)
        /\ started' = (started \/ arrives)
        /\ \/ /\ arrives
              /\ op' = [op EXCEPT ![f].progress = "PublicationStarted"]
              /\ UNCHANGED <<section, acked>>
           \/ ApplyFailed(f, "PublicationUnconfirmed", "fault")  \* answer lost
    /\ UNCHANGED <<log, slot, late, issued>>

\* What the frontend knows once node n has applied the command.
AppliedAt(n, p) == IF n = Primary THEN "Published"
                   ELSE IF n = Witness THEN Merge(p, "Witnessed") ELSE p

\* The command is applied on the next node, which answers.
ApplyAt(f, n) ==
    LET c == op[f].command  a == Acceptance(n, c, FALSE)
    IN  /\ op[f].stage = "fanout"
        /\ FirstToApply(op[f].todo, n)
        /\ n = Primary => section = f
        /\ a = "AlreadyApplied" \/ (a = "Apply" /\ op[f].progress # "Abortable")
        /\ log' = Recorded(n, c, FALSE)
        /\ op' = [op EXCEPT ![f].progress = AppliedAt(n, @), ![f].todo = @ \ {n}]
        /\ UNCHANGED <<slot, started, section, late, issued, acked>>

\* A replica refuses the command: it holds something else at that index, or
\* lacks the entries before it.
RefusedAt(f, n) ==
    LET a == Acceptance(n, op[f].command, FALSE)
    IN  /\ op[f].stage = "fanout"
        /\ FirstToApply(op[f].todo, n)
        /\ n # Primary
        /\ a \in {"Conflict", "Gap"}
        /\ ApplyFailed(f, op[f].progress, IF a = "Conflict" THEN "conflict" ELSE "refused")
        /\ UNCHANGED <<log, slot, started, late, issued>>

\* The request leaves and no answer comes back.
ApplyLost(f, n) ==
    LET c == op[f].command
    IN  /\ op[f].stage = "fanout"
        /\ op[f].progress # "Abortable"
        /\ FirstToApply(op[f].todo, n)
        /\ Acceptance(n, c, FALSE) = "Apply"
        /\ IF n = Primary
           THEN /\ \/ UNCHANGED log
                   \/ section = f /\ log' = Recorded(n, c, FALSE)
                /\ UNCHANGED late
                /\ ApplyFailed(f, Merge(op[f].progress, "PublicationUnconfirmed"), "fault")
           ELSE /\ late' = late \cup {[node |-> n, command |-> c, abandoned |-> FALSE]}
                /\ UNCHANGED log
                /\ ApplyFailed(f, Merge(op[f].progress, "Witnessed"), "fault")
        /\ UNCHANGED <<slot, started, issued>>

\* The whole acting set has applied the command.
Converge(f) ==
    /\ op[f].stage = "fanout"
    /\ op[f].todo = {}
    /\ section' = Released(f)
    /\ acked' = acked \cup {op[f].command}
    /\ op' = [op EXCEPT ![f].stage = "remove"]
    /\ UNCHANGED <<log, slot, started, late, issued>>

\* Variant: abandonment trusts what the frontend knew before the section.
EnterAbandonBlindly(f) ==
    /\ op[f].stage = "abandon"
    /\ section = NoFrontend
    /\ section' = f
    /\ op' = [op EXCEPT ![f].stage = "tombstone", ![f].todo = Nodes]
    /\ UNCHANGED <<log, slot, started, late, issued, acked>>

\* Abandonment enters the section and makes sure that nothing has started.
EnterAbandon(f) ==
    /\ op[f].stage = "abandon"
    /\ section = NoFrontend
    /\ \E R \in SUBSET Nodes :
        IF Reconstructed(R, op[f].command) = "Abortable"
        THEN /\ section' = f
             /\ op' = [op EXCEPT ![f].stage = "tombstone", ![f].todo = Nodes]
        ELSE /\ op' = [op EXCEPT ![f] = Idle]
             /\ UNCHANGED section
    /\ UNCHANGED <<log, slot, started, late, issued, acked>>

\* The tombstone is recorded on the next node, which answers.
TombstoneAt(f, n) ==
    LET c == op[f].command
    IN  /\ op[f].stage = "tombstone"
        /\ FirstToAbandon(op[f].todo, n)
        /\ n = Primary => section = f
        /\ Acceptance(n, c, TRUE) \in {"Apply", "AlreadyApplied"}
        /\ log' = Recorded(n, c, TRUE)
        /\ op' = [op EXCEPT ![f].todo = @ \ {n}]
        /\ UNCHANGED <<slot, started, section, late, issued, acked>>

\* The request leaves, no answer comes back, and the error is returned.
TombstoneLost(f, n) ==
    LET c == op[f].command
    IN  /\ op[f].stage = "tombstone"
        /\ FirstToAbandon(op[f].todo, n)
        /\ Acceptance(n, c, TRUE) = "Apply"
        /\ IF n = Primary
           THEN section = f /\ log' = Recorded(n, c, TRUE) /\ UNCHANGED late
           ELSE /\ late' = late \cup {[node |-> n, command |-> c, abandoned |-> TRUE]}
                /\ UNCHANGED log
        /\ section' = Released(f)
        /\ op' = [op EXCEPT ![f] = Idle]
        /\ UNCHANGED <<slot, started, issued, acked>>

\* Every node has the tombstone.
AbandonDone(f) ==
    /\ op[f].stage = "tombstone"
    /\ op[f].todo = {}
    /\ section' = Released(f)
    /\ op' = [op EXCEPT ![f].stage = "remove"]
    /\ UNCHANGED <<log, slot, started, late, issued, acked>>

\* Variant: whatever is in the slot is removed.
RemoveAnySlot(f) ==
    /\ op[f].stage = "remove"
    /\ section = NoFrontend
    /\ slot' = NoCommand /\ started' = FALSE
    /\ op' = [op EXCEPT ![f] = Idle]
    /\ UNCHANGED <<log, section, late, issued, acked>>

\* The finished command leaves the slot, if it is still there.
RemoveSlot(f) ==
    /\ op[f].stage = "remove"
    /\ section = NoFrontend
    /\ IF slot = op[f].command /\ (Exact(Primary, slot) \/ Abandoned(Primary, slot))
       THEN slot' = NoCommand /\ started' = FALSE
       ELSE UNCHANGED <<slot, started>>
    /\ op' = [op EXCEPT ![f] = Idle]
    /\ UNCHANGED <<log, section, late, issued, acked>>

\* The command's index is taken by something else: move it to the next one,
\* unless somebody has moved, finished or marked it.  m is the highest index
\* that was found on the acting set before the section was entered.
Reissue(f) ==
    LET c == op[f].command
        tip == Len(log[Primary])
        next == (IF tip < c.index THEN c.index ELSE tip) + 1
    IN  /\ op[f].stage = "reissue"
        /\ section = NoFrontend
        /\ \E n \in Nodes : \E m \in 0..Len(log[n]) :
            \/ /\ slot = NoCommand \/ slot.payload # c.payload
               /\ op' = [op EXCEPT ![f] = Idle]
               /\ UNCHANGED <<slot, started>>
            \/ /\ slot = c /\ m <= tip /\ ~started
               /\ next <= MaxIndex
               /\ slot' = [c EXCEPT !.index = next]
               /\ UNCHANGED started
               /\ \/ op' = [op EXCEPT ![f].stage = "check", ![f].command = slot',
                                      ![f].progress = "Abortable", ![f].owned = TRUE]
                  \/ op' = [op EXCEPT ![f] = Idle]   \* answer lost
            \/ /\ slot.payload = c.payload
               /\ slot # c \/ m > tip \/ started
               /\ op' = [op EXCEPT ![f].stage = "reload", ![f].command = slot]
               /\ UNCHANGED <<slot, started>>
        /\ UNCHANGED <<log, section, late, issued, acked>>

\* The command was reissued by another frontend: go on with the command that
\* was found in the slot if the acting set is consistent with it.
Reload(f) ==
    LET c == op[f].command
        tip == Len(log[Primary])
        consistent ==
            IF c.index = tip THEN Exact(Primary, c)
            ELSE /\ c.index = tip + 1
                 /\ \A n \in Nodes : Len(log[n]) = tip \/ Exact(n, c)
    IN  /\ op[f].stage = "reload"
        /\ op' = [op EXCEPT ![f] =
                    IF consistent
                    THEN [@ EXCEPT !.stage = "check", !.progress = "Abortable", !.owned = TRUE]
                    ELSE Idle]
        /\ UNCHANGED <<log, slot, started, section, late, issued, acked>>

\* The frontend stops, or its operation ends with an error.
Leave(f) ==
    /\ op[f].stage # "idle"
    /\ section' = Released(f)
    /\ op' = [op EXCEPT ![f] = Idle]
    /\ UNCHANGED <<log, slot, started, late, issued, acked>>

\* The primary restarts or drops the session; its frontend has yet to notice.
LoseSection ==
    /\ section # NoFrontend
    /\ section' = NoFrontend
    /\ UNCHANGED <<log, slot, started, late, issued, acked, op>>

\* A replica executes a request nobody waits for any more, or never will.
ExecuteLate(q) ==
    /\ q \in late
    /\ log' = Recorded(q.node, q.command, q.abandoned)
    /\ late' = late \ {q}
    /\ UNCHANGED <<slot, started, section, issued, acked, op>>

DropLate(q) ==
    /\ q \in late
    /\ late' = late \ {q}
    /\ UNCHANGED <<log, slot, started, section, issued, acked, op>>

FrontendStep(f) ==
    \/ \E p \in Payloads : Install(f, p)
    \/ Adopt(f)
    \/ CheckAbandoned(f)
    \/ EnterApply(f)
    \/ AttemptFaults(f)
    \/ Mark(f)
    \/ \E n \in Nodes : ApplyAt(f, n) \/ RefusedAt(f, n) \/ ApplyLost(f, n)
    \/ Converge(f)
    \/ EnterAbandon(f)
    \/ \E n \in Nodes : TombstoneAt(f, n) \/ TombstoneLost(f, n)
    \/ AbandonDone(f)
    \/ RemoveSlot(f)
    \/ Reissue(f)
    \/ Reload(f)
    \/ Leave(f)

Next ==
    \/ \E f \in Frontends : FrontendStep(f)
    \/ LoseSection
    \/ \E q \in late : ExecuteLate(q) \/ DropLate(q)

Spec == Init /\ [][Next]_vars

-----------------------------------------------------------------------------
(* Properties *)

\* The stream so far: what the primary holds, and a marked command that it
\* has not applied yet.
Decided ==
    IF started /\ slot.index = Len(log[Primary]) + 1
    THEN Append(log[Primary], Entry(slot, FALSE))
    ELSE log[Primary]

\* The end of command c is settled: whoever records it records this.
Settled(c, abandoned) ==
    c.index <= Len(Decided) /\ Decided[c.index] = Entry(c, abandoned)

\* Whatever the frontends, the primary's sessions and the network do, the
\* nodes copy one stream: marking a slot or recording a tombstone on the
\* primary decides an entry, everything else copies decided ones, and no
\* payload is applied at two indexes although it can be reissued.
Stream == INSTANCE CommandLog WITH decided <- Decided
ImplementsStream == Stream!Spec

\* No two nodes disagree on an index.  Reconstruction reports a command that
\* is applied on one node and abandoned or replaced on another as a violated
\* invariant; this says that such a state cannot arise.
LogsAgree ==
    \A m, n \in Nodes : \A i \in 1..Len(log[m]) :
        i <= Len(log[n]) => log[m][i] = log[n][i]

\* A command reported as applied, also one handed over to recovery, is on the
\* primary and on the witness.
AckedIsDurable ==
    \A c \in acked : Exact(Primary, c) /\ Exact(Witness, c)

\* While a request to a replica may still be executed its effect is settled,
\* so no later owner of the section can decide otherwise: the marker closes
\* the interval between the dispatch of an apply and its commit.
RequestsAreSettled ==
    \A q \in late : Settled(q.command, q.abandoned)

=============================================================================
