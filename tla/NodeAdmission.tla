--------------------------- MODULE NodeAdmission ---------------------------
(***************************************************************************)
(* Frames on a storage node: RPC sessions, the route admission gate that a *)
(* new cluster map drains before it is installed, and the per-PG metadata  *)
(* command locks that a session keeps from one frame to the next.          *)
(*                                                                         *)
(* Source: crates/storage/src/storage_node_server/admission.rs,            *)
(*         crates/storage/src/storage_node_server/session.rs,              *)
(*         crates/storage/src/storage_node_server/server.rs                *)
(*         (install_control_plane_runtime_config),                         *)
(*         crates/storage/src/storage_node_server.rs (handle_session).     *)
(*                                                                         *)
(* A frame that waits for a lock holds a permit the installation waits     *)
(* for, and the holder of the lock may itself be waiting at the gate.      *)
(***************************************************************************)
EXTENDS Integers, Sequences, FiniteSets, SequencesExt

CONSTANTS Sessions,     \* connections of frontends to this node
          PGs,          \* placement groups of the node
          MaxEpoch,     \* bound on the cluster epochs installed
          MaxRenewals,  \* bound on the renewals of one map's validity
          NoPG,         \* no placement group
          NoGuard       \* the session does not keep the lock

ASSUME BoundsAssumption == MaxEpoch \in Nat \ {0} /\ MaxRenewals \in Nat
ASSUME NoPGAssumption == PGs # {} /\ NoPG \notin PGs
ASSUME SessionsAssumption == IsFiniteSet(Sessions)
ASSUME NoGuardAssumption == NoGuard \notin [epoch : 1..MaxEpoch, authority : {"current", "historical"}]

VARIABLES transition,    \* StorageNodeRouteTransitionState
          activeFrames,  \* active_frames of the gate
          installed,     \* runtime_route_state: epoch and renewals of its lease
          pc,            \* where the frame of a session is
          request,       \* the frame: what it asks for, of which PG, for which epoch
          seen,          \* the route state the frame was given after its admission
          guards,        \* locks a session keeps, by PG, with the binding each was taken under
          held,          \* PGs whose lock is held
          waiters        \* tickets of the frames that wait for a PG's lock

vars == <<transition, activeFrames, installed, pc, request, seen, guards, held, waiters>>

\* Frames that take and drop a session's lock, that apply under a lock, and that
\* mark the start of a publication in the section the session is in.
Kinds == {"acquire", "mutate", "mark", "release"}

\* StorageNodeMetadataCommandLockBinding of a frame of epoch e.
Binding(e, map) == [epoch |-> e, authority |-> IF e < map.epoch THEN "historical" ELSE "current"]
Bindings == [epoch : 1..MaxEpoch, authority : {"current", "historical"}]

\* The lock a frame holds for itself while it applies a mutation.
FrameHolds(s) == IF pc[s] = "apply" /\ guards[s][request[s].pg] = NoGuard THEN request[s].pg ELSE NoPG

HasPermit(s) == pc[s] \in {"dispatch", "lock", "apply", "reply"}

-----------------------------------------------------------------------------
(* A session: one frame after the other. *)

\* read_request_frame.  A frontend asks under its own map, which may be older
\* than this node's; it releases a lock only when it holds it.
Receive(s) ==
  /\ pc[s] = "idle"
  /\ \E k \in Kinds, pg \in PGs, e \in 1..installed.epoch :
       /\ k = "release" => guards[s][pg] # NoGuard
       /\ request' = [request EXCEPT ![s] = [kind |-> k, pg |-> pg, epoch |-> e]]
  /\ pc' = [pc EXCEPT ![s] = "gate"]
  /\ UNCHANGED <<transition, activeFrames, installed, seen, guards, held, waiters>>

\* MetadataCommandPgLockRelease is retained cleanup; the others are active.
\* Variant: the gate closes when the map is replaced, not before.
AdmittedUntilPublishing(k) == transition # "Publishing"
\* Variant: cleanup is admitted whatever the gate does.
AdmittedAlways(k) == transition = "Open" \/ k = "release"
Admitted(k) == transition = "Open" \/ (k = "release" /\ transition = "Draining")

\* Every permit that is handed out is counted.
\* Variant: cleanup is let through without being counted.
CountedIfActive(k) == activeFrames + (IF k = "release" THEN 0 ELSE 1)
Counted(k) == activeFrames + 1

\* StorageNodeRouteAdmissionGate::acquire and refresh_config_snapshot.
Admit(s) ==
  /\ pc[s] = "gate" /\ Admitted(request[s].kind)
  /\ activeFrames' = Counted(request[s].kind)
  /\ seen' = [seen EXCEPT ![s] = installed]
  /\ pc' = [pc EXCEPT ![s] = "dispatch"]
  /\ UNCHANGED <<transition, installed, request, guards, held, waiters>>

\* remove_metadata_command_lock_waiter; a ticket is in its queue once.
\* Variant: the ticket stays in the queue.
TicketKept(s, pg) == waiters
TicketRemoved(s, pg) ==
  [waiters EXCEPT ![pg] = RemoveAt(@, CHOOSE i \in DOMAIN waiters[pg] : waiters[pg][i] = s)]

\* holds_metadata_command_pg_lock_with_binding.
\* Variant: only the epoch of the binding is compared.
SameEpochHeld(s) ==
  guards[s][request[s].pg] # NoGuard /\ guards[s][request[s].pg].epoch = request[s].epoch
ExactBindingHeld(s) == guards[s][request[s].pg] = Binding(request[s].epoch, seen[s])

Held(s) == guards[s][request[s].pg] # NoGuard

\* dispatch_frame.  The route or the recovery authority that a frame needs may
\* be missing from the map; a start of publication needs the exact section, a
\* release its section, and any other frame waits for the lock when its
\* session does not have it.
Refuse(s) ==
  /\ pc[s] = "dispatch" /\ request[s].kind # "release"
  /\ request[s].kind = "mark" => ~ExactBindingHeld(s)
  /\ pc' = [pc EXCEPT ![s] = "reply"]
  /\ UNCHANGED <<transition, activeFrames, installed, request, seen, guards, held, waiters>>

Release(s) ==
  /\ pc[s] = "dispatch" /\ request[s].kind = "release"
  /\ guards' = [guards EXCEPT ![s][request[s].pg] = NoGuard]
  /\ held' = held \ {request[s].pg}
  /\ pc' = [pc EXCEPT ![s] = "reply"]
  /\ UNCHANGED <<transition, activeFrames, installed, request, seen, waiters>>

Proceed(s) ==
  /\ pc[s] = "dispatch"
  /\ \/ request[s].kind = "mark" /\ ExactBindingHeld(s) /\ pc' = [pc EXCEPT ![s] = "apply"]
     \/ request[s].kind = "mutate" /\ Held(s) /\ pc' = [pc EXCEPT ![s] = "apply"]
     \/ request[s].kind = "acquire" /\ Held(s) /\ pc' = [pc EXCEPT ![s] = "reply"]
  /\ UNCHANGED <<transition, activeFrames, installed, request, seen, guards, held, waiters>>

Enqueue(s) ==
  /\ pc[s] = "dispatch" /\ request[s].kind \in {"acquire", "mutate"} /\ ~Held(s)
  /\ waiters' = [waiters EXCEPT ![request[s].pg] = Append(@, s)]
  /\ pc' = [pc EXCEPT ![s] = "lock"]
  /\ UNCHANGED <<transition, activeFrames, installed, request, seen, guards, held>>

Dispatch(s) == Refuse(s) \/ Release(s) \/ Proceed(s) \/ Enqueue(s)

\* acquire_with_deadline: the first ticket takes a lock nobody holds; the
\* session keeps it for an acquire, the frame for a mutation.
MayTake(s, pg) == pg \notin held /\ Head(waiters[pg]) = s
Take(s) ==
  LET r == request[s]
  IN /\ pc[s] = "lock" /\ MayTake(s, r.pg)
     /\ waiters' = TicketRemoved(s, r.pg)
     /\ held' = held \cup {r.pg}
     /\ guards' = IF r.kind = "acquire" THEN [guards EXCEPT ![s][r.pg] = Binding(r.epoch, seen[s])] ELSE guards
     /\ pc' = [pc EXCEPT ![s] = IF r.kind = "acquire" THEN "reply" ELSE "apply"]
  /\ UNCHANGED <<transition, activeFrames, installed, request, seen>>

\* The deadline passes: contention is reported.
Timeout(s) ==
  /\ pc[s] = "lock"
  /\ waiters' = TicketRemoved(s, request[s].pg)
  /\ pc' = [pc EXCEPT ![s] = "reply"]
  /\ UNCHANGED <<transition, activeFrames, installed, request, seen, guards, held>>

\* The mutation is applied; a lock taken for the frame is dropped with it.
Apply(s) ==
  /\ pc[s] = "apply"
  /\ held' = held \ {FrameHolds(s)}
  /\ pc' = [pc EXCEPT ![s] = "reply"]
  /\ UNCHANGED <<transition, activeFrames, installed, request, seen, guards, waiters>>

\* The response is written and the permit dropped.
Reply(s) ==
  /\ pc[s] = "reply"
  /\ activeFrames' = activeFrames - 1
  /\ pc' = [pc EXCEPT ![s] = "idle"]
  /\ UNCHANGED <<transition, installed, request, seen, guards, held, waiters>>

\* What the end of a session leaves held.
\* Variant: the locks of a session outlive it.
HeldAfterEndAll(s) == held
HeldAfterEnd(s) == held \ {pg \in PGs : guards[s][pg] # NoGuard}

Ended(s) ==
  /\ held' = HeldAfterEnd(s)
  /\ guards' = [guards EXCEPT ![s] = [pg \in PGs |-> NoGuard]]
  /\ pc' = [pc EXCEPT ![s] = "closed"]

\* The response cannot be written, or the connection is not to be used again:
\* the permit, then the session, are dropped.
ReplyFails(s) ==
  /\ pc[s] = "reply"
  /\ activeFrames' = activeFrames - 1
  /\ Ended(s)
  /\ UNCHANGED <<transition, installed, request, seen, waiters>>

\* The peer closes the connection, or sends nothing for the I/O timeout.
Disconnect(s) ==
  /\ pc[s] = "idle"
  /\ Ended(s)
  /\ UNCHANGED <<transition, activeFrames, installed, request, seen, waiters>>

\* accept_and_spawn: a new session.
Connect(s) ==
  /\ pc[s] = "closed"
  /\ pc' = [pc EXCEPT ![s] = "idle"]
  /\ UNCHANGED <<transition, activeFrames, installed, request, seen, guards, held, waiters>>

-----------------------------------------------------------------------------
(* install_control_plane_runtime_config; the install lock admits one at a   *)
(* time.                                                                    *)

\* A map that only extends the validity replaces the one installed at once.
Renew ==
  /\ transition = "Open" /\ installed.renewals < MaxRenewals
  /\ installed' = [installed EXCEPT !.renewals = @ + 1]
  /\ UNCHANGED <<transition, activeFrames, pc, request, seen, guards, held, waiters>>

\* begin_transition: admission closes,
BeginTransition ==
  /\ transition = "Open" /\ installed.epoch < MaxEpoch
  /\ transition' = "Draining"
  /\ UNCHANGED <<activeFrames, installed, pc, request, seen, guards, held, waiters>>

\* and when no frame is left the map is replaced.
Drained == activeFrames = 0
Drain ==
  /\ transition = "Draining" /\ Drained
  /\ transition' = "Publishing"
  /\ UNCHANGED <<activeFrames, installed, pc, request, seen, guards, held, waiters>>

\* The staged configuration is published, or cannot be; the gate opens.
Publish ==
  /\ transition = "Publishing"
  /\ \/ installed' = [epoch |-> installed.epoch + 1, renewals |-> 0]
     \/ UNCHANGED installed
  /\ transition' = "Open"
  /\ UNCHANGED <<activeFrames, pc, request, seen, guards, held, waiters>>

-----------------------------------------------------------------------------
Init ==
  /\ transition = "Open" /\ activeFrames = 0
  /\ installed = [epoch |-> 1, renewals |-> 0]
  /\ pc = [s \in Sessions |-> "idle"]
  /\ request = [s \in Sessions |-> [kind |-> "mutate", pg |-> CHOOSE pg \in PGs : TRUE, epoch |-> 1]]
  /\ seen = [s \in Sessions |-> installed]
  /\ guards = [s \in Sessions |-> [pg \in PGs |-> NoGuard]]
  /\ held = {}
  /\ waiters = [pg \in PGs |-> <<>>]

\* What the node does with a frame it has received.
Serve(s) ==
  \/ Admit(s) \/ Dispatch(s) \/ Take(s) \/ Timeout(s) \/ Apply(s) \/ Reply(s)

Next ==
  \/ \E s \in Sessions : Receive(s) \/ Serve(s) \/ ReplyFails(s) \/ Disconnect(s) \/ Connect(s)
  \/ Renew \/ BeginTransition \/ Drain \/ Publish

Spec == Init /\ [][Next]_vars

\* Threads of the node that can run do, and a wait for a lock ends when its
\* time is over.  Peers owe nothing.
FairSpec ==
  /\ Spec
  /\ \A s \in Sessions :
       WF_vars(Admit(s)) /\ WF_vars(Dispatch(s)) /\ WF_vars(Timeout(s)) /\ WF_vars(Apply(s)) /\ WF_vars(Reply(s))
  /\ WF_vars(Drain) /\ WF_vars(Publish)

-----------------------------------------------------------------------------
(* Properties.                                                              *)

\* Type correctness; active_frames is the number of permits that are out, so
\* that the drop of one never underflows.
TypeOK ==
  /\ transition \in {"Open", "Draining", "Publishing"}
  /\ activeFrames \in Nat /\ activeFrames = Cardinality({s \in Sessions : HasPermit(s)})
  /\ installed \in [epoch : 1..MaxEpoch, renewals : 0..MaxRenewals]
  /\ pc \in [Sessions -> {"idle", "gate", "dispatch", "lock", "apply", "reply", "closed"}]
  /\ request \in [Sessions -> [kind : Kinds, pg : PGs, epoch : 1..MaxEpoch]]
  /\ seen \in [Sessions -> [epoch : 1..MaxEpoch, renewals : 0..MaxRenewals]]
  /\ guards \in [Sessions -> [PGs -> Bindings \cup {NoGuard}]]
  /\ held \subseteq PGs
  /\ waiters \in [PGs -> Seq(Sessions)]

\* A frame that is being served works on the map that is installed: no map is
\* replaced under a frame, whichever class it was admitted in
\* (StorageNodeRouteAdmissionGate, refresh_config_snapshot).
FramesSeeInstalledMap == \A s \in Sessions : HasPermit(s) => seen[s].epoch = installed.epoch

\* The lock of a PG is held exactly while one session or one frame has it: two
\* critical sections of a PG never overlap, and one that ends by a release, a
\* disconnection or a failed reply leaves no lock behind.
SectionsAccountedFor ==
  \A pg \in PGs :
    Cardinality({s \in Sessions : guards[s][pg] # NoGuard \/ FrameHolds(s) = pg}) = (IF pg \in held THEN 1 ELSE 0)

\* A publication is only started in a section that its session entered with the
\* authority the installed map gives to the command's epoch: one entered as
\* current primary does not outlive the epoch, although the lock does
\* (metadata_command_publication_start_response).
StartsInCurrentSection ==
  \A s \in Sessions :
    (pc[s] = "apply" /\ request[s].kind = "mark")
      => guards[s][request[s].pg] = Binding(request[s].epoch, installed)

\* Every ticket in a queue is that of a frame that is waiting, once: a ticket
\* that is left behind would keep every later frame of the PG from its lock.
TicketsAreLive ==
  \A pg \in PGs :
    /\ IsInjective(waiters[pg])
    /\ \A s \in Sessions : s \in Range(waiters[pg]) <=> (pc[s] = "lock" /\ request[s].pg = pg)

\* An installation that has closed admission comes to its end, although frames
\* it waits for may wait for a lock whose holder waits at the gate.
TransitionEnds == (transition # "Open") ~> (transition = "Open")
=============================================================================
