------------------------ MODULE NodeAdmission_proofs ------------------------
(***************************************************************************)
(* Proofs about NodeAdmission for every set of sessions and placement      *)
(* groups and every bound on epochs and renewals.                          *)
(***************************************************************************)
EXTENDS NodeAdmission, FiniteSetTheorems, SequenceTheorems, TLAPS

-----------------------------------------------------------------------------
(***************************************************************************)
(* The inductive invariant.                                                *)
(***************************************************************************)

Stages == {"idle", "gate", "dispatch", "lock", "apply", "reply", "closed"}
Maps == [epoch : 1..MaxEpoch, renewals : 0..MaxRenewals]
Frames == [kind : Kinds, pg : PGs, epoch : 1..MaxEpoch]

\* Type correctness without the count of the permits.
Typed ==
  /\ transition \in {"Open", "Draining", "Publishing"}
  /\ activeFrames \in Nat
  /\ installed \in Maps
  /\ pc \in [Sessions -> Stages]
  /\ request \in [Sessions -> Frames]
  /\ seen \in [Sessions -> Maps]
  /\ guards \in [Sessions -> [PGs -> Bindings \cup {NoGuard}]]
  /\ held \subseteq PGs
  /\ waiters \in [PGs -> Seq(Sessions)]

\* active_frames counts the permits, and a map is replaced when none is out.
Permits == {s \in Sessions : HasPermit(s)}
GateInv ==
  /\ activeFrames = Cardinality(Permits)
  /\ transition = "Publishing" => Permits = {} /\ installed.epoch < MaxEpoch
  /\ transition = "Draining" => installed.epoch < MaxEpoch

\* Where a frame is tells what it asks for and what its session holds: one
\* that waits for a lock does not have it, a release has it, and a start of
\* publication has the section of its binding.
FrameInv ==
  \A s \in Sessions :
    /\ pc[s] \in {"gate", "dispatch"} /\ request[s].kind = "release" => Held(s)
    /\ pc[s] = "lock" => request[s].kind \in {"acquire", "mutate"} /\ ~Held(s)
    /\ pc[s] = "apply" => request[s].kind \in {"mutate", "mark"}
    /\ pc[s] = "apply" /\ request[s].kind = "mark" => ExactBindingHeld(s)

\* The session, or its frame, has the lock of pg.
Owns(s, pg) == guards[s][pg] # NoGuard \/ FrameHolds(s) = pg

\* A lock is held when somebody has it, and nobody shares one.
LockInv ==
  /\ \A pg \in PGs : pg \in held <=> \E s \in Sessions : Owns(s, pg)
  /\ \A pg \in PGs : \A s, t \in Sessions : Owns(s, pg) /\ Owns(t, pg) => s = t

Inv == Typed /\ GateInv /\ FramesSeeInstalledMap /\ FrameInv /\ LockInv /\ TicketsAreLive

-----------------------------------------------------------------------------
(***************************************************************************)
(* Queues.                                                                 *)
(***************************************************************************)

\* RemoveAt drops one position and closes the gap.
LEMMA RemoveAtProperties ==
  ASSUME NEW S, NEW q \in Seq(S), NEW i \in 1..Len(q)
  PROVE  /\ RemoveAt(q, i) \in Seq(S)
         /\ Len(RemoveAt(q, i)) = Len(q) - 1
         /\ \A j \in 1..Len(q) - 1 :
              RemoveAt(q, i)[j] = IF j < i THEN q[j] ELSE q[j + 1]
<1> DEFINE a == SubSeq(q, 1, i - 1)  b == SubSeq(q, i + 1, Len(q))
<1>0. Len(q) \in Nat /\ \A j \in 1..Len(q) : q[j] \in S
  BY LenProperties, ElementOfSeq
<1>1. a \in Seq(S) /\ Len(a) = i - 1 /\ \A j \in 1..i - 1 : a[j] = q[j]
  <2>1. \A j \in 1..i - 1 : q[j] \in S
    BY <1>0
  <2>2. /\ a \in Seq(S)
        /\ Len(a) = IF 1 <= i - 1 THEN i - 1 - 1 + 1 ELSE 0
        /\ \A j \in 1..i - 1 - 1 + 1 : a[j] = q[1 + j - 1]
    BY <2>1, <1>0, SubSeqProperties, i - 1 \in Int, 1 \in Int
  <2> QED
    BY <2>2, <1>0
<1>2. /\ b \in Seq(S) /\ Len(b) = Len(q) - i
      /\ \A j \in 1..Len(q) - i : b[j] = q[i + j]
  <2>1. \A j \in i + 1..Len(q) : q[j] \in S
    BY <1>0
  <2>2. /\ b \in Seq(S)
        /\ Len(b) = IF i + 1 <= Len(q) THEN Len(q) - (i + 1) + 1 ELSE 0
        /\ \A j \in 1..Len(q) - (i + 1) + 1 : b[j] = q[i + 1 + j - 1]
    BY <2>1, <1>0, SubSeqProperties, i + 1 \in Int
  <2> QED
    BY <2>2, <1>0
<1>3. /\ a \o b \in Seq(S)
      /\ Len(a \o b) = Len(a) + Len(b)
      /\ \A j \in 1..Len(a) + Len(b) :
           (a \o b)[j] = IF j <= Len(a) THEN a[j] ELSE b[j - Len(a)]
  BY <1>1, <1>2, ConcatProperties
<1>4. RemoveAt(q, i) = a \o b
  BY DEF RemoveAt
<1> HIDE DEF a, b
<1>5. ASSUME NEW j \in 1..Len(q) - 1
      PROVE  (a \o b)[j] = IF j < i THEN q[j] ELSE q[j + 1]
  <2>1. CASE j < i
    BY <2>1, <1>0, <1>1, <1>2, <1>3
  <2>2. CASE ~(j < i)
    <3>1. (a \o b)[j] = b[j - (i - 1)]
      BY <2>2, <1>0, <1>1, <1>2, <1>3
    <3>2. j - (i - 1) \in 1..Len(q) - i /\ i + (j - (i - 1)) = j + 1
      BY <2>2, <1>0
    <3> QED
      BY <2>2, <3>1, <3>2, <1>2
  <2> QED
    BY <2>1, <2>2
<1> QED
  BY <1>0, <1>1, <1>2, <1>3, <1>4, <1>5

\* A ticket that leaves the queue is gone from it, and the others stay.
LEMMA TicketLeaves ==
  ASSUME NEW S, NEW q \in Seq(S), IsInjective(q), NEW s \in Range(q)
  PROVE  LET r == RemoveAt(q, CHOOSE i \in DOMAIN q : q[i] = s)
         IN r \in Seq(S) /\ IsInjective(r) /\ Range(r) = Range(q) \ {s}
<1> DEFINE i == CHOOSE k \in DOMAIN q : q[k] = s
           r == RemoveAt(q, i)
<1>0. DOMAIN q = 1..Len(q) /\ Len(q) \in Nat
  BY LenProperties
<1>1. i \in 1..Len(q) /\ q[i] = s
  BY <1>0 DEF Range
<1> HIDE DEF i
<1>2. /\ r \in Seq(S) /\ Len(r) = Len(q) - 1
      /\ \A j \in 1..Len(q) - 1 : r[j] = IF j < i THEN q[j] ELSE q[j + 1]
  BY <1>1, RemoveAtProperties
<1> HIDE DEF r
<1>3. DOMAIN r = 1..Len(q) - 1
  BY <1>2, LenProperties
<1>4. IsInjective(r)
  <2>1. ASSUME NEW a \in 1..Len(q) - 1, NEW b \in 1..Len(q) - 1, r[a] = r[b]
        PROVE  a = b
    <3> DEFINE at(j) == IF j < i THEN j ELSE j + 1
    <3>1. \A j \in 1..Len(q) - 1 : at(j) \in 1..Len(q) /\ r[j] = q[at(j)]
      BY <1>0, <1>1, <1>2
    <3>2. at(a) = at(b)
      BY <2>1, <3>1, <1>0 DEF IsInjective
    <3> QED
      BY <3>2, <1>0, <1>1
  <2> QED
    BY <2>1, <1>3 DEF IsInjective
<1>5. ASSUME NEW j \in 1..Len(q) - 1 PROVE r[j] \in Range(q) \ {s}
  <2>1. PICK k \in 1..Len(q) : k # i /\ r[j] = q[k]
    <3>1. CASE j < i
      BY <1>0, <1>1, <1>2, <3>1
    <3>2. CASE ~(j < i)
      <4>1. j + 1 \in 1..Len(q) /\ j + 1 # i /\ r[j] = q[j + 1]
        BY <1>0, <1>1, <1>2, <3>2
      <4> QED
        BY <4>1
    <3> QED
      BY <3>1, <3>2
  <2>2. q[k] # s
    BY <1>0, <1>1, <2>1 DEF IsInjective
  <2>3. q[k] \in Range(q)
    BY <1>0 DEF Range
  <2> QED
    BY <2>1, <2>2, <2>3
<1>6. ASSUME NEW k \in 1..Len(q), q[k] # s PROVE q[k] \in Range(r)
  <2>1. CASE k < i
    <3>1. k \in 1..Len(q) - 1 /\ r[k] = q[k]
      BY <2>1, <1>0, <1>1, <1>2
    <3> QED
      BY <3>1, <1>3 DEF Range
  <2>2. CASE k > i
    <3>1. k - 1 \in 1..Len(q) - 1 /\ r[k - 1] = q[k]
      BY <2>2, <1>0, <1>1, <1>2
    <3> QED
      BY <3>1, <1>3 DEF Range
  <2> QED
    BY <1>6, <1>1, <2>1, <2>2
<1>7. Range(r) = Range(q) \ {s}
  BY <1>0, <1>3, <1>5, <1>6 DEF Range
<1> QED
  BY <1>2, <1>4, <1>7 DEF r, i

\* A ticket that is not in the queue joins it at the end.
LEMMA TicketJoins ==
  ASSUME NEW S, NEW q \in Seq(S), IsInjective(q), NEW s \in S, s \notin Range(q)
  PROVE  /\ Append(q, s) \in Seq(S) /\ IsInjective(Append(q, s))
         /\ Range(Append(q, s)) = Range(q) \cup {s}
<1> DEFINE r == Append(q, s)
<1>0. DOMAIN q = 1..Len(q) /\ Len(q) \in Nat
  BY LenProperties
<1>1. /\ r \in Seq(S) /\ Len(r) = Len(q) + 1
      /\ \A j \in 1..Len(q) : r[j] = q[j]
      /\ r[Len(q) + 1] = s
  BY AppendProperties
<1>2. DOMAIN r = 1..Len(q) + 1
  BY <1>1, LenProperties
<1> HIDE DEF r
<1>3. IsInjective(r)
  <2>1. ASSUME NEW a \in 1..Len(q) + 1, NEW b \in 1..Len(q) + 1, r[a] = r[b]
        PROVE  a = b
    BY <2>1, <1>0, <1>1 DEF IsInjective, Range
  <2> QED
    BY <2>1, <1>2 DEF IsInjective
<1>4. Range(r) = Range(q) \cup {s}
  <2>1. ASSUME NEW j \in 1..Len(q) + 1 PROVE r[j] \in Range(q) \cup {s}
    BY <1>0, <1>1 DEF Range
  <2>2. ASSUME NEW j \in 1..Len(q) PROVE q[j] \in Range(r)
    BY <1>0, <1>1, <1>2 DEF Range
  <2>3. s \in Range(r)
    BY <1>0, <1>1, <1>2 DEF Range
  <2> QED
    BY <1>0, <1>2, <2>1, <2>2, <2>3 DEF Range
<1> QED
  BY <1>1, <1>3, <1>4 DEF r

-----------------------------------------------------------------------------
(***************************************************************************)
(* The initial state.                                                      *)
(***************************************************************************)

LEMMA InitInv == Init => Inv
<1> SUFFICES ASSUME Init PROVE Inv
  OBVIOUS
<1> USE DEF Init
<1>1. Typed
  <2>1. (CHOOSE pg \in PGs : TRUE) \in PGs
    BY NoPGAssumption
  <2>2. installed \in Maps
    BY BoundsAssumption DEF Maps
  <2>3. request \in [Sessions -> Frames]
    BY <2>1, BoundsAssumption DEF Frames, Kinds
  <2> QED
    BY <2>2, <2>3 DEF Typed, Stages
<1>2. Permits = {}
  BY DEF Permits, HasPermit
<1>3. GateInv
  BY <1>2, FS_EmptySet DEF GateInv
<1>4. \A s \in Sessions, pg \in PGs : ~Owns(s, pg)
  BY NoPGAssumption DEF Owns, FrameHolds
<1>5. LockInv
  BY <1>4 DEF LockInv
<1>6. TicketsAreLive
  BY DEF TicketsAreLive, IsInjective, Range
<1> QED
  BY <1>1, <1>3, <1>5, <1>6 DEF Inv, FramesSeeInstalledMap, HasPermit, FrameInv

-----------------------------------------------------------------------------
(***************************************************************************)
(* Counting permits.                                                       *)
(***************************************************************************)

\* While a frame has a permit the counter is positive: its drop does not
\* underflow.
LEMMA PermitsCounted ==
  /\ IsFiniteSet(Permits) /\ Cardinality(Permits) \in Nat
  /\ \A s \in Permits : Cardinality(Permits) > 0
<1>1. IsFiniteSet(Permits)
  BY SessionsAssumption, FS_Subset DEF Permits
<1> QED
  BY <1>1, FS_CardinalityType, FS_EmptySet

\* The permits after the frame of one session has moved.
LEMMA PermitsMove ==
  ASSUME Typed, NEW s \in Sessions, NEW x, pc' = [pc EXCEPT ![s] = x]
  PROVE  Permits' = IF x \in {"dispatch", "lock", "apply", "reply"}
                    THEN Permits \cup {s} ELSE Permits \ {s}
BY DEF Typed, Permits, HasPermit

\* A frame that stays on its side of the gate changes no permit.
LEMMA PermitsKept ==
  ASSUME Typed, NEW s \in Sessions, NEW x, pc' = [pc EXCEPT ![s] = x],
         HasPermit(s) <=> x \in {"dispatch", "lock", "apply", "reply"}
  PROVE  Permits' = Permits
BY PermitsMove DEF Permits

\* A permit is handed out.
LEMMA PermitsGrow ==
  ASSUME Typed, NEW s \in Sessions, pc' = [pc EXCEPT ![s] = "dispatch"], ~HasPermit(s)
  PROVE  /\ Permits' = Permits \cup {s}
         /\ Cardinality(Permits') = Cardinality(Permits) + 1
<1>1. Permits' = Permits \cup {s}
  BY PermitsMove
<1>2. s \notin Permits
  BY DEF Permits
<1> QED
  BY <1>1, <1>2, PermitsCounted, FS_AddElement

\* A permit is dropped.
LEMMA PermitsShrink ==
  ASSUME Typed, NEW s \in Sessions, NEW x \in {"idle", "closed"},
         pc' = [pc EXCEPT ![s] = x], HasPermit(s)
  PROVE  /\ Permits' = Permits \ {s}
         /\ Cardinality(Permits') = Cardinality(Permits) - 1
         /\ Cardinality(Permits) > 0
<1>1. Permits' = Permits \ {s}
  BY PermitsMove
<1>2. s \in Permits
  BY DEF Permits
<1> QED
  BY <1>1, <1>2, PermitsCounted, FS_RemoveElement

-----------------------------------------------------------------------------
(***************************************************************************)
(* Each part of the invariant is preserved.                                *)
(***************************************************************************)

\* The queue of a frame that stops waiting.
LEMMA WaitEnds ==
  ASSUME Inv, NEW s \in Sessions, pc[s] = "lock",
         waiters' = TicketRemoved(s, request[s].pg)
  PROVE  /\ waiters' \in [PGs -> Seq(Sessions)]
         /\ \A pg \in PGs : pg # request[s].pg => waiters'[pg] = waiters[pg]
         /\ IsInjective(waiters'[request[s].pg])
         /\ Range(waiters'[request[s].pg]) = Range(waiters[request[s].pg]) \ {s}
<1> DEFINE p == request[s].pg
           q == waiters[p]
           r == RemoveAt(q, CHOOSE i \in DOMAIN q : q[i] = s)
<1>1. p \in PGs /\ q \in Seq(Sessions)
  BY DEF Inv, Typed, Frames
<1>2. IsInjective(q) /\ s \in Range(q)
  BY <1>1 DEF Inv, TicketsAreLive
<1>3. r \in Seq(Sessions) /\ IsInjective(r) /\ Range(r) = Range(q) \ {s}
  BY <1>1, <1>2, TicketLeaves
<1>4. waiters' = [waiters EXCEPT ![p] = r]
  BY DEF TicketRemoved
<1>5. waiters \in [PGs -> Seq(Sessions)]
  BY DEF Inv, Typed
<1> HIDE DEF r, q, p
<1>6. /\ waiters' \in [PGs -> Seq(Sessions)]
      /\ \A pg \in PGs : pg # p => waiters'[pg] = waiters[pg]
      /\ waiters'[p] = r
  BY <1>1, <1>3, <1>4, <1>5
<1> QED
  BY <1>3, <1>6 DEF p, q

LEMMA TypedStep == ASSUME Inv, [Next]_vars PROVE Typed'
<1> USE DEF Inv
<1>0. Typed /\ MaxEpoch \in Nat \ {0} /\ MaxRenewals \in Nat /\ activeFrames = Cardinality(Permits)
  BY BoundsAssumption DEF GateInv
<1>1. ASSUME NEW s \in Sessions, Receive(s) PROVE Typed'
  BY <1>0, <1>1, SMTT(30) DEF Receive, Typed, Frames, Maps, Stages
<1>2. ASSUME NEW s \in Sessions, Admit(s) PROVE Typed'
  BY <1>0, <1>2 DEF Admit, Counted, Typed, Stages
<1>3. ASSUME NEW s \in Sessions, Refuse(s) PROVE Typed'
  BY <1>0, <1>3 DEF Refuse, Typed, Stages
<1>4. ASSUME NEW s \in Sessions, Release(s) PROVE Typed'
  BY <1>0, <1>4 DEF Release, Typed, Stages
<1>5. ASSUME NEW s \in Sessions, Proceed(s) PROVE Typed'
  BY <1>0, <1>5 DEF Proceed, Typed, Stages
<1>6. ASSUME NEW s \in Sessions, Enqueue(s) PROVE Typed'
  <2>1. request[s].pg \in PGs
    BY <1>0 DEF Typed, Frames
  <2>2. Append(waiters[request[s].pg], s) \in Seq(Sessions)
    BY <1>0, <2>1 DEF Typed
  <2> QED
    BY <1>0, <1>6, <2>1, <2>2 DEF Enqueue, Typed, Stages
<1>7. ASSUME NEW s \in Sessions, Take(s) PROVE Typed'
  <2>1. waiters' \in [PGs -> Seq(Sessions)]
    BY <1>7, WaitEnds DEF Take
  <2>2. request[s].pg \in PGs /\ request[s].epoch \in 1..MaxEpoch
    BY <1>0 DEF Typed, Frames
  <2>3. Binding(request[s].epoch, seen[s]) \in Bindings
    BY <2>2 DEF Binding, Bindings
  <2>4. held' \subseteq PGs
    BY <1>0, <1>7, <2>2 DEF Take, Typed
  <2>5. guards' \in [Sessions -> [PGs -> Bindings \cup {NoGuard}]]
    BY <1>0, <1>7, <2>2, <2>3 DEF Take, Typed
  <2>6. pc' \in [Sessions -> Stages]
    BY <1>0, <1>7 DEF Take, Typed, Stages
  <2> QED
    BY <1>0, <1>7, <2>1, <2>4, <2>5, <2>6 DEF Take, Typed
<1>8. ASSUME NEW s \in Sessions, Timeout(s) PROVE Typed'
  <2>1. waiters' \in [PGs -> Seq(Sessions)]
    BY <1>8, WaitEnds DEF Timeout
  <2> QED
    BY <1>0, <1>8, <2>1 DEF Timeout, Typed, Stages
<1>9. ASSUME NEW s \in Sessions, Apply(s) PROVE Typed'
  BY <1>0, <1>9 DEF Apply, Typed, Stages
<1>10. ASSUME NEW s \in Sessions, Reply(s) PROVE Typed'
  <2>1. Cardinality(Permits) > 0
    BY <1>0, <1>10, PermitsShrink DEF Reply, HasPermit
  <2> QED
    BY <1>0, <1>10, <2>1 DEF Reply, Typed, Stages
<1>11. ASSUME NEW s \in Sessions, ReplyFails(s) PROVE Typed'
  <2>1. Cardinality(Permits) > 0
    BY <1>0, <1>11, PermitsShrink DEF ReplyFails, Ended, HasPermit
  <2> QED
    BY <1>0, <1>11, <2>1 DEF ReplyFails, Ended, HeldAfterEnd, Typed, Stages
<1>12. ASSUME NEW s \in Sessions, Disconnect(s) PROVE Typed'
  BY <1>0, <1>12 DEF Disconnect, Ended, HeldAfterEnd, Typed, Stages
<1>13. ASSUME NEW s \in Sessions, Connect(s) PROVE Typed'
  BY <1>0, <1>13 DEF Connect, Typed, Stages
<1>14. CASE Renew
  <2>1. installed \in Maps /\ installed.renewals + 1 \in 0..MaxRenewals
    BY <1>0, <1>14 DEF Renew, Typed, Maps
  <2>2. [installed EXCEPT !.renewals = @ + 1] \in Maps
    BY <2>1 DEF Maps
  <2> QED
    BY <1>0, <1>14, <2>2 DEF Renew, Typed
<1>15. CASE BeginTransition
  BY <1>0, <1>15 DEF BeginTransition, Typed
<1>16. CASE Drain
  BY <1>0, <1>16 DEF Drain, Typed
<1>17. CASE Publish
  <2>1. installed.epoch < MaxEpoch /\ installed.epoch \in 1..MaxEpoch
    BY <1>0, <1>17 DEF Publish, Typed, Maps, GateInv
  <2>2. [epoch |-> installed.epoch + 1, renewals |-> 0] \in Maps
    BY <1>0, <2>1 DEF Maps
  <2> QED
    BY <1>0, <1>17, <2>2 DEF Publish, Typed
<1>18. CASE UNCHANGED vars
  BY <1>0, <1>18 DEF vars, Typed
<1> QED
  BY <1>1, <1>2, <1>3, <1>4, <1>5, <1>6, <1>7, <1>8, <1>9, <1>10, <1>11, <1>12,
     <1>13, <1>14, <1>15, <1>16, <1>17, <1>18 DEF Next, Serve, Dispatch

\* What a step does to the gate: the count follows the permits, and a map is
\* not about to be replaced while a permit is out.
LEMMA GateStep == ASSUME Inv, [Next]_vars PROVE GateInv'
<1> USE DEF Inv
<1>0. Typed /\ activeFrames = Cardinality(Permits)
  BY DEF GateInv
<1>1. ASSUME NEW s \in Sessions,
             \/ Receive(s) \/ Dispatch(s) \/ Take(s) \/ Timeout(s) \/ Apply(s)
             \/ Disconnect(s) \/ Connect(s)
      PROVE  GateInv'
  <2>1. UNCHANGED <<transition, activeFrames, installed>>
    BY <1>1 DEF Receive, Dispatch, Refuse, Release, Proceed, Enqueue, Take, Timeout,
                Apply, Disconnect, Connect
  <2>2. Permits' = Permits
    <3>1. CASE Receive(s) \/ Disconnect(s) \/ Connect(s)
      BY <1>0, <3>1, PermitsKept DEF Receive, Disconnect, Ended, Connect, HasPermit
    <3>2. CASE Dispatch(s)
      BY <1>0, <3>2, PermitsKept DEF Dispatch, Refuse, Release, Proceed, Enqueue, HasPermit
    <3>3. CASE Take(s) \/ Timeout(s) \/ Apply(s)
      BY <1>0, <3>3, PermitsKept DEF Take, Timeout, Apply, HasPermit
    <3> QED
      BY <1>1, <3>1, <3>2, <3>3
  <2> QED
    BY <2>1, <2>2 DEF GateInv
<1>2. ASSUME NEW s \in Sessions, Admit(s) PROVE GateInv'
  <2>1. Cardinality(Permits') = Cardinality(Permits) + 1
    BY <1>0, <1>2, PermitsGrow DEF Admit, HasPermit
  <2>2. transition # "Publishing"
    BY <1>2 DEF Admit, Admitted
  <2> QED
    BY <1>0, <1>2, <2>1, <2>2 DEF Admit, Counted, GateInv
<1>3. ASSUME NEW s \in Sessions, Reply(s) \/ ReplyFails(s) PROVE GateInv'
  <2>1. /\ Permits' = Permits \ {s}
        /\ Cardinality(Permits') = Cardinality(Permits) - 1
    BY <1>0, <1>3, PermitsShrink DEF Reply, ReplyFails, Ended, HasPermit
  <2> QED
    BY <1>0, <1>3, <2>1 DEF Reply, ReplyFails, GateInv
<1>4. CASE Renew \/ BeginTransition \/ Drain \/ Publish
  <2>1. Permits' = Permits
    BY <1>4 DEF Renew, BeginTransition, Drain, Publish, Permits, HasPermit
  <2>2. Drain => Permits = {}
    BY <1>0, PermitsCounted, FS_EmptySet DEF Drain, Drained
  <2>3. CASE Renew
    BY <1>0, <2>1, <2>3 DEF Renew, GateInv, Typed, Maps
  <2>4. CASE BeginTransition \/ Drain \/ Publish
    BY <1>0, <2>1, <2>2, <2>4 DEF BeginTransition, Drain, Publish, GateInv
  <2> QED
    BY <1>4, <2>3, <2>4
<1>5. CASE UNCHANGED vars
  BY <1>5 DEF vars, GateInv, Permits, HasPermit
<1> QED
  BY <1>1, <1>2, <1>3, <1>4, <1>5 DEF Next, Serve

\* A map is replaced under no frame.
LEMMA SeenStep == ASSUME Inv, [Next]_vars PROVE FramesSeeInstalledMap'
<1> USE DEF Inv
<1>0. Typed
  OBVIOUS
<1>1. ASSUME NEW s \in Sessions, Admit(s) PROVE FramesSeeInstalledMap'
  BY <1>0, <1>1 DEF Admit, FramesSeeInstalledMap, HasPermit, Typed
<1>2. ASSUME NEW s \in Sessions,
             \/ Receive(s) \/ Dispatch(s) \/ Take(s) \/ Timeout(s) \/ Apply(s)
             \/ Reply(s) \/ ReplyFails(s) \/ Disconnect(s) \/ Connect(s)
      PROVE  FramesSeeInstalledMap'
  <2>1. UNCHANGED <<installed, seen>>
    BY <1>2 DEF Receive, Dispatch, Refuse, Release, Proceed, Enqueue, Take, Timeout,
                Apply, Reply, ReplyFails, Disconnect, Connect
  <2>2. \A t \in Sessions : HasPermit(t)' => HasPermit(t)
    <3>1. CASE Receive(s) \/ Disconnect(s) \/ Connect(s) \/ Reply(s) \/ ReplyFails(s)
      BY <1>0, <3>1 DEF Receive, Disconnect, Ended, Connect, Reply, ReplyFails, HasPermit, Typed
    <3>2. CASE Dispatch(s)
      BY <1>0, <3>2 DEF Dispatch, Refuse, Release, Proceed, Enqueue, HasPermit, Typed
    <3>3. CASE Take(s) \/ Timeout(s) \/ Apply(s)
      BY <1>0, <3>3 DEF Take, Timeout, Apply, HasPermit, Typed
    <3> QED
      BY <1>2, <3>1, <3>2, <3>3
  <2> QED
    BY <2>1, <2>2 DEF FramesSeeInstalledMap
<1>3. CASE Renew
  BY <1>0, <1>3 DEF Renew, FramesSeeInstalledMap, HasPermit, Typed, Maps
<1>4. CASE Publish
  <2>1. \A s \in Sessions : ~HasPermit(s)
    BY <1>4 DEF Publish, GateInv, Permits
  <2> QED
    BY <1>4, <2>1 DEF Publish, FramesSeeInstalledMap, HasPermit
<1>5. CASE BeginTransition \/ Drain \/ UNCHANGED vars
  BY <1>5 DEF BeginTransition, Drain, vars, FramesSeeInstalledMap, HasPermit
<1> QED
  BY <1>1, <1>2, <1>3, <1>4, <1>5 DEF Next, Serve

\* What a frame is and what its session has, for a session other than the one
\* that moves.
LEMMA OtherFrames ==
  ASSUME Typed, NEW s \in Sessions, NEW t \in Sessions, t # s,
         Receive(s) \/ Serve(s) \/ ReplyFails(s) \/ Disconnect(s) \/ Connect(s)
  PROVE  /\ pc'[t] = pc[t] /\ request'[t] = request[t]
         /\ seen'[t] = seen[t] /\ guards'[t] = guards[t]
<1>1. CASE Receive(s) \/ Admit(s) \/ Reply(s) \/ Connect(s)
  BY <1>1 DEF Receive, Admit, Reply, Connect, Typed
<1>2. CASE Dispatch(s)
  BY <1>2 DEF Dispatch, Refuse, Release, Proceed, Enqueue, Typed
<1>3. CASE Take(s) \/ Timeout(s) \/ Apply(s)
  BY <1>3 DEF Take, Timeout, Apply, Typed
<1>4. CASE ReplyFails(s) \/ Disconnect(s)
  BY <1>4 DEF ReplyFails, Disconnect, Ended, Typed
<1> QED
  BY <1>1, <1>2, <1>3, <1>4 DEF Serve

\* What FrameInv says of one session.
FrameOK(s) ==
  /\ pc[s] \in {"gate", "dispatch"} /\ request[s].kind = "release" => Held(s)
  /\ pc[s] = "lock" => request[s].kind \in {"acquire", "mutate"} /\ ~Held(s)
  /\ pc[s] = "apply" => request[s].kind \in {"mutate", "mark"}
  /\ pc[s] = "apply" /\ request[s].kind = "mark" => ExactBindingHeld(s)

LEMMA FrameStep == ASSUME Inv, [Next]_vars PROVE FrameInv'
<1> USE DEF Inv
<1>0. Typed /\ \A s \in Sessions : FrameOK(s)
  BY DEF FrameInv, FrameOK
<1>1. ASSUME NEW s \in Sessions,
             Receive(s) \/ Serve(s) \/ ReplyFails(s) \/ Disconnect(s) \/ Connect(s)
      PROVE  FrameInv'
  <2>1. ASSUME NEW t \in Sessions, t # s PROVE FrameOK(t)'
    BY <1>0, <1>1, <2>1, OtherFrames DEF FrameOK, Held, ExactBindingHeld
  <2>2. FrameOK(s)'
    <3>1. CASE Receive(s)
      <4>1. PICK k \in Kinds, pg \in PGs, e \in 1..installed.epoch :
              /\ k = "release" => guards[s][pg] # NoGuard
              /\ request' = [request EXCEPT ![s] = [kind |-> k, pg |-> pg, epoch |-> e]]
        BY <3>1 DEF Receive
      <4>2. request'[s] = [kind |-> k, pg |-> pg, epoch |-> e] /\ pc'[s] = "gate" /\ guards' = guards
        BY <1>0, <3>1, <4>1 DEF Receive, Typed
      <4> QED
        BY <4>1, <4>2 DEF FrameOK, Held
    <3>2. CASE Admit(s)
      BY <1>0, <3>2 DEF Admit, FrameOK, Held, ExactBindingHeld, Typed
    <3>3. CASE Refuse(s)
      BY <1>0, <3>3 DEF Refuse, FrameOK, Typed
    <3>4. CASE Release(s)
      BY <1>0, <3>4 DEF Release, FrameOK, Typed
    <3>5. CASE Proceed(s)
      BY <1>0, <3>5 DEF Proceed, FrameOK, ExactBindingHeld, Typed
    <3>6. CASE Enqueue(s)
      BY <1>0, <3>6 DEF Enqueue, FrameOK, Held, Typed
    <3>7. CASE Take(s)
      <4>1. request' = request /\ request[s].kind \in {"acquire", "mutate"}
        BY <1>0, <3>7 DEF Take, FrameOK
      <4>2. pc'[s] = IF request[s].kind = "acquire" THEN "reply" ELSE "apply"
        BY <1>0, <3>7 DEF Take, Typed
      <4> QED
        BY <4>1, <4>2 DEF FrameOK
    <3>8. CASE Timeout(s) \/ Apply(s) \/ Reply(s) \/ Connect(s)
      BY <1>0, <3>8 DEF Timeout, Apply, Reply, Connect, FrameOK, Typed
    <3>9. CASE ReplyFails(s) \/ Disconnect(s)
      BY <1>0, <3>9 DEF ReplyFails, Disconnect, Ended, FrameOK, Typed
    <3> QED
      BY <1>1, <3>1, <3>2, <3>3, <3>4, <3>5, <3>6, <3>7, <3>8, <3>9 DEF Serve, Dispatch
  <2> QED
    BY <2>1, <2>2 DEF FrameInv, FrameOK
<1>2. CASE Renew \/ BeginTransition \/ Drain \/ Publish \/ UNCHANGED vars
  BY <1>2 DEF Renew, BeginTransition, Drain, Publish, vars, FrameInv, Held, ExactBindingHeld
<1> QED
  BY <1>1, <1>2 DEF Next

\* A step of one session that changes neither what it owns nor the table.
LEMMA LocksKept ==
  ASSUME LockInv, held' = held,
         \A s \in Sessions, pg \in PGs : Owns(s, pg)' <=> Owns(s, pg)
  PROVE  LockInv'
BY DEF LockInv

\* A session lets locks go, and the table drops them.
LEMMA LocksDropped ==
  ASSUME LockInv, NEW s \in Sessions, NEW D, held' = held \ D,
         \A t \in Sessions, pg \in PGs : t # s => (Owns(t, pg)' <=> Owns(t, pg)),
         \A pg \in PGs : Owns(s, pg)' <=> Owns(s, pg) /\ pg \notin D,
         \A pg \in D : pg \in PGs => Owns(s, pg)
  PROVE  LockInv'
<1>1. ASSUME NEW pg \in PGs, NEW t \in Sessions, Owns(t, pg)'
      PROVE  Owns(t, pg) /\ pg \notin D
  BY <1>1 DEF LockInv
<1>2. ASSUME NEW pg \in PGs, pg \in held \ D
      PROVE  \E t \in Sessions : Owns(t, pg)'
  BY <1>2 DEF LockInv
<1>3. \A pg \in PGs : pg \in held' <=> \E t \in Sessions : Owns(t, pg)'
  BY <1>1, <1>2 DEF LockInv
<1>4. \A pg \in PGs : \A t, u \in Sessions : Owns(t, pg)' /\ Owns(u, pg)' => t = u
  BY <1>1 DEF LockInv
<1> QED
  BY <1>3, <1>4 DEF LockInv

\* A session takes a lock nobody holds.
LEMMA LockTaken ==
  ASSUME LockInv, NEW s \in Sessions, NEW p \in PGs, p \notin held, held' = held \cup {p},
         \A t \in Sessions, pg \in PGs : t # s => (Owns(t, pg)' <=> Owns(t, pg)),
         \A pg \in PGs : Owns(s, pg)' <=> Owns(s, pg) \/ pg = p
  PROVE  LockInv'
<1>1. \A t \in Sessions : ~Owns(t, p)
  BY DEF LockInv
<1>2. \A pg \in PGs : pg \in held' <=> \E t \in Sessions : Owns(t, pg)'
  BY DEF LockInv
<1>3. \A pg \in PGs : \A t, u \in Sessions : Owns(t, pg)' /\ Owns(u, pg)' => t = u
  BY <1>1 DEF LockInv
<1> QED
  BY <1>2, <1>3 DEF LockInv

LEMMA LockStep == ASSUME Inv, [Next]_vars PROVE LockInv'
<1> USE DEF Inv
<1>0. Typed /\ (\A s \in Sessions : FrameOK(s)) /\ LockInv /\ NoPG \notin PGs
  BY NoPGAssumption DEF FrameInv, FrameOK
<1>1. ASSUME NEW s \in Sessions,
             Receive(s) \/ Serve(s) \/ ReplyFails(s) \/ Disconnect(s) \/ Connect(s)
      PROVE  LockInv'
  <2>0. request[s].pg \in PGs
    BY <1>0 DEF Typed, Frames
  <2>1. \A t \in Sessions, pg \in PGs : t # s => (Owns(t, pg)' <=> Owns(t, pg))
    BY <1>0, <1>1, OtherFrames DEF Owns, FrameHolds
  <2>2. CASE \/ Receive(s) \/ Admit(s) \/ Refuse(s) \/ Enqueue(s) \/ Timeout(s)
             \/ Reply(s) \/ Connect(s)
    <3>1. held' = held /\ guards' = guards /\ pc[s] # "apply" /\ pc'[s] # "apply"
      BY <1>0, <2>2 DEF Receive, Admit, Refuse, Enqueue, Timeout, Reply, Connect, Typed
    <3>2. \A pg \in PGs : Owns(s, pg)' <=> Owns(s, pg)
      BY <1>0, <3>1 DEF Owns, FrameHolds
    <3> QED
      BY <1>0, <2>1, <3>1, <3>2, LocksKept
  <2>3. CASE Proceed(s)
    <3>1. /\ held' = held /\ guards' = guards /\ request' = request
          /\ pc[s] # "apply" /\ (pc'[s] = "apply" => Held(s))
      BY <1>0, <2>3, NoGuardAssumption
         DEF Proceed, Held, ExactBindingHeld, Binding, Bindings, Typed, Frames
    <3>2. \A pg \in PGs : Owns(s, pg)' <=> Owns(s, pg)
      BY <1>0, <3>1 DEF Owns, FrameHolds, Held
    <3> QED
      BY <1>0, <2>1, <3>1, <3>2, LocksKept
  <2>4. CASE Release(s)
    <3>1. /\ pc[s] # "apply" /\ pc'[s] # "apply" /\ Held(s)
          /\ held' = held \ {request[s].pg}
          /\ \A pg \in PGs : guards'[s][pg] = IF pg = request[s].pg THEN NoGuard ELSE guards[s][pg]
      BY <1>0, <2>0, <2>4 DEF Release, FrameOK, Typed
    <3>2. /\ \A pg \in PGs : Owns(s, pg)' <=> Owns(s, pg) /\ pg \notin {request[s].pg}
          /\ \A pg \in {request[s].pg} : pg \in PGs => Owns(s, pg)
      BY <1>0, <3>1 DEF Owns, FrameHolds, Held
    <3> QED
      BY <1>0, <2>1, <3>1, <3>2, LocksDropped
  <2>5. CASE Take(s)
    <3>1. /\ pc[s] = "lock" /\ ~Held(s) /\ request[s].kind \in {"acquire", "mutate"}
          /\ request[s].pg \notin held /\ held' = held \cup {request[s].pg}
          /\ request' = request
      BY <1>0, <2>5 DEF Take, MayTake, FrameOK
    <3>2. ASSUME NEW pg \in PGs PROVE Owns(s, pg)' <=> Owns(s, pg) \/ pg = request[s].pg
      <4>1. CASE request[s].kind = "acquire"
        <5>1. Binding(request[s].epoch, seen[s]) # NoGuard
          BY <1>0, NoGuardAssumption DEF Binding, Typed, Frames
        <5>2. /\ pc'[s] = "reply"
              /\ guards'[s][pg] = IF pg = request[s].pg THEN Binding(request[s].epoch, seen[s])
                                  ELSE guards[s][pg]
          BY <1>0, <2>0, <2>5, <4>1 DEF Take, Typed
        <5> QED
          BY <1>0, <3>1, <5>1, <5>2 DEF Owns, FrameHolds
      <4>2. CASE request[s].kind # "acquire"
        <5>1. pc'[s] = "apply" /\ guards' = guards
          BY <1>0, <2>5, <4>2 DEF Take, Typed
        <5> QED
          BY <1>0, <3>1, <5>1 DEF Owns, FrameHolds, Held
      <4> QED
        BY <4>1, <4>2
    <3> QED
      BY <1>0, <2>0, <2>1, <3>1, <3>2, LockTaken
  <2>6. CASE Apply(s)
    <3>1. /\ held' = held \ {FrameHolds(s)} /\ guards' = guards /\ request' = request
          /\ pc[s] = "apply" /\ pc'[s] = "reply"
      BY <1>0, <2>6 DEF Apply, Typed
    <3>2. \A pg \in PGs : Owns(s, pg)' <=> guards[s][pg] # NoGuard
      BY <1>0, <3>1 DEF Owns, FrameHolds
    <3>3. \A pg \in PGs : FrameHolds(s) = pg => guards[s][pg] = NoGuard
      BY <1>0 DEF FrameHolds
    <3>4. /\ \A pg \in PGs : Owns(s, pg)' <=> Owns(s, pg) /\ pg \notin {FrameHolds(s)}
          /\ \A pg \in {FrameHolds(s)} : pg \in PGs => Owns(s, pg)
      BY <3>2, <3>3 DEF Owns
    <3> QED
      BY <1>0, <2>1, <3>1, <3>4, LocksDropped
  <2>7. CASE ReplyFails(s) \/ Disconnect(s)
    <3> DEFINE D == {pg \in PGs : guards[s][pg] # NoGuard}
    <3>1. /\ held' = held \ D /\ pc[s] # "apply" /\ pc'[s] # "apply"
          /\ \A pg \in PGs : guards'[s][pg] = NoGuard
      BY <1>0, <2>7 DEF ReplyFails, Disconnect, Ended, HeldAfterEnd, Typed
    <3>2. /\ \A pg \in PGs : Owns(s, pg)' <=> Owns(s, pg) /\ pg \notin D
          /\ \A pg \in D : pg \in PGs => Owns(s, pg)
      BY <1>0, <3>1 DEF Owns, FrameHolds
    <3> HIDE DEF D
    <3> QED
      BY <1>0, <2>1, <3>1, <3>2, LocksDropped
  <2> QED
    BY <1>1, <2>2, <2>3, <2>4, <2>5, <2>6, <2>7 DEF Serve, Dispatch
<1>2. CASE Renew \/ BeginTransition \/ Drain \/ Publish \/ UNCHANGED vars
  <2>1. UNCHANGED <<pc, request, guards, held>>
    BY <1>2 DEF Renew, BeginTransition, Drain, Publish, vars
  <2> QED
    BY <1>0, <2>1, LocksKept DEF Owns, FrameHolds
<1> QED
  BY <1>1, <1>2 DEF Next

\* What TicketsAreLive says of one queue.
QueueOK(pg) ==
  /\ IsInjective(waiters[pg])
  /\ \A s \in Sessions : s \in Range(waiters[pg]) <=> (pc[s] = "lock" /\ request[s].pg = pg)

LEMMA TicketStep == ASSUME Inv, [Next]_vars PROVE TicketsAreLive'
<1> USE DEF Inv
<1>0. Typed /\ \A pg \in PGs : QueueOK(pg)
  BY DEF TicketsAreLive, QueueOK
<1>1. ASSUME NEW s \in Sessions,
             Receive(s) \/ Serve(s) \/ ReplyFails(s) \/ Disconnect(s) \/ Connect(s)
      PROVE  TicketsAreLive'
  <2>0. request[s].pg \in PGs
    BY <1>0 DEF Typed, Frames
  <2>1. \A t \in Sessions : t # s => pc'[t] = pc[t] /\ request'[t] = request[t]
    BY <1>0, <1>1, OtherFrames
  <2>2. CASE Enqueue(s)
    <3> DEFINE p == request[s].pg
    <3>1. /\ pc[s] # "lock" /\ pc'[s] = "lock" /\ request' = request
          /\ waiters' = [waiters EXCEPT ![p] = Append(waiters[p], s)]
          /\ p \in PGs /\ waiters \in [PGs -> Seq(Sessions)]
      BY <1>0, <2>0, <2>2 DEF Enqueue, Typed
    <3>2. IsInjective(waiters[p]) /\ s \notin Range(waiters[p])
      BY <1>0, <3>1 DEF QueueOK
    <3>3. IsInjective(waiters'[p]) /\ Range(waiters'[p]) = Range(waiters[p]) \cup {s}
      BY <3>1, <3>2, TicketJoins
    <3>4. ASSUME NEW pg \in PGs, pg = p PROVE QueueOK(pg)'
      BY <1>0, <2>1, <3>1, <3>3, <3>4 DEF QueueOK
    <3>5. ASSUME NEW pg \in PGs, pg # p PROVE QueueOK(pg)'
      BY <1>0, <2>1, <3>1, <3>5 DEF QueueOK
    <3> QED
      BY <3>4, <3>5 DEF TicketsAreLive, QueueOK
  <2>3. CASE Take(s) \/ Timeout(s)
    <3> DEFINE p == request[s].pg
    <3>1. /\ pc[s] = "lock" /\ pc'[s] # "lock" /\ request' = request
          /\ waiters' = TicketRemoved(s, p)
      BY <1>0, <2>3 DEF Take, Timeout, Typed
    <3>2. /\ \A pg \in PGs : pg # p => waiters'[pg] = waiters[pg]
          /\ IsInjective(waiters'[p])
          /\ Range(waiters'[p]) = Range(waiters[p]) \ {s}
      BY <3>1, WaitEnds
    <3>3. ASSUME NEW pg \in PGs, pg = p PROVE QueueOK(pg)'
      BY <1>0, <2>0, <2>1, <3>1, <3>2, <3>3 DEF QueueOK
    <3>4. ASSUME NEW pg \in PGs, pg # p PROVE QueueOK(pg)'
      BY <1>0, <2>1, <3>1, <3>2, <3>4 DEF QueueOK
    <3> QED
      BY <3>3, <3>4 DEF TicketsAreLive, QueueOK
  <2>4. CASE \/ Receive(s) \/ Admit(s) \/ Refuse(s) \/ Release(s) \/ Proceed(s)
             \/ Apply(s) \/ Reply(s) \/ ReplyFails(s) \/ Disconnect(s) \/ Connect(s)
    <3>1. waiters' = waiters /\ pc[s] # "lock" /\ pc'[s] # "lock"
      BY <1>0, <2>4 DEF Receive, Admit, Refuse, Release, Proceed, Apply, Reply, ReplyFails,
                        Disconnect, Ended, Connect, Typed
    <3> QED
      BY <1>0, <2>1, <3>1 DEF TicketsAreLive, QueueOK
  <2> QED
    BY <1>1, <2>2, <2>3, <2>4 DEF Serve, Dispatch
<1>2. CASE Renew \/ BeginTransition \/ Drain \/ Publish \/ UNCHANGED vars
  BY <1>2 DEF Renew, BeginTransition, Drain, Publish, vars, TicketsAreLive
<1> QED
  BY <1>1, <1>2 DEF Next

-----------------------------------------------------------------------------
(***************************************************************************)
(* The theorems.                                                           *)
(***************************************************************************)

LEMMA InvCorrect == Spec => []Inv
<1>1. ASSUME Inv, [Next]_vars PROVE Inv'
  BY <1>1, TypedStep, GateStep, SeenStep, FrameStep, LockStep, TicketStep DEF Inv
<1> QED
  BY <1>1, InitInv, PTL DEF Spec

\* The state keeps its type, and active_frames is the number of permits that
\* are out: dropping a permit never underflows the count an installation waits
\* for.
THEOREM TypeCorrect == Spec => []TypeOK
<1>1. Inv => TypeOK
  BY DEF Inv, Typed, GateInv, TypeOK, Permits, Maps, Stages, Frames
<1> QED
  BY <1>1, InvCorrect, PTL

\* No map is replaced under a frame that is being served, whichever class of
\* frame the gate let through while it was closing.
THEOREM FramesSeeInstalledMapCorrect == Spec => []FramesSeeInstalledMap
<1>1. Inv => FramesSeeInstalledMap
  BY DEF Inv
<1> QED
  BY <1>1, InvCorrect, PTL

\* The lock of a PG is held exactly while one session or one frame has it.
THEOREM SectionsAccountedForCorrect == Spec => []SectionsAccountedFor
<1>1. ASSUME LockInv PROVE SectionsAccountedFor
  <2>1. ASSUME NEW pg \in PGs
        PROVE  Cardinality({s \in Sessions : Owns(s, pg)}) = IF pg \in held THEN 1 ELSE 0
    <3>1. CASE pg \in held
      <4>1. PICK s \in Sessions : Owns(s, pg)
        BY <1>1, <3>1 DEF LockInv
      <4>2. {t \in Sessions : Owns(t, pg)} = {s}
        BY <1>1, <4>1 DEF LockInv
      <4> QED
        BY <3>1, <4>2, FS_Singleton
    <3>2. CASE pg \notin held
      <4>1. {t \in Sessions : Owns(t, pg)} = {}
        BY <1>1, <3>2 DEF LockInv
      <4> QED
        BY <3>2, <4>1, FS_EmptySet
    <3> QED
      BY <3>1, <3>2
  <2> QED
    BY <2>1 DEF SectionsAccountedFor, Owns
<1>2. Inv => LockInv
  BY DEF Inv
<1> QED
  BY <1>1, <1>2, InvCorrect, PTL

\* A publication starts only in a section that was entered with the authority
\* the installed map gives to the command's epoch.
THEOREM StartsInCurrentSectionCorrect == Spec => []StartsInCurrentSection
<1>1. ASSUME Inv PROVE StartsInCurrentSection
  <2> SUFFICES ASSUME NEW s \in Sessions, pc[s] = "apply", request[s].kind = "mark"
               PROVE  guards[s][request[s].pg] = Binding(request[s].epoch, installed)
    BY DEF StartsInCurrentSection
  <2>1. guards[s][request[s].pg] = Binding(request[s].epoch, seen[s])
    BY <1>1 DEF Inv, FrameInv, ExactBindingHeld
  <2>2. seen[s].epoch = installed.epoch
    BY <1>1 DEF Inv, FramesSeeInstalledMap, HasPermit
  <2> QED
    BY <2>1, <2>2 DEF Binding
<1> QED
  BY <1>1, InvCorrect, PTL

\* Every ticket in the queue of a lock is that of a frame that is waiting for
\* it, once.
THEOREM TicketsAreLiveCorrect == Spec => []TicketsAreLive
<1>1. Inv => TicketsAreLive
  BY DEF Inv
<1> QED
  BY <1>1, InvCorrect, PTL

=============================================================================
