----------------------- MODULE RouteAdmission_proofs ------------------------
(***************************************************************************)
(* Proofs about RouteAdmission for every set of requests, objects, digests, *)
(* lease lengths and every bound on the epoch.                              *)
(***************************************************************************)
EXTENDS RouteAdmission, FiniteSetTheorems, TLAPS

-----------------------------------------------------------------------------
(***************************************************************************)
(* The inductive invariant.                                                *)
(***************************************************************************)

Holders == {r \in Requests : pc[r] \in HasPermit}

\* active_requests counts the permits.
CountInv == active = Cardinality(Holders)

\* The gate is closed exactly while the worker publishes, and a publication
\* that has drained finds no permit.
GateInv ==
    /\ transition = "Draining" <=> worker = "draining"
    /\ transition = "Publishing" <=> worker \in {"fetch", "check", "install"}
    /\ transition = "Publishing" => Holders = {}

\* A repair fence of the current publication generation belongs to a read of
\* the installed map.
FenceInv ==
    \A r \in fresh : pc[r] \in {"retained", "repairing"} /\ cluster[r] = installed

\* Repairs run only under such a fence.
RepairInv == \A r \in Requests : pc[r] = "repairing" => r \in fresh

\* Only waits that have subscribed are woken.
NotifiedInv == \A r \in notified : pc[r] = "body"

\* Issuers are out of use only inside an installation or after a failed one.
IssuerInv ==
    /\ issuers = "replacing" => worker = "install"
    /\ worker = "install" => replacing /\ issuers # "retired"

\* The worker has a candidate while it checks and installs one.
CandidateInv ==
    worker \in {"check", "install"} => candidate \in Clusters \ {installed}

\* install_during_publication has compared the epochs of what it installs.
AcceptedInv ==
    worker = "install" => content[candidate].epoch >= content[installed].epoch

\* Permits, the gate and the generations they refer to.
PermitInv ==
    /\ CountInv
    /\ GateInv
    /\ FenceInv
    /\ RepairInv
    /\ NotifiedInv
    /\ HeldGenerationInstalled

\* What a refresh leaves behind.
RefreshInv ==
    /\ IssuerInv
    /\ RetirementRemembered
    /\ CandidateInv
    /\ AcceptedInv
    /\ InstalledIsListed

Inv == TypeOK /\ PermitInv /\ RefreshInv

-----------------------------------------------------------------------------
(***************************************************************************)
(* Times.                                                                  *)
(***************************************************************************)

\* What is left of a lease is a natural number, and stays one of the times the
\* model knows when it runs down, is compared or is granted anew.
LEMMA LeftsClosed ==
    /\ Lefts \subseteq Nat
    /\ 0 \in Lefts
    /\ Grants \subseteq Lefts
    /\ \A t \in Lefts : Less(t) \in Lefts
    /\ \A s, t \in Lefts : Shorter(s, t) \in Lefts /\ Longer(s, t) \in Lefts
<1>1. Lefts \subseteq Nat
  BY DEF Lefts
<1>2. 0 \in Lefts
  BY DEF Lefts
<1>3. Grants \subseteq Lefts
  BY GrantsAssumption DEF Lefts
<1>4. ASSUME NEW t \in Lefts PROVE Less(t) \in Lefts
  <2>1. CASE t = 0
    BY <2>1, <1>2 DEF Less
  <2>2. CASE t # 0
    BY <2>2, GrantsAssumption DEF Lefts, Less
  <2> QED
    BY <2>1, <2>2
<1>5. \A s, t \in Lefts : Shorter(s, t) \in Lefts /\ Longer(s, t) \in Lefts
  BY DEF Shorter, Longer
<1> QED
  BY <1>1, <1>2, <1>3, <1>4, <1>5

\* The status of a worker that has none is well formed.
LEMMA NoStatusType == NoStatus \in [content : Contents, left : Lefts]
<1>1. \E c \in Contents : TRUE
  <2>1. PICK d \in Digests : TRUE
    BY DigestsAssumption
  <2>2. [epoch |-> 1, digest |-> d] \in Contents
    BY <2>1, EpochAssumption DEF Contents
  <2> QED
    BY <2>2
<1>2. (CHOOSE c \in Contents : TRUE) \in Contents
  BY <1>1
<1> QED
  BY <1>2, LeftsClosed DEF NoStatus

-----------------------------------------------------------------------------
(***************************************************************************)
(* Counting permits.                                                       *)
(***************************************************************************)

\* While a request owns a permit the counter is positive: dropping the permit
\* does not underflow (the expect in StorageClusterRouteAdmissionPermit::drop).
LEMMA PermitCounted ==
    ASSUME TypeOK, CountInv, NEW r \in Requests, pc[r] \in HasPermit
    PROVE  active # 0 /\ active - 1 \in Nat
<1>1. IsFiniteSet(Holders)
  BY RequestsAssumption, FS_Subset DEF Holders
<1>2. r \in Holders
  BY DEF Holders
<1>3. Cardinality(Holders) # 0
  BY <1>1, <1>2, FS_EmptySet
<1> QED
  BY <1>3 DEF CountInv, TypeOK

\* A request that takes a permit is counted.
LEMMA CountUp ==
    ASSUME TypeOK, CountInv, NEW r \in Requests, NEW s \in HasPermit,
           pc[r] \notin HasPermit, pc' = [pc EXCEPT ![r] = s], active' = active + 1
    PROVE  CountInv'
<1>1. IsFiniteSet(Holders)
  BY RequestsAssumption, FS_Subset DEF Holders
<1>2. Holders' = Holders \cup {r}
  BY DEF Holders, TypeOK
<1>3. r \notin Holders
  BY DEF Holders
<1>4. Cardinality(Holders \cup {r}) = Cardinality(Holders) + 1
  BY <1>1, <1>3, FS_AddElement
<1> QED
  BY <1>2, <1>4 DEF CountInv

\* A request that drops its permit is no longer counted.
LEMMA CountDown ==
    ASSUME TypeOK, CountInv, NEW r \in Requests, NEW s, s \notin HasPermit,
           pc[r] \in HasPermit, pc' = [pc EXCEPT ![r] = s], active' = active - 1
    PROVE  CountInv'
<1>1. IsFiniteSet(Holders)
  BY RequestsAssumption, FS_Subset DEF Holders
<1>2. Holders' = Holders \ {r}
  BY DEF Holders, TypeOK
<1>3. r \in Holders
  BY DEF Holders
<1>4. Cardinality(Holders \ {r}) = Cardinality(Holders) - 1
  BY <1>1, <1>3, FS_RemoveElement
<1> QED
  BY <1>2, <1>4 DEF CountInv

\* Nothing else changes the count.
LEMMA CountSame ==
    ASSUME CountInv, Holders' = Holders, active' = active
    PROVE  CountInv'
BY DEF CountInv

-----------------------------------------------------------------------------
(***************************************************************************)
(* Type correctness.                                                       *)
(***************************************************************************)

\* The lease an admission may use is one of the times the model knows.
LEMMA EffectiveLeaseType ==
    ASSUME TypeOK, NEW r \in Requests, cluster[r] \in Clusters
    PROVE  EffectiveLease(r) \in Lefts
BY LeftsClosed DEF TypeOK, EffectiveLease

\* A request that holds an admission has captured an object.
LEMMA AdmissionHasCluster ==
    ASSUME TypeOK, HeldGenerationInstalled, NEW r \in Requests, pc[r] \in HasAdmission
    PROVE  cluster[r] \in Clusters
BY DEF TypeOK, HeldGenerationInstalled

\* Dropping a permit keeps the types of what it changes.
LEMMA ReleaseType ==
    ASSUME TypeOK, CountInv, NEW r \in Requests, pc[r] \in HasPermit, Release(r)
    PROVE  /\ active' \in Nat
           /\ pc' \in [Requests -> HasPermit \cup {"idle", "retained"}]
           /\ cluster' \in [Requests -> Clusters \cup {NoCluster}]
           /\ due' \in [Requests -> Lefts]
           /\ timer' \in [Requests -> Lefts]
           /\ notified' \subseteq Requests
           /\ fresh' \subseteq Requests
<1>1. active' \in Nat
  BY PermitCounted DEF Release
<1> QED
  BY <1>1, LeftsClosed DEF TypeOK, Release, HasPermit, HasAdmission

\* The steps of a request keep every variable in its type.
LEMMA RequestStepType ==
    ASSUME TypeOK, CountInv, HeldGenerationInstalled, NotifiedInv,
           NEW r \in Requests, RequestStep(r)
    PROVE  TypeOK'
<1> USE DEF mapVars, issuerVars, workerVars, requestVars
<1>1. CASE Acquire(r)
  BY <1>1 DEF TypeOK, Acquire, HasPermit
<1>2. CASE Admit(r)
  <2>1. CASE left[installed] > 0
    BY <1>2, <2>1, LeftsClosed DEF TypeOK, Admit, HasPermit, HasAdmission
  <2>2. CASE left[installed] = 0
    <3>1. Release(r)
      BY <1>2, <2>2 DEF Admit
    <3>2. pc[r] \in HasPermit
      BY <1>2 DEF Admit, HasPermit
    <3> QED
      BY <1>2, <3>1, <3>2, ReleaseType DEF TypeOK, Admit
  <2>3. left[installed] \in Nat
    BY LeftsClosed DEF TypeOK
  <2> QED
    BY <2>1, <2>2, <2>3
<1>3. CASE Finish(r)
  BY <1>3, ReleaseType DEF TypeOK, Finish, HasPermit, HasAdmission
<1>4. CASE ClockUnhealthy(r)
  BY <1>4, ReleaseType, LeftsClosed, ZenonT(40) DEF TypeOK, ClockUnhealthy, HasPermit, HasAdmission
<1>5. CASE SampleBodyTimeout(r)
  <2>1. EffectiveLease(r) \in Lefts
    BY <1>5, AdmissionHasCluster, EffectiveLeaseType DEF SampleBodyTimeout, HasAdmission
  <2> QED
    BY <1>5, <2>1 DEF TypeOK, SampleBodyTimeout, HasPermit, HasAdmission
<1>6. ASSUME Shorten(r), pc[r] \in HasAdmission,
             UNCHANGED <<authority, granted, mapVars, transition, issuerVars, workerVars>>
      PROVE  TypeOK'
  <2>1. EffectiveLease(r) \in Lefts
    BY <1>6, AdmissionHasCluster, EffectiveLeaseType
  <2>2. CASE RequireValidNow(r)
    BY <1>6, <2>1, <2>2 DEF TypeOK, Shorten, HasPermit, HasAdmission
  <2>3. CASE ~RequireValidNow(r)
    BY <1>6, <2>3, ReleaseType DEF TypeOK, Shorten, HasPermit
  <2> QED
    BY <2>2, <2>3
<1>7. CASE SubscribePublicationPending(r)
  <2>1. CASE transition = "Open"
    BY <1>7, <2>1 DEF TypeOK, SubscribePublicationPending, HasPermit, HasAdmission
  <2>2. CASE transition # "Open"
    BY <1>6, <1>7, <2>2 DEF SubscribePublicationPending, HasAdmission
  <2> QED
    BY <2>1, <2>2
<1>8. CASE WakeBodyWait(r)
  BY <1>6, <1>8 DEF WakeBodyWait, HasAdmission, NotifiedInv
<1>9. CASE BodyFrame(r)
  BY <1>9, LeftsClosed DEF TypeOK, BodyFrame, HasPermit, HasAdmission
<1>10. CASE BodyTimeout(r)
  BY <1>10, ReleaseType DEF TypeOK, BodyTimeout, HasPermit, HasAdmission
<1>11. CASE RetainRead(r)
  <2>1. EffectiveLease(r) \in Lefts
    BY <1>11, AdmissionHasCluster, EffectiveLeaseType DEF RetainRead, HasAdmission
  <2>2. active' \in Nat
    BY <1>11, PermitCounted DEF RetainRead, HasPermit, HasAdmission
  <2> QED
    BY <1>11, <2>1, <2>2 DEF TypeOK, RetainRead
<1>12. CASE StartRepair(r)
  BY <1>12 DEF TypeOK, StartRepair, HasPermit
<1>13. CASE EndRepair(r)
  <2>1. active' \in Nat
    BY <1>13, PermitCounted DEF EndRepair, HasPermit
  <2> QED
    BY <1>13, <2>1 DEF TypeOK, EndRepair
<1>14. CASE EndRead(r)
  BY <1>14, LeftsClosed DEF TypeOK, EndRead
<1> QED
  BY <1>1, <1>2, <1>3, <1>4, <1>5, <1>7, <1>8, <1>9, <1>10, <1>11, <1>12, <1>13,
     <1>14 DEF RequestStep

\* A lease the control plane grants keeps the type of `granted'.
LEMMA GrantType ==
    ASSUME TypeOK, NEW c \in Answers, NEW g \in Grants, Grant(c, g)
    PROVE  /\ c \in Contents
           /\ g \in Lefts
           /\ granted' \in [Contents -> Lefts]
<1>1. c \in Contents
  BY DEF TypeOK, Answers
<1>2. g \in Lefts /\ granted[c] \in Lefts
  BY <1>1, LeftsClosed DEF TypeOK
<1>3. Longer(granted[c], g) \in Lefts
  BY <1>2, LeftsClosed
<1> QED
  BY <1>1, <1>2, <1>3 DEF TypeOK, Grant

\* So do those of the worker.
LEMMA WorkerStepType ==
    ASSUME TypeOK, CandidateInv, WorkerStep
    PROVE  TypeOK'
<1> USE DEF mapVars, issuerVars, workerVars, requestVars
<1>1. CASE FetchStatus
  <2>1. CASE \E c \in Answers, g \in Grants :
                /\ Grant(c, g)
                /\ status' = [content |-> c, left |-> g]
                /\ worker' = "status"
    <3>1. PICK c \in Answers, g \in Grants :
            /\ Grant(c, g)
            /\ status' = [content |-> c, left |-> g]
            /\ worker' = "status"
      BY <2>1
    <3>2. c \in Contents /\ g \in Lefts /\ granted' \in [Contents -> Lefts]
      BY <3>1, GrantType
    <3> QED
      BY <1>1, <3>1, <3>2 DEF TypeOK, FetchStatus
  <2>2. CASE worker' \in {"publish", "expire"} /\ UNCHANGED <<granted, status>>
    BY <1>1, <2>2 DEF TypeOK, FetchStatus
  <2> QED
    BY <1>1, <2>1, <2>2 DEF FetchStatus
<1>2. CASE Renew
  BY <1>2, LeftsClosed, NoStatusType DEF TypeOK, Renew
<1>3. CASE BeginPublication
  BY <1>3 DEF TypeOK, BeginPublication
<1>4. CASE Drained
  BY <1>4 DEF TypeOK, Drained
<1>5. CASE FetchMap
  <2>1. CASE \E a \in Answers, g \in Grants, c \in Clusters \ Held :
                /\ Grant(a, g)
                /\ candidate' = c
                /\ content' = [content EXCEPT ![c] = a]
                /\ left' = [left EXCEPT ![c] = g]
                /\ listed' = listed \ {c}
                /\ worker' = "check"
                /\ UNCHANGED <<transition, fresh>>
    <3>1. PICK a \in Answers, g \in Grants, c \in Clusters \ Held :
            /\ Grant(a, g)
            /\ candidate' = c
            /\ content' = [content EXCEPT ![c] = a]
            /\ left' = [left EXCEPT ![c] = g]
            /\ listed' = listed \ {c}
            /\ worker' = "check"
            /\ UNCHANGED <<transition, fresh>>
      BY <2>1
    <3>2. a \in Contents /\ g \in Lefts /\ granted' \in [Contents -> Lefts]
      BY <3>1, GrantType
    <3> QED
      BY <1>5, <3>1, <3>2 DEF TypeOK, FetchMap
  <2>2. CASE /\ worker' \in {"idle", "expire"}
             /\ EndPublication
             /\ UNCHANGED <<granted, candidate, content, left, listed>>
    BY <1>5, <2>2 DEF TypeOK, FetchMap, EndPublication
  <2> QED
    BY <1>5, <2>1, <2>2 DEF FetchMap
<1>6. CASE BeginReplacement
  BY <1>6 DEF TypeOK, BeginReplacement, EndRefresh, EndPublication
<1>7. CASE Install
  BY <1>7 DEF TypeOK, Install, EndRefresh, EndPublication, ListedAfterInstall, CandidateInv
<1>8. CASE ExpireSameEpochGenerations
  BY <1>8, LeftsClosed DEF TypeOK, ExpireSameEpochGenerations
<1> QED
  BY <1>1, <1>2, <1>3, <1>4, <1>5, <1>6, <1>7, <1>8 DEF WorkerStep

\* Time and the control plane keep the types too.
LEMMA EnvironmentType ==
    ASSUME TypeOK, Tick \/ AuthorityChanges
    PROVE  TypeOK'
BY LeftsClosed DEF TypeOK, Tick, AuthorityChanges, mapVars, issuerVars, workerVars,
                   requestVars

-----------------------------------------------------------------------------
(***************************************************************************)
(* Permits.                                                                *)
(***************************************************************************)

\* A request that gives up its admission leaves the other permits alone.
LEMMA ReleasePermits ==
    ASSUME TypeOK, PermitInv, NEW r \in Requests,
           pc[r] \in HasAdmission \cup {"permit"}, Release(r),
           UNCHANGED <<installed, transition, worker>>
    PROVE  PermitInv'
<1> USE DEF PermitInv
<1>1. pc[r] \in HasPermit /\ "idle" \notin HasPermit
  BY DEF HasPermit, HasAdmission
<1>2. CountInv'
  BY <1>1, CountDown DEF Release
<1>3. Holders' \subseteq Holders
  BY <1>1 DEF Holders, Release, TypeOK
<1>4. GateInv'
  BY <1>3 DEF GateInv
<1>5. r \notin fresh
  BY DEF FenceInv, HasAdmission
<1>6. FenceInv'
  BY <1>5 DEF FenceInv, Release, TypeOK
<1>7. RepairInv'
  BY DEF RepairInv, Release, TypeOK
<1>8. NotifiedInv'
  BY DEF NotifiedInv, Release, TypeOK
<1>9. HeldGenerationInstalled'
  BY DEF HeldGenerationInstalled, Release, TypeOK, HasAdmission
<1> QED
  BY <1>2, <1>4, <1>6, <1>7, <1>8, <1>9

\* A request that moves on within its admission keeps its permit.
LEMMA AdmissionPermits ==
    ASSUME TypeOK, PermitInv, NEW r \in Requests, NEW s \in HasAdmission,
           pc[r] \in HasAdmission, pc' = [pc EXCEPT ![r] = s],
           notified' \subseteq notified \ {r} \/ (notified' = notified /\ r \notin notified),
           UNCHANGED <<active, cluster, fresh, installed, transition, worker>>
    PROVE  PermitInv'
<1> USE DEF PermitInv
<1>1. Holders' = Holders
  BY DEF Holders, TypeOK, HasPermit
<1>2. CountInv'
  BY <1>1, CountSame
<1>3. GateInv'
  BY <1>1 DEF GateInv
<1>4. FenceInv'
  BY DEF FenceInv, TypeOK, HasAdmission
<1>5. RepairInv'
  BY DEF RepairInv, TypeOK, HasAdmission
<1>6. NotifiedInv'
  BY DEF NotifiedInv, TypeOK
<1>7. HeldGenerationInstalled'
  BY DEF HeldGenerationInstalled, TypeOK, HasAdmission
<1> QED
  BY <1>2, <1>3, <1>4, <1>5, <1>6, <1>7

\* A wait that is shortened or ended by a publication.
LEMMA ShortenPermits ==
    ASSUME TypeOK, PermitInv, NEW r \in Requests, pc[r] \in HasAdmission, Shorten(r),
           UNCHANGED <<installed, transition, worker>>
    PROVE  PermitInv'
<1>1. CASE RequireValidNow(r)
  <2>1. "shortened" \in HasAdmission
    BY DEF HasAdmission
  <2> QED
    BY <1>1, <2>1, AdmissionPermits DEF Shorten, Release
<1>2. CASE ~RequireValidNow(r)
  BY <1>2, ReleasePermits DEF Shorten
<1> QED
  BY <1>1, <1>2

\* Every step of a request keeps the permits in order.
LEMMA RequestStepPermits ==
    ASSUME TypeOK, PermitInv, NEW r \in Requests, RequestStep(r)
    PROVE  PermitInv'
<1> USE DEF mapVars, issuerVars, workerVars, requestVars
<1>1. CASE Acquire(r)
  <2>1. "permit" \in HasPermit /\ "idle" \notin HasPermit
    BY DEF HasPermit, HasAdmission
  <2>2. CountInv'
    BY <1>1, <2>1, CountUp DEF Acquire, PermitInv
  <2>3. GateInv'
    BY <1>1 DEF Acquire, PermitInv, GateInv
  <2>4. FenceInv' /\ NotifiedInv'
    BY <1>1 DEF Acquire, PermitInv, FenceInv, NotifiedInv, TypeOK
  <2>5. RepairInv' /\ HeldGenerationInstalled'
    BY <1>1 DEF Acquire, PermitInv, RepairInv, HeldGenerationInstalled, TypeOK,
                HasAdmission
  <2> QED
    BY <2>2, <2>3, <2>4, <2>5 DEF PermitInv
<1>2. CASE Admit(r)
  <2>1. CASE left[installed] > 0
    <3>1. Holders' = Holders
      BY <1>2, <2>1, LeftsClosed DEF Admit, Holders, TypeOK, HasPermit, HasAdmission
    <3>2. CountInv' /\ GateInv'
      BY <1>2, <2>1, <3>1, CountSame, LeftsClosed DEF Admit, PermitInv, GateInv, TypeOK
    <3>3. FenceInv' /\ NotifiedInv'
      BY <1>2, <2>1, LeftsClosed DEF Admit, PermitInv, FenceInv, NotifiedInv, TypeOK
    <3>4. RepairInv' /\ HeldGenerationInstalled'
      BY <1>2, <2>1, LeftsClosed DEF Admit, PermitInv, RepairInv,
                                     HeldGenerationInstalled, TypeOK
    <3> QED
      BY <3>2, <3>3, <3>4 DEF PermitInv
  <2>2. CASE left[installed] = 0
    BY <1>2, <2>2, ReleasePermits DEF Admit
  <2>3. left[installed] \in Nat
    BY LeftsClosed DEF TypeOK
  <2> QED
    BY <2>1, <2>2, <2>3
<1>3. CASE Finish(r)
  BY <1>3, ReleasePermits DEF Finish, HasAdmission
<1>4. CASE ClockUnhealthy(r)
  BY <1>4, ReleasePermits DEF ClockUnhealthy, HasAdmission
<1>5. CASE SampleBodyTimeout(r)
  <2>1. r \notin notified
    BY <1>5 DEF SampleBodyTimeout, PermitInv, NotifiedInv
  <2> QED
    BY <1>5, <2>1, AdmissionPermits DEF SampleBodyTimeout, HasAdmission
<1>6. CASE SubscribePublicationPending(r)
  <2>1. r \notin notified
    BY <1>6 DEF SubscribePublicationPending, PermitInv, NotifiedInv
  <2>2. CASE transition = "Open"
    BY <1>6, <2>1, <2>2, AdmissionPermits DEF SubscribePublicationPending, HasAdmission
  <2>3. CASE transition # "Open"
    BY <1>6, <2>3, ShortenPermits DEF SubscribePublicationPending, HasAdmission
  <2> QED
    BY <2>2, <2>3
<1>7. CASE WakeBodyWait(r)
  BY <1>7, ShortenPermits DEF WakeBodyWait, PermitInv, NotifiedInv, HasAdmission
<1>8. CASE BodyFrame(r)
  BY <1>8, AdmissionPermits DEF BodyFrame, HasAdmission
<1>9. CASE BodyTimeout(r)
  BY <1>9, ReleasePermits DEF BodyTimeout, HasAdmission
<1>10. CASE RetainRead(r)
  <2>1. pc[r] \in HasPermit /\ "retained" \notin HasPermit
    BY <1>10 DEF RetainRead, HasPermit, HasAdmission
  <2>2. CountInv'
    BY <1>10, <2>1, CountDown DEF RetainRead, PermitInv
  <2>3. Holders' \subseteq Holders
    BY <1>10, <2>1 DEF RetainRead, Holders, TypeOK
  <2>4. GateInv'
    BY <1>10, <2>3 DEF RetainRead, PermitInv, GateInv
  <2>5. FenceInv' /\ NotifiedInv'
    BY <1>10 DEF RetainRead, PermitInv, FenceInv, NotifiedInv, TypeOK,
                 HeldGenerationInstalled, HasAdmission
  <2>6. RepairInv' /\ HeldGenerationInstalled'
    BY <1>10 DEF RetainRead, PermitInv, RepairInv, HeldGenerationInstalled, TypeOK,
                 HasAdmission
  <2> QED
    BY <2>2, <2>4, <2>5, <2>6 DEF PermitInv
<1>11. CASE StartRepair(r)
  <2>1. pc[r] \notin HasPermit /\ "repairing" \in HasPermit
    BY <1>11 DEF StartRepair, HasPermit, HasAdmission
  <2>2. CountInv'
    BY <1>11, <2>1, CountUp DEF StartRepair, PermitInv
  <2>3. GateInv'
    BY <1>11 DEF StartRepair, PermitInv, GateInv
  <2>4. FenceInv' /\ NotifiedInv'
    BY <1>11 DEF StartRepair, PermitInv, FenceInv, NotifiedInv, TypeOK
  <2>5. RepairInv' /\ HeldGenerationInstalled'
    BY <1>11 DEF StartRepair, PermitInv, FenceInv, RepairInv, HeldGenerationInstalled,
                 TypeOK
  <2> QED
    BY <2>2, <2>3, <2>4, <2>5 DEF PermitInv
<1>12. CASE EndRepair(r)
  <2>1. pc[r] \in HasPermit /\ "retained" \notin HasPermit
    BY <1>12 DEF EndRepair, HasPermit, HasAdmission
  <2>2. CountInv'
    BY <1>12, <2>1, CountDown DEF EndRepair, PermitInv
  <2>3. Holders' \subseteq Holders
    BY <1>12, <2>1 DEF EndRepair, Holders, TypeOK
  <2>4. GateInv'
    BY <1>12, <2>3 DEF EndRepair, PermitInv, GateInv
  <2>5. FenceInv' /\ NotifiedInv'
    BY <1>12 DEF EndRepair, PermitInv, FenceInv, NotifiedInv, TypeOK
  <2>6. RepairInv' /\ HeldGenerationInstalled'
    BY <1>12 DEF EndRepair, PermitInv, RepairInv, HeldGenerationInstalled, TypeOK,
                 HasAdmission
  <2> QED
    BY <2>2, <2>4, <2>5, <2>6 DEF PermitInv
<1>13. CASE EndRead(r)
  <2>1. Holders' = Holders
    BY <1>13 DEF EndRead, Holders, TypeOK, HasPermit, HasAdmission
  <2>2. CountInv' /\ GateInv'
    BY <1>13, <2>1, CountSame DEF EndRead, PermitInv, GateInv
  <2>3. FenceInv' /\ NotifiedInv'
    BY <1>13 DEF EndRead, PermitInv, FenceInv, NotifiedInv, TypeOK
  <2>4. RepairInv' /\ HeldGenerationInstalled'
    BY <1>13 DEF EndRead, PermitInv, RepairInv, HeldGenerationInstalled, TypeOK,
                 HasAdmission
  <2> QED
    BY <2>2, <2>3, <2>4 DEF PermitInv
<1> QED
  BY <1>1, <1>2, <1>3, <1>4, <1>5, <1>6, <1>7, <1>8, <1>9, <1>10, <1>11, <1>12, <1>13
  DEF RequestStep

\* A publication that ends finds no permit and leaves no fence, so it may have
\* installed any generation.
LEMMA EndPublicationPermits ==
    ASSUME TypeOK, PermitInv, transition = "Publishing", EndPublication,
           worker' \in {"idle", "expire"}, UNCHANGED <<active, pc, cluster, notified>>
    PROVE  PermitInv'
<1> USE DEF PermitInv
<1>1. Holders = {} /\ Holders' = Holders
  BY DEF GateInv, Holders
<1>2. \A r \in Requests : pc[r] \notin HasPermit
  BY <1>1 DEF Holders
<1>3. CountInv'
  BY <1>1, CountSame
<1>4. GateInv'
  BY DEF GateInv, EndPublication
<1>5. FenceInv'
  BY DEF FenceInv, EndPublication
<1>6. RepairInv' /\ HeldGenerationInstalled'
  BY <1>2 DEF RepairInv, HeldGenerationInstalled, HasPermit
<1>7. NotifiedInv'
  BY DEF NotifiedInv
<1> QED
  BY <1>3, <1>4, <1>5, <1>6, <1>7

\* A step that leaves the gate, the permits and the installed generation alone.
LEMMA QuietPermits ==
    ASSUME PermitInv, UNCHANGED <<active, pc, cluster, notified, fresh, installed,
                                  transition>>,
           \/ worker' = worker
           \/ worker \notin {"draining", "fetch", "check", "install"}
              /\ worker' \notin {"draining", "fetch", "check", "install"}
           \/ worker \in {"fetch", "check", "install"}
              /\ worker' \in {"fetch", "check", "install"}
    PROVE  PermitInv'
<1> USE DEF PermitInv
<1>1. Holders' = Holders
  BY DEF Holders
<1>2. CountInv'
  BY <1>1, CountSame
<1>3. GateInv'
  BY <1>1 DEF GateInv
<1> QED
  BY <1>2, <1>3 DEF FenceInv, RepairInv, NotifiedInv, HeldGenerationInstalled

\* The refresh worker replaces the installed generation only when no permit is
\* left.
LEMMA WorkerStepPermits ==
    ASSUME TypeOK, PermitInv, WorkerStep
    PROVE  PermitInv'
<1> USE DEF mapVars, issuerVars, workerVars, requestVars
<1>1. CASE FetchStatus
  BY <1>1, QuietPermits DEF FetchStatus
<1>2. CASE Renew
  BY <1>2, QuietPermits DEF Renew
<1>3. CASE BeginPublication
  <2>1. Holders' = Holders
    BY <1>3 DEF BeginPublication, Holders
  <2>2. CountInv'
    BY <1>3, <2>1, CountSame DEF BeginPublication, PermitInv
  <2>3. GateInv'
    BY <1>3 DEF BeginPublication, PermitInv, GateInv
  <2>4. NotifiedInv'
    BY <1>3 DEF BeginPublication, NotifiedInv
  <2>5. FenceInv' /\ RepairInv' /\ HeldGenerationInstalled'
    BY <1>3 DEF BeginPublication, PermitInv, FenceInv, RepairInv,
                HeldGenerationInstalled
  <2> QED
    BY <2>2, <2>3, <2>4, <2>5 DEF PermitInv
<1>4. CASE Drained
  <2>1. Holders = {}
    <3>1. IsFiniteSet(Holders)
      BY RequestsAssumption, FS_Subset DEF Holders
    <3> QED
      BY <1>4, <3>1, FS_EmptySet DEF Drained, PermitInv, CountInv
  <2>2. Holders' = Holders
    BY <1>4 DEF Drained, Holders
  <2>3. CountInv'
    BY <1>4, <2>2, CountSame DEF Drained, PermitInv
  <2>4. GateInv'
    BY <1>4, <2>1, <2>2 DEF Drained, GateInv
  <2>5. FenceInv' /\ RepairInv' /\ NotifiedInv' /\ HeldGenerationInstalled'
    BY <1>4 DEF Drained, PermitInv, FenceInv, RepairInv, NotifiedInv,
                HeldGenerationInstalled
  <2> QED
    BY <2>3, <2>4, <2>5 DEF PermitInv
<1>5. CASE FetchMap
  <2>1. transition = "Publishing"
    BY <1>5 DEF FetchMap, PermitInv, GateInv
  <2>2. CASE worker' = "check" /\ UNCHANGED <<transition, fresh>>
    BY <1>5, <2>2, QuietPermits DEF FetchMap
  <2>3. CASE worker' \in {"idle", "expire"} /\ EndPublication
    BY <1>5, <2>1, <2>3, EndPublicationPermits DEF FetchMap
  <2> QED
    BY <1>5, <2>2, <2>3 DEF FetchMap
<1>6. CASE BeginReplacement
  <2>1. transition = "Publishing"
    BY <1>6 DEF BeginReplacement, PermitInv, GateInv
  <2>2. CASE EndRefresh
    BY <1>6, <2>1, <2>2, EndPublicationPermits DEF BeginReplacement, EndRefresh
  <2>3. CASE worker' = "install" /\ UNCHANGED <<candidate, transition, fresh>>
    BY <1>6, <2>3, QuietPermits DEF BeginReplacement
  <2> QED
    BY <1>6, <2>2, <2>3 DEF BeginReplacement
<1>7. CASE Install
  <2>1. transition = "Publishing"
    BY <1>7 DEF Install, PermitInv, GateInv
  <2> QED
    BY <1>7, <2>1, EndPublicationPermits DEF Install, EndRefresh
<1>8. CASE ExpireSameEpochGenerations
  BY <1>8, QuietPermits DEF ExpireSameEpochGenerations
<1> QED
  BY <1>1, <1>2, <1>3, <1>4, <1>5, <1>6, <1>7, <1>8 DEF WorkerStep

-----------------------------------------------------------------------------
(***************************************************************************)
(* Refreshes.                                                              *)
(***************************************************************************)

\* Requests, time and the control plane leave the refresh alone.
LEMMA OthersRefresh ==
    ASSUME RefreshInv,
           Tick \/ AuthorityChanges \/ \E r \in Requests : RequestStep(r)
    PROVE  RefreshInv'
<1>1. UNCHANGED <<installed, content, listed, replacing, issuers, worker, candidate>>
  BY DEF Tick, AuthorityChanges, RequestStep, Acquire, Admit, Finish, ClockUnhealthy,
         SampleBodyTimeout, SubscribePublicationPending, WakeBodyWait, BodyFrame,
         BodyTimeout, RetainRead, StartRepair, EndRepair, EndRead, mapVars,
         issuerVars, workerVars
<1> QED
  BY <1>1 DEF RefreshInv, IssuerInv, RetirementRemembered, CandidateInv,
              AcceptedInv, InstalledIsListed

\* Every step of the worker keeps the installed generation listed and a failed
\* replacement remembered.
LEMMA WorkerStepRefresh ==
    ASSUME TypeOK, RefreshInv, WorkerStep
    PROVE  RefreshInv'
<1> USE DEF mapVars, issuerVars, workerVars, requestVars, RefreshInv, IssuerInv,
            RetirementRemembered, CandidateInv, AcceptedInv,
            InstalledIsListed
<1>1. CASE FetchStatus
  BY <1>1 DEF FetchStatus
<1>2. CASE Renew
  BY <1>2 DEF Renew, Held
<1>3. CASE BeginPublication
  BY <1>3 DEF BeginPublication
<1>4. CASE Drained
  BY <1>4 DEF Drained
<1>5. CASE FetchMap
  BY <1>5 DEF FetchMap, Held
<1>6. CASE BeginReplacement
  BY <1>6 DEF BeginReplacement, EndRefresh, MustReplace, Acceptable, TypeOK
<1>7. CASE Install
  <2>1. worker' = "idle"
    BY <1>7 DEF Install, EndRefresh
  <2>2. CASE installed' = candidate /\ listed' = ListedAfterInstall
             /\ issuers' = IF issuers = "replacing" THEN "active" ELSE issuers
    <3>1. InstalledIsListed'
      BY <2>2 DEF ListedAfterInstall
    <3>2. issuers' = "active"
      BY <1>7, <2>2 DEF Install, TypeOK
    <3> QED
      BY <2>1, <3>1, <3>2
  <2>3. CASE issuers' = (IF issuers = "replacing" THEN "retired" ELSE issuers)
             /\ UNCHANGED <<left, listed, installed, replacing>>
    <3>1. replacing
      BY <1>7 DEF Install
    <3>2. replacing' /\ InstalledIsListed'
      BY <2>3, <3>1
    <3>3. issuers' # "replacing"
      BY <2>3
    <3> QED
      BY <2>1, <3>2, <3>3
  <2> QED
    BY <1>7, <2>2, <2>3 DEF Install
<1>8. CASE ExpireSameEpochGenerations
  BY <1>8 DEF ExpireSameEpochGenerations, Held
<1> QED
  BY <1>1, <1>2, <1>3, <1>4, <1>5, <1>6, <1>7, <1>8 DEF WorkerStep

-----------------------------------------------------------------------------
(***************************************************************************)
(* The theorems.                                                           *)
(***************************************************************************)

\* The invariant holds initially.
LEMMA InitInv == Init => Inv
<1> SUFFICES ASSUME Init PROVE Inv
  OBVIOUS
<1>1. TypeOK
  <2>1. PICK c \in Contents, g \in Grants, i \in Clusters :
          /\ authority = c
          /\ granted = [d \in Contents |-> IF d = c THEN g ELSE 0]
          /\ installed = i
          /\ content = [j \in Clusters |-> c]
          /\ left = [j \in Clusters |-> IF j = i THEN g ELSE 0]
          /\ listed = {i}
    BY DEF Init
  <2>2. g \in Lefts /\ 0 \in Lefts
    BY LeftsClosed
  <2>3. /\ authority \in Contents
        /\ granted \in [Contents -> Lefts]
        /\ installed \in Clusters
        /\ content \in [Clusters -> Contents]
        /\ left \in [Clusters -> Lefts]
        /\ listed \subseteq Clusters
    BY <2>1, <2>2
  <2>4. /\ candidate \in Clusters \cup {NoCluster}
        /\ active \in Nat
        /\ transition = "Open" /\ issuers = "active" /\ worker = "idle"
    BY DEF Init
  <2>5. /\ pc \in [Requests -> HasPermit \cup {"idle", "retained"}]
        /\ cluster \in [Requests -> Clusters \cup {NoCluster}]
        /\ due \in [Requests -> Lefts]
        /\ timer \in [Requests -> Lefts]
        /\ notified \subseteq Requests
        /\ fresh \subseteq Requests
    BY <2>2 DEF Init
  <2>6. status \in [content : Contents, left : Lefts]
    <3>1. status = NoStatus
      BY DEF Init
    <3> QED
      BY <3>1, NoStatusType
  <2>7. replacing \in BOOLEAN
    BY DEF Init
  <2> QED
    BY <2>3, <2>4, <2>5, <2>6, <2>7 DEF TypeOK
<1>2. Holders = {}
  BY DEF Init, Holders, HasPermit, HasAdmission
<1>3. CountInv
  BY <1>2, FS_EmptySet DEF Init, CountInv
<1>4. PermitInv
  BY <1>2, <1>3 DEF Init, PermitInv, GateInv, FenceInv, RepairInv, NotifiedInv,
                    HeldGenerationInstalled, HasAdmission
<1>5. RefreshInv
  BY DEF Init, RefreshInv, IssuerInv, RetirementRemembered, CandidateInv,
         AcceptedInv, InstalledIsListed
<1> QED
  BY <1>1, <1>4, <1>5 DEF Inv

\* Every step preserves it.
LEMMA StepInv == Inv /\ [Next]_vars => Inv'
<1> SUFFICES ASSUME Inv, [Next]_vars PROVE Inv'
  OBVIOUS
<1> USE DEF Inv
<1>1. CASE \E r \in Requests : RequestStep(r)
  BY <1>1, RequestStepType, RequestStepPermits, OthersRefresh DEF PermitInv
<1>2. CASE WorkerStep
  BY <1>2, WorkerStepType, WorkerStepPermits, WorkerStepRefresh DEF RefreshInv
<1>3. CASE Tick \/ AuthorityChanges
  <2>1. TypeOK'
    BY <1>3, EnvironmentType
  <2>2. PermitInv'
    BY <1>3, QuietPermits DEF Tick, AuthorityChanges, mapVars, workerVars, requestVars
  <2> QED
    BY <1>3, <2>1, <2>2, OthersRefresh
<1>4. CASE UNCHANGED vars
  <2> USE <1>4 DEF vars, mapVars, issuerVars, workerVars, requestVars
  <2>1. TypeOK'
    BY DEF TypeOK
  <2>2. PermitInv'
    BY QuietPermits
  <2>3. RefreshInv'
    BY DEF RefreshInv, IssuerInv, RetirementRemembered, CandidateInv,
           AcceptedInv, InstalledIsListed
  <2> QED
    BY <2>1, <2>2, <2>3
<1> QED
  BY <1>1, <1>2, <1>3, <1>4 DEF Next

\* The invariant holds in every reachable state.
LEMMA InvCorrect == Spec => []Inv
BY InitInv, StepInv, PTL DEF Spec

\* Every variable keeps its type for any number of requests and objects; with
\* it, active_requests never underflows when a permit is dropped.
THEOREM AdmissionTypeCorrect == Spec => []TypeOK
<1>1. Inv => TypeOK
  BY DEF Inv
<1> QED
  BY <1>1, InvCorrect, PTL

\* Whatever the interleaving of admissions, waits, retained reads, repairs and
\* refreshes, what owns an admission permit works on the installed map:
\* begin_publication drains every permit before install_during_publication
\* replaces the map, and the fence of a retained read stops a repair after it.
THEOREM HeldGenerationInstalledCorrect == Spec => []HeldGenerationInstalled
<1>1. Inv => HeldGenerationInstalled
  BY DEF Inv, PermitInv
<1> QED
  BY <1>1, InvCorrect, PTL

\* The installed map is always in same_epoch_generations, so that
\* renew_from_runtime_map_status extends it and
\* expire_same_epoch_generations expires it.
THEOREM InstalledIsListedCorrect == Spec => []InstalledIsListed
<1>1. Inv => InstalledIsListed
  BY DEF Inv, RefreshInv
<1> QED
  BY <1>1, InvCorrect, PTL

\* After an installation that failed with issuers taken out of use,
\* allocation_lifetime_replacement_pending stays set until one succeeds.
THEOREM RetirementRememberedCorrect == Spec => []RetirementRemembered
<1>1. Inv => RetirementRemembered
  BY DEF Inv, RefreshInv
<1> QED
  BY <1>1, InvCorrect, PTL
-----------------------------------------------------------------------------
(***************************************************************************)
(* Steps that change or renew the installed generation.                    *)
(***************************************************************************)

\* Only install_during_publication replaces the installed map, by one of an
\* epoch no older that is still valid: not by what a slow endpoint answered and
\* not by a candidate whose lease ran out while it waited for the PG locks.
THEOREM InstalledMovesForwardCorrect == Spec => InstalledMovesForward
<1> DEFINE Forward == installed' # installed =>
                        /\ content'[installed'].epoch >= content[installed].epoch
                        /\ left'[installed'] > 0
<1>1. ASSUME Inv, [Next]_vars PROVE [Forward]_vars
  <2> USE <1>1 DEF mapVars, issuerVars, workerVars, requestVars
  <2>1. CASE Install
    <3>1. CASE installed' = candidate
      <4>1. content[candidate].epoch >= content[installed].epoch
        BY <2>1 DEF Install, Inv, RefreshInv, AcceptedInv
      <4>2. candidate \in Clusters \ {installed}
        BY <2>1 DEF Install, Inv, RefreshInv, CandidateInv
      <4>3. left'[candidate] > 0
        BY <2>1, <3>1, <4>2 DEF Install
      <4> QED
        BY <2>1, <3>1, <4>1, <4>3 DEF Install
    <3>2. CASE installed' = installed
      BY <3>2
    <3> QED
      BY <2>1, <3>1, <3>2 DEF Install
  <2>2. CASE WorkerStep /\ ~Install
    BY <2>2 DEF WorkerStep, FetchStatus, Renew, BeginPublication, Drained, FetchMap,
                BeginReplacement, ExpireSameEpochGenerations
  <2>3. CASE \E r \in Requests : RequestStep(r)
    BY <2>3 DEF RequestStep, Acquire, Admit, Finish, ClockUnhealthy, SampleBodyTimeout,
                SubscribePublicationPending, WakeBodyWait, BodyFrame, BodyTimeout,
                RetainRead, StartRepair, EndRepair, EndRead
  <2>4. CASE Tick \/ AuthorityChanges
    BY <2>4 DEF Tick, AuthorityChanges
  <2> QED
    BY <2>1, <2>2, <2>3, <2>4 DEF Next
<1> QED
  BY <1>1, InvCorrect, PTL DEF Spec, InstalledMovesForward

\* After a failed replacement the retired map is left to expire: MayRenew is
\* false while allocation_lifetime_replacement_pending is set, and no other
\* step lengthens the lease of a map it does not replace.
THEOREM RetiredNotRenewedCorrect == Spec => RetiredNotRenewed
<1> DEFINE NotRenewed == issuers = "retired" /\ installed' = installed
                           => left'[installed] <= left[installed]
<1>1. ASSUME Inv, [Next]_vars PROVE [NotRenewed]_vars
  <2> SUFFICES ASSUME Next, issuers = "retired", installed' = installed
               PROVE  left'[installed] <= left[installed]
    BY <1>1
  <2>1. left[installed] \in Nat /\ installed \in Clusters
    BY <1>1, LeftsClosed DEF Inv, TypeOK
  <2>2. replacing
    BY <1>1 DEF Inv, RefreshInv, RetirementRemembered
  <2> USE DEF mapVars, issuerVars, workerVars, requestVars
  <2>3. CASE left' = left
    BY <2>1, <2>3
  <2>4. CASE Renew
    BY <2>1, <2>2, <2>4 DEF Renew, MayRenew
  <2>5. CASE FetchMap
    BY <1>1, <2>1, <2>5 DEF FetchMap, Held, Inv, TypeOK
  <2>6. CASE Install
    BY <1>1, <2>6 DEF Install, Inv, RefreshInv, IssuerInv
  <2>7. CASE ExpireSameEpochGenerations
    BY <2>1, <2>7 DEF ExpireSameEpochGenerations
  <2>8. CASE Tick
    BY <2>1, <2>8 DEF Tick, Less
  <2>9. ASSUME NEW r \in Requests, ClockUnhealthy(r)
        PROVE  left'[installed] <= left[installed]
    BY <1>1, <2>1, <2>9 DEF ClockUnhealthy, Inv, TypeOK
  <2>10. CASE \E r \in Requests : RequestStep(r) /\ ~ClockUnhealthy(r)
    BY <2>3, <2>10 DEF RequestStep, Acquire, Admit, Finish, SampleBodyTimeout,
                       SubscribePublicationPending, WakeBodyWait, BodyFrame,
                       BodyTimeout, RetainRead, StartRepair, EndRepair, EndRead
  <2>11. CASE FetchStatus \/ BeginPublication \/ Drained \/ BeginReplacement
              \/ AuthorityChanges
    BY <2>3, <2>11 DEF FetchStatus, BeginPublication, Drained, BeginReplacement,
                       AuthorityChanges
  <2> QED
    BY <2>4, <2>5, <2>6, <2>7, <2>8, <2>9, <2>10, <2>11 DEF Next, WorkerStep, RequestStep
<1> QED
  BY <1>1, InvCorrect, PTL DEF Spec, RetiredNotRenewed
-----------------------------------------------------------------------------
(***************************************************************************)
(* Leases stay within what the control plane granted.                      *)
(***************************************************************************)

\* A status the worker still has to apply carries a lease granted for its map.
StatusInv == status.left <= granted[status.content]

LeaseInv == LeaseWithinGrant /\ StatusInv

\* The order of two times survives the passing of one unit.
LEMMA LessMonotone ==
    ASSUME NEW s \in Nat, NEW t \in Nat, s <= t
    PROVE  Less(s) <= Less(t)
BY DEF Less

\* A grant covers itself and takes nothing back.
LEMMA GrantCovers ==
    ASSUME TypeOK, NEW a \in Answers, NEW g \in Grants, Grant(a, g)
    PROVE  /\ g <= granted'[a]
           /\ \A d \in Contents : granted[d] <= granted'[d]
<1>1. a \in Contents /\ g \in Nat
  BY GrantsAssumption DEF TypeOK, Answers
<1>2. \A d \in Contents : granted[d] \in Nat
  BY LeftsClosed DEF TypeOK
<1> QED
  BY <1>1, <1>2 DEF TypeOK, Grant, Longer

\* A step that lengthens no lease, takes no grant back and brings no new object
\* into use.
LEMMA QuietLeases ==
    ASSUME TypeOK, TypeOK', LeaseInv, Held' \subseteq Held \cup {NoCluster},
           UNCHANGED content,
           \A c \in Clusters : left'[c] <= left[c],
           \A d \in Contents : granted[d] <= granted'[d],
           StatusInv'
    PROVE  LeaseInv'
<1>1. ASSUME NEW c \in Held' \ {NoCluster} PROVE left'[c] <= granted'[content'[c]]
  <2>1. c \in Held \ {NoCluster}
    BY <1>1
  <2>2. c \in Clusters
    BY <2>1 DEF TypeOK, Held
  <2>3. content[c] \in Contents
    BY <2>2 DEF TypeOK
  <2>4. left[c] \in Nat /\ left'[c] \in Nat
    BY <2>2, LeftsClosed DEF TypeOK
  <2>5. granted[content[c]] \in Nat /\ granted'[content[c]] \in Nat
    BY <2>3, LeftsClosed DEF TypeOK
  <2>6. left[c] <= granted[content[c]]
    BY <2>1 DEF LeaseInv, LeaseWithinGrant
  <2>7. left'[c] <= left[c] /\ granted[content[c]] <= granted'[content[c]]
    BY <2>2, <2>3
  <2> QED
    BY <2>4, <2>5, <2>6, <2>7
<1> QED
  BY <1>1 DEF LeaseInv, LeaseWithinGrant

\* Requests use the installed object or none, and only shorten leases.
LEMMA RequestStepLeases ==
    ASSUME TypeOK, TypeOK', LeaseInv, NEW r \in Requests, RequestStep(r)
    PROVE  LeaseInv'
<1> USE DEF mapVars, issuerVars, workerVars, requestVars
<1>1. UNCHANGED <<granted, installed, candidate, content, status>>
  BY DEF RequestStep, Acquire, Admit, Finish, ClockUnhealthy, SampleBodyTimeout,
         SubscribePublicationPending, WakeBodyWait, BodyFrame, BodyTimeout,
         RetainRead, StartRepair, EndRepair, EndRead
<1>2. \A q \in Requests : cluster'[q] \in {cluster[q], installed, NoCluster}
  BY DEF RequestStep, Acquire, Admit, Finish, ClockUnhealthy, SampleBodyTimeout,
         SubscribePublicationPending, WakeBodyWait, BodyFrame, BodyTimeout,
         RetainRead, StartRepair, EndRepair, EndRead, Shorten, Release, TypeOK
<1>3. Held' \subseteq Held \cup {NoCluster}
  BY <1>1, <1>2 DEF Held
<1>4. \A c \in Clusters : left[c] \in Nat
  BY LeftsClosed DEF TypeOK
<1>5. \A c \in Clusters : left'[c] <= left[c]
  <2>1. CASE ClockUnhealthy(r)
    BY <2>1, <1>4 DEF ClockUnhealthy, TypeOK
  <2>2. CASE ~ClockUnhealthy(r)
    <3>1. left' = left
      BY <2>2 DEF RequestStep, Acquire, Admit, Finish, SampleBodyTimeout,
                  SubscribePublicationPending, WakeBodyWait, BodyFrame, BodyTimeout,
                  RetainRead, StartRepair, EndRepair, EndRead
    <3> QED
      BY <3>1, <1>4
  <2> QED
    BY <2>1, <2>2
<1>6. \A d \in Contents : granted[d] <= granted'[d]
  <2>1. \A d \in Contents : granted[d] \in Nat
    BY LeftsClosed DEF TypeOK
  <2> QED
    BY <1>1, <2>1
<1>7. StatusInv'
  BY <1>1 DEF LeaseInv, StatusInv
<1> QED
  BY <1>1, <1>3, <1>5, <1>6, <1>7, QuietLeases

\* A renewal lends a generation the lease of its own map only.
LEMMA RenewLeases ==
    ASSUME TypeOK, TypeOK', LeaseInv, Renew
    PROVE  LeaseInv'
<1> USE DEF mapVars, issuerVars, workerVars, requestVars
<1>1. Held' = Held /\ UNCHANGED <<granted, content>>
  BY DEF Renew, Held
<1>2. StatusInv'
  <2>1. status'.left = 0 /\ status'.content \in Contents
    BY DEF Renew, NoStatus, TypeOK
  <2>2. granted'[status'.content] \in Nat
    BY <2>1, LeftsClosed DEF TypeOK
  <2> QED
    BY <2>1, <2>2 DEF StatusInv
<1>3. CASE left' = left
  BY <1>1, <1>2, <1>3 DEF LeaseInv, LeaseWithinGrant
<1>4. CASE left' = [c \in Clusters |-> IF c \in listed /\ Renewed(c)
                                         THEN status.left ELSE left[c]]
  <2>1. ASSUME NEW c \in Held' \ {NoCluster} PROVE left'[c] <= granted'[content'[c]]
    <3>0. c \in Held \ {NoCluster}
      BY <1>1, <2>1
    <3>1. c \in Clusters
      BY <3>0 DEF TypeOK, Held
    <3>2. left[c] <= granted[content[c]]
      BY <3>0 DEF LeaseInv, LeaseWithinGrant
    <3>3. Renewed(c) => status.left <= granted[content[c]]
      BY DEF Renewed, LeaseInv, StatusInv
    <3> QED
      BY <1>1, <1>4, <3>1, <3>2, <3>3
  <2> QED
    BY <1>2, <2>1 DEF LeaseInv, LeaseWithinGrant
<1> QED
  BY <1>3, <1>4 DEF Renew

\* A candidate starts with the lease that came with its map.
LEMMA FetchMapLeases ==
    ASSUME TypeOK, TypeOK', LeaseInv, FetchMap
    PROVE  LeaseInv'
<1> USE DEF mapVars, issuerVars, workerVars, requestVars
<1>0. UNCHANGED <<installed, cluster, status>>
  BY DEF FetchMap
<1>1. CASE UNCHANGED <<granted, candidate, content, left, listed>>
  BY <1>0, <1>1 DEF LeaseInv, LeaseWithinGrant, StatusInv, Held
<1>2. CASE \E a \in Answers, g \in Grants, c \in Clusters \ Held :
              /\ Grant(a, g)
              /\ candidate' = c
              /\ content' = [content EXCEPT ![c] = a]
              /\ left' = [left EXCEPT ![c] = g]
  <2>1. PICK a \in Answers, g \in Grants, c \in Clusters \ Held :
          /\ Grant(a, g)
          /\ candidate' = c
          /\ content' = [content EXCEPT ![c] = a]
          /\ left' = [left EXCEPT ![c] = g]
    BY <1>2
  <2>2. g <= granted'[a] /\ \A d \in Contents : granted[d] <= granted'[d]
    BY <2>1, GrantCovers
  <2>3. \A d \in Contents : granted[d] \in Nat /\ granted'[d] \in Nat
    BY LeftsClosed DEF TypeOK
  <2>4. StatusInv'
    <3>1. status.content \in Contents /\ status.left \in Nat
      BY LeftsClosed DEF TypeOK
    <3> QED
      BY <1>0, <2>2, <2>3, <3>1 DEF LeaseInv, StatusInv
  <2>5. ASSUME NEW e \in Held' \ {NoCluster} PROVE left'[e] <= granted'[content'[e]]
    <3>1. e \in Clusters
      BY <2>1, <2>5, <1>0 DEF TypeOK, Held
    <3>2. CASE e = c
      BY <2>1, <2>2, <3>2 DEF TypeOK
    <3>3. CASE e # c
      <4>1. e \in Held \ {NoCluster}
        BY <1>0, <2>1, <2>5, <3>3 DEF Held
      <4>2. left[e] <= granted[content[e]]
        BY <4>1 DEF LeaseInv, LeaseWithinGrant
      <4>3. left'[e] = left[e] /\ content'[e] = content[e]
        BY <2>1, <3>1, <3>3 DEF TypeOK
      <4>4. left[e] \in Nat /\ content[e] \in Contents
        BY <3>1, LeftsClosed DEF TypeOK
      <4> QED
        BY <2>2, <2>3, <4>2, <4>3, <4>4
    <3> QED
      BY <3>2, <3>3
  <2> QED
    BY <2>4, <2>5 DEF LeaseInv, LeaseWithinGrant
<1> QED
  BY <1>1, <1>2 DEF FetchMap

\* An installation extends retained generations of the same map only.
LEMMA InstallLeases ==
    ASSUME TypeOK, TypeOK', LeaseInv, CandidateInv, Install
    PROVE  LeaseInv'
<1> USE DEF mapVars, issuerVars, workerVars, requestVars
<1>1. UNCHANGED <<granted, content, status, cluster>>
  BY DEF Install
<1>2. candidate \in Held /\ candidate \in Clusters /\ candidate # NoCluster
  BY ClustersAssumption DEF Install, CandidateInv, Held
<1>3. left[candidate] <= granted[content[candidate]]
  BY <1>2 DEF LeaseInv, LeaseWithinGrant
<1>4. Held' \subseteq Held \cup {NoCluster}
  BY <1>1 DEF Install, EndRefresh, Held
<1>5. ASSUME NEW c \in Held' \ {NoCluster} PROVE left'[c] <= granted'[content'[c]]
  <2>1. c \in Held \ {NoCluster}
    BY <1>4, <1>5
  <2>2. c \in Clusters
    BY <2>1 DEF TypeOK, Held
  <2>3. left[c] <= granted[content[c]]
    BY <2>1 DEF LeaseInv, LeaseWithinGrant
  <2>4. CASE left' = left
    BY <1>1, <2>3, <2>4
  <2>5. CASE left' # left
    <3>1. left'[c] = left[c]
          \/ (content[c] = content[candidate] /\ left'[c] = left[candidate])
      BY <2>2, <2>5 DEF Install
    <3> QED
      BY <1>1, <1>3, <2>3, <3>1
  <2> QED
    BY <2>4, <2>5
<1>6. StatusInv'
  BY <1>1 DEF LeaseInv, StatusInv
<1> QED
  BY <1>5, <1>6 DEF LeaseInv, LeaseWithinGrant
\* All times run down together.
LEMMA TickLeases ==
    ASSUME TypeOK, LeaseInv, Tick
    PROVE  LeaseInv'
<1>1. Held' = Held /\ UNCHANGED content
  BY DEF Tick, Held
<1>2. \A d \in Contents : granted[d] \in Nat /\ granted'[d] = Less(granted[d])
  BY LeftsClosed DEF Tick, TypeOK
<1>3. \A c \in Clusters : left[c] \in Nat /\ left'[c] = Less(left[c])
  BY LeftsClosed DEF Tick, TypeOK
<1>4. ASSUME NEW c \in Held' \ {NoCluster} PROVE left'[c] <= granted'[content'[c]]
  <2>1. c \in Held \ {NoCluster}
    BY <1>1, <1>4
  <2>2. c \in Clusters
    BY <2>1 DEF TypeOK, Held
  <2>3. content[c] \in Contents
    BY <2>2 DEF TypeOK
  <2>4. left[c] <= granted[content[c]]
    BY <2>1 DEF LeaseInv, LeaseWithinGrant
  <2> QED
    BY <1>1, <1>2, <1>3, <2>2, <2>3, <2>4, LessMonotone
<1>5. StatusInv'
  <2>1. status.content \in Contents /\ status.left \in Nat
    BY LeftsClosed DEF TypeOK
  <2>2. status'.content = status.content /\ status'.left = Less(status.left)
    BY DEF Tick, TypeOK
  <2>3. status.left <= granted[status.content]
    BY DEF LeaseInv, StatusInv
  <2>4. Less(status.left) <= Less(granted[status.content])
    BY <1>2, <2>1, <2>3, LessMonotone
  <2> QED
    BY <1>2, <2>1, <2>2, <2>4 DEF StatusInv
<1> QED
  BY <1>4, <1>5 DEF LeaseInv, LeaseWithinGrant

\* The remaining steps grant leases or let them expire.
LEMMA OtherLeases ==
    ASSUME TypeOK, TypeOK', LeaseInv,
           \/ FetchStatus \/ BeginPublication \/ Drained \/ BeginReplacement
           \/ ExpireSameEpochGenerations \/ AuthorityChanges
    PROVE  LeaseInv'
<1> USE DEF mapVars, issuerVars, workerVars, requestVars
<1>1. UNCHANGED <<installed, content, cluster>>
  BY DEF FetchStatus, BeginPublication, Drained, BeginReplacement,
         ExpireSameEpochGenerations, AuthorityChanges
<1>2. candidate' \in {candidate, NoCluster}
  BY DEF FetchStatus, BeginPublication, Drained, BeginReplacement, EndRefresh,
         ExpireSameEpochGenerations, AuthorityChanges
<1>3. Held' \subseteq Held \cup {NoCluster}
  BY <1>1, <1>2 DEF Held
<1>4. \A c \in Clusters : left[c] \in Nat
  BY LeftsClosed DEF TypeOK
<1>5. \A c \in Clusters : left'[c] <= left[c]
  <2>1. CASE ExpireSameEpochGenerations
    BY <1>4, <2>1 DEF ExpireSameEpochGenerations
  <2>2. CASE left' = left
    BY <1>4, <2>2
  <2> QED
    BY <2>1, <2>2 DEF FetchStatus, BeginPublication, Drained, BeginReplacement,
                      AuthorityChanges
<1>6. \A d \in Contents : granted[d] \in Nat
  BY LeftsClosed DEF TypeOK
<1>7. CASE UNCHANGED <<granted, status>>
  <2>1. \A d \in Contents : granted[d] <= granted'[d]
    BY <1>6, <1>7
  <2>2. StatusInv'
    BY <1>7 DEF LeaseInv, StatusInv
  <2> QED
    BY <1>1, <1>3, <1>5, <2>1, <2>2, QuietLeases
<1>8. CASE \E c \in Answers, g \in Grants :
              Grant(c, g) /\ status' = [content |-> c, left |-> g]
  <2>1. PICK c \in Answers, g \in Grants :
          Grant(c, g) /\ status' = [content |-> c, left |-> g]
    BY <1>8
  <2>2. g <= granted'[c] /\ \A d \in Contents : granted[d] <= granted'[d]
    BY <2>1, GrantCovers
  <2>3. StatusInv'
    BY <2>1, <2>2 DEF StatusInv
  <2> QED
    BY <1>1, <1>3, <1>5, <2>2, <2>3, QuietLeases
<1> QED
  BY <1>7, <1>8 DEF FetchStatus, BeginPublication, Drained, BeginReplacement,
                    ExpireSameEpochGenerations, AuthorityChanges

\* The first generation has the lease it was loaded with.
LEMMA InitLeases == Init => LeaseInv
<1> SUFFICES ASSUME Init PROVE LeaseInv
  OBVIOUS
<1>1. PICK c \in Contents, g \in Grants, i \in Clusters :
        /\ granted = [d \in Contents |-> IF d = c THEN g ELSE 0]
        /\ installed = i
        /\ content = [j \in Clusters |-> c]
        /\ left = [j \in Clusters |-> IF j = i THEN g ELSE 0]
  BY DEF Init
<1>2. g \in Nat
  BY GrantsAssumption
<1>3. Held \subseteq {i, NoCluster}
  BY <1>1 DEF Init, Held
<1>4. LeaseWithinGrant
  BY <1>1, <1>2, <1>3 DEF LeaseWithinGrant
<1>5. StatusInv
  <2>1. status = NoStatus
    BY DEF Init
  <2>2. status.left = 0 /\ status.content \in Contents
    <3>1. status.left = 0
      BY <2>1 DEF NoStatus
    <3> QED
      BY <2>1, <3>1, NoStatusType
  <2> QED
    BY <1>1, <1>2, <2>2 DEF StatusInv
<1> QED
  BY <1>4, <1>5 DEF LeaseInv

\* No generation in use is ever valid for longer than the control plane granted
\* for its own epoch, digest and authority incarnation, whatever renewals,
\* retained generations and failed refreshes came before.
THEOREM LeaseWithinGrantCorrect == Spec => []LeaseWithinGrant
<1>1. ASSUME Inv, Inv', LeaseInv, [Next]_vars PROVE LeaseInv'
  <2>0. TypeOK /\ TypeOK' /\ CandidateInv
    BY <1>1 DEF Inv, RefreshInv
  <2>1. CASE \E r \in Requests : RequestStep(r)
    BY <1>1, <2>0, <2>1, RequestStepLeases
  <2>2. CASE Renew
    BY <1>1, <2>0, <2>2, RenewLeases
  <2>3. CASE FetchMap
    BY <1>1, <2>0, <2>3, FetchMapLeases
  <2>4. CASE Install
    BY <1>1, <2>0, <2>4, InstallLeases
  <2>5. CASE Tick
    BY <1>1, <2>0, <2>5, TickLeases
  <2>6. CASE \/ FetchStatus \/ BeginPublication \/ Drained \/ BeginReplacement
             \/ ExpireSameEpochGenerations \/ AuthorityChanges
    BY <1>1, <2>0, <2>6, OtherLeases
  <2>7. CASE UNCHANGED vars
    BY <1>1, <2>7 DEF LeaseInv, LeaseWithinGrant, StatusInv, Held, vars, mapVars,
                      issuerVars, workerVars, requestVars
  <2> QED
    BY <1>1, <2>1, <2>2, <2>3, <2>4, <2>5, <2>6, <2>7 DEF Next, WorkerStep
<1>2. LeaseInv => LeaseWithinGrant
  BY DEF LeaseInv
<1> QED
  BY <1>1, <1>2, InitLeases, InvCorrect, PTL DEF Spec

-----------------------------------------------------------------------------
(***************************************************************************)
(* Waits for a body frame while a publication is pending.                  *)
(***************************************************************************)

\* Only a publication that drains shortens waits, each to no more than the
\* deadline of its admission, and it has woken every wait it did not shorten.
WaitInv ==
    \A r \in Requests :
        /\ pc[r] = "shortened" => transition = "Draining" /\ timer[r] <= due[r]
        /\ pc[r] = "body" /\ transition # "Open" => r \in notified

\* A request that sleeps through a step at the same gate stays as it was.
LEMMA WaitKept ==
    ASSUME WaitInv, NEW q \in Requests, pc'[q] = pc[q], timer'[q] = timer[q],
           due'[q] = due[q], UNCHANGED transition,
           q \in notified => q \in notified'
    PROVE  /\ pc'[q] = "shortened" => transition' = "Draining" /\ timer'[q] <= due'[q]
           /\ pc'[q] = "body" /\ transition' # "Open" => q \in notified'
BY DEF WaitInv

\* A request shortens its own wait by the effective lease.
LEMMA RequestStepWaits ==
    ASSUME Inv, Inv', WaitInv, NEW r \in Requests, RequestStep(r)
    PROVE  WaitInv'
<1> USE DEF mapVars, issuerVars, workerVars, requestVars
<1>0. TypeOK /\ TypeOK' /\ GateInv /\ HeldGenerationInstalled /\ NotifiedInv
  BY DEF Inv, PermitInv
<1>1. UNCHANGED transition
  BY DEF RequestStep, Acquire, Admit, Finish, ClockUnhealthy, SampleBodyTimeout,
         SubscribePublicationPending, WakeBodyWait, BodyFrame, BodyTimeout,
         RetainRead, StartRepair, EndRepair, EndRead
<1>2. ASSUME NEW q \in Requests, q # r
      PROVE  /\ pc'[q] = pc[q] /\ timer'[q] = timer[q] /\ due'[q] = due[q]
             /\ q \in notified => q \in notified'
  BY <1>0, <1>2 DEF RequestStep, Acquire, Admit, Finish, ClockUnhealthy,
         SampleBodyTimeout, SubscribePublicationPending, WakeBodyWait, BodyFrame,
         BodyTimeout, RetainRead, StartRepair, EndRepair, EndRead, Shorten, Release,
         TypeOK
<1>3. pc[r] # "shortened" /\ pc'[r] = "shortened" =>
        /\ pc[r] \in {"sampled", "body"} /\ transition # "Open"
        /\ timer'[r] = EffectiveLease(r) /\ due'[r] = due[r]
  BY <1>0 DEF RequestStep, Acquire, Admit, Finish, ClockUnhealthy,
         SampleBodyTimeout, SubscribePublicationPending, WakeBodyWait, BodyFrame,
         BodyTimeout, RetainRead, StartRepair, EndRepair, EndRead, Shorten, Release,
         TypeOK, NotifiedInv
<1>4. pc[r] = "shortened" => pc'[r] # "shortened" /\ pc'[r] # "body"
  BY <1>0 DEF RequestStep, Acquire, Admit, Finish, ClockUnhealthy,
         SampleBodyTimeout, SubscribePublicationPending, WakeBodyWait, BodyFrame,
         BodyTimeout, RetainRead, StartRepair, EndRepair, EndRead, Shorten, Release,
         TypeOK, NotifiedInv
<1>5. pc'[r] = "body" => transition = "Open"
  BY <1>0 DEF RequestStep, Acquire, Admit, Finish, ClockUnhealthy,
         SampleBodyTimeout, SubscribePublicationPending, WakeBodyWait, BodyFrame,
         BodyTimeout, RetainRead, StartRepair, EndRepair, EndRead, Shorten, Release,
         TypeOK, NotifiedInv
<1>6. pc'[r] = "shortened" => transition' = "Draining" /\ timer'[r] <= due'[r]
  <2> SUFFICES ASSUME pc'[r] = "shortened"
               PROVE  transition' = "Draining" /\ timer'[r] <= due'[r]
    OBVIOUS
  <2>1. /\ pc[r] \in {"sampled", "body"} /\ transition # "Open"
        /\ timer'[r] = EffectiveLease(r) /\ due'[r] = due[r]
    BY <1>3, <1>4
  <2>2. transition # "Publishing"
    BY <1>0, <2>1 DEF GateInv, Holders, HasPermit, HasAdmission
  <2>3. due[r] \in Nat /\ left[cluster[r]] \in Nat
    <3>1. cluster[r] \in Clusters
      BY <1>0, <2>1 DEF HeldGenerationInstalled, HasAdmission, TypeOK
    <3> QED
      BY <1>0, <3>1, LeftsClosed DEF TypeOK
  <2>4. timer'[r] <= due'[r]
    BY <2>1, <2>3 DEF EffectiveLease, Shorter
  <2> QED
    BY <1>0, <1>1, <2>1, <2>2, <2>4 DEF TypeOK
<1> QED
  BY <1>1, <1>2, <1>5, <1>6, WaitKept DEF WaitInv

\* The worker moves the gate: closing it wakes every wait that has subscribed,
\* and opens it again when no wait is left.
LEMMA WorkerStepWaits ==
    ASSUME Inv, Inv', WaitInv, WorkerStep
    PROVE  WaitInv'
<1> USE DEF mapVars, issuerVars, workerVars, requestVars
<1>0. TypeOK /\ GateInv
  BY DEF Inv, PermitInv
<1>1. UNCHANGED <<pc, due, timer>>
  BY DEF WorkerStep, FetchStatus, Renew, BeginPublication, Drained, FetchMap,
         BeginReplacement, Install, ExpireSameEpochGenerations
<1>2. CASE BeginPublication
  BY <1>1, <1>2 DEF BeginPublication, WaitInv
<1>3. CASE Holders = {}
  BY <1>1, <1>3 DEF WaitInv, Holders, HasPermit, HasAdmission
<1>4. CASE Drained
  <2>1. CountInv /\ active = 0 /\ IsFiniteSet(Holders)
    BY <1>4, RequestsAssumption, FS_Subset DEF Drained, Inv, PermitInv, Holders
  <2>2. Holders = {}
    BY <2>1, FS_EmptySet DEF CountInv
  <2> QED
    BY <1>3, <2>2
<1>5. CASE UNCHANGED <<transition, notified>>
  BY <1>1, <1>5 DEF WaitInv
<1>6. CASE worker \in {"fetch", "check", "install"}
  BY <1>0, <1>3, <1>6 DEF GateInv
<1> QED
  BY <1>2, <1>4, <1>5, <1>6 DEF WorkerStep, FetchStatus, Renew, FetchMap,
         BeginReplacement, Install, ExpireSameEpochGenerations

\* Time counts the timeout of a wait and the deadline of its admission down
\* together.
LEMMA EnvironmentWaits ==
    ASSUME Inv, WaitInv, Tick \/ AuthorityChanges \/ UNCHANGED vars
    PROVE  WaitInv'
<1> USE DEF mapVars, issuerVars, workerVars, requestVars
<1>1. CASE Tick
  <2>1. UNCHANGED <<pc, transition, notified>>
    BY <1>1 DEF Tick
  <2>2. ASSUME NEW r \in Requests, timer[r] <= due[r]
        PROVE  timer'[r] <= due'[r]
    <3>1. timer[r] \in Nat /\ due[r] \in Nat
      BY LeftsClosed DEF Inv, TypeOK
    <3>2. timer'[r] = Less(timer[r]) /\ due'[r] = Less(due[r])
      BY <1>1 DEF Tick
    <3> QED
      BY <2>2, <3>1, <3>2, LessMonotone
  <2> QED
    BY <2>1, <2>2 DEF WaitInv
<1>2. CASE AuthorityChanges \/ UNCHANGED vars
  BY <1>2 DEF AuthorityChanges, vars, WaitInv
<1> QED
  BY <1>1, <1>2

\* While a publication is pending no wait for a body frame outlasts the deadline
\* its request was admitted with, unless its wake-up is on the way, although the
\* timeout it sampled may come from a renewed lease.
THEOREM BodyWaitFrozenCorrect == Spec => []BodyWaitFrozen
<1>1. Init => WaitInv
  BY DEF Init, WaitInv
<1>2. ASSUME Inv, Inv', WaitInv, [Next]_vars PROVE WaitInv'
  BY <1>2, RequestStepWaits, WorkerStepWaits, EnvironmentWaits DEF Next
<1>3. WaitInv => BodyWaitFrozen
  BY DEF WaitInv, BodyWaitFrozen
<1> QED
  BY <1>1, <1>2, <1>3, InvCorrect, PTL DEF Spec

=============================================================================
