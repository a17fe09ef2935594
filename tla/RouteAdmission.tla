--------------------------- MODULE RouteAdmission ---------------------------
(***************************************************************************)
(* Route-map generations of an S3 frontend: admission, renewal,            *)
(* publication.                                                            *)
(*                                                                         *)
(* A frontend process serves requests through an installed StorageCluster  *)
(* built from a control-plane runtime map that is valid for a bounded      *)
(* time.  Each request holds an admission permit on the generation it      *)
(* captured.  One refresh worker renews the lease in place while the       *)
(* control plane still reports the same map; otherwise it closes           *)
(* admission, drains the permits, fetches the new map and installs it.     *)
(*                                                                         *)
(* Source: crates/storage/src/cluster/route_admission.rs (the gate and     *)
(* the admission), cluster/runtime_map.rs (the worker), cluster/local.rs   *)
(* (the lease of a generation), pg_store/allocation_lifetime.rs (the       *)
(* embedded stores' issuers), cluster/shard_maintenance.rs (repair by a    *)
(* retained read) and crates/server-http/src/http/serve.rs (the wait for   *)
(* a request body frame).                                                  *)
(*                                                                         *)
(* Time.  A deadline is modelled by the time left until it, which Tick     *)
(* counts down in all of them at once; an expired lease has 0 left.        *)
(* StorageCluster objects are a pool of identities: Arc::ptr_eq is         *)
(* equality of identities, and an object nothing holds may be reused for   *)
(* a new one.                                                              *)
(***************************************************************************)
EXTENDS Integers, FiniteSets

CONSTANTS Requests,   \* frontend requests
          Clusters,   \* StorageCluster objects
          NoCluster,  \* no object
          Digests,    \* (content digest, authority incarnation) of a map
          Grants,     \* times left that a received status or map can have
          MaxEpoch    \* bound on the cluster epoch

ASSUME RequestsAssumption == IsFiniteSet(Requests)
ASSUME DigestsAssumption == Digests # {}
ASSUME GrantsAssumption == Grants \subseteq Nat
ASSUME EpochAssumption == MaxEpoch \in Nat \ {0}
ASSUME ClustersAssumption == NoCluster \notin Clusters

Contents == [epoch : 1..MaxEpoch, digest : Digests]
Lefts == {t \in Nat : t = 0 \/ \E g \in Grants : t <= g}

VARIABLES
    authority,   \* the map the control plane publishes at this moment
    granted,     \* time left of the longest lease granted for each map
    installed,   \* StorageClusterRouteHandle.cluster
    content,     \* epoch and digest of each object
    left,        \* time left of each object's route_map_lease
    listed,      \* same_epoch_generations
    active,      \* active_requests
    transition,  \* state of the admission gate
    replacing,   \* allocation_lifetime_replacement_pending
    issuers,     \* allocation lifetimes of the installed map's stores
    worker,      \* where the refresh worker is
    status,      \* the runtime-map status it received
    candidate,   \* the object it has built
    pc,          \* where each request is
    cluster,     \* the object each request has captured
    due,         \* time left of the lease it captured
    timer,       \* time left of its wait for a body frame
    notified,    \* waits woken by publication_pending
    fresh        \* repair fences of the current publication_generation

mapVars == <<installed, content, left, listed>>
issuerVars == <<replacing, issuers>>
workerVars == <<worker, status, candidate>>
requestVars == <<pc, cluster, due, timer, notified, fresh>>
vars == <<authority, granted, mapVars, active, transition, issuerVars,
          workerVars, requestVars>>

Less(t) == IF t = 0 THEN 0 ELSE t - 1
Shorter(s, t) == IF s < t THEN s ELSE t
Longer(s, t) == IF s < t THEN t ELSE s

-----------------------------------------------------------------------------
\* A request in one of these states owns a StorageClusterRouteAdmissionPermit.
HasAdmission == {"admitted", "sampled", "body", "shortened"}
HasPermit == HasAdmission \cup {"permit", "repairing"}

\* StorageClusterRouteAdmissionGate::effective_lease
EffectiveLease(r) ==
    IF transition = "Open" THEN left[cluster[r]]
                           ELSE Shorter(due[r], left[cluster[r]])

\* StorageClusterRouteAdmission::require_valid_now
RequireValidNow(r) == EffectiveLease(r) > 0

\* Objects some Arc still holds.
Held == {installed, candidate} \cup {cluster[r] : r \in Requests}

\* Dropping the permit, and the captured Arc with it.
Release(r) ==
    /\ active' = active - 1
    /\ pc' = [pc EXCEPT ![r] = "idle"]
    /\ cluster' = [cluster EXCEPT ![r] = NoCluster]
    /\ due' = [due EXCEPT ![r] = 0]
    /\ timer' = [timer EXCEPT ![r] = 0]
    /\ notified' = notified \ {r}
    /\ UNCHANGED fresh

-----------------------------------------------------------------------------
(* Requests. *)

\* StorageClusterRouteAdmissionGate::acquire
Acquire(r) ==
    /\ transition = "Open"
    /\ pc[r] = "idle"
    /\ active' = active + 1
    /\ pc' = [pc EXCEPT ![r] = "permit"]
    /\ UNCHANGED <<authority, granted, mapVars, transition, issuerVars, workerVars,
                   cluster, due, timer, notified, fresh>>

\* Variant: a rejected admission leaks its permit.
AdmitLeakingPermit(r) ==
    /\ pc[r] = "permit"
    /\ IF left[installed] > 0
         THEN /\ pc' = [pc EXCEPT ![r] = "admitted"]
              /\ cluster' = [cluster EXCEPT ![r] = installed]
              /\ due' = [due EXCEPT ![r] = left[installed]]
         ELSE pc' = [pc EXCEPT ![r] = "idle"] /\ UNCHANGED <<cluster, due>>
    /\ UNCHANGED <<authority, granted, mapVars, transition, issuerVars, workerVars,
                   active, timer, notified, fresh>>

\* admit_current_route after acquire: capture the installed generation and
\* its lease, and reject an admission that is already invalid.
Admit(r) ==
    /\ pc[r] = "permit"
    /\ \/ /\ left[installed] > 0
          /\ pc' = [pc EXCEPT ![r] = "admitted"]
          /\ cluster' = [cluster EXCEPT ![r] = installed]
          /\ due' = [due EXCEPT ![r] = left[installed]]
          /\ UNCHANGED <<active, timer, notified, fresh>>
       \/ left[installed] = 0 /\ Release(r)
    /\ UNCHANGED <<authority, granted, mapVars, transition, issuerVars, workerVars>>

\* A request ends, or its next check of the admission fails.
Finish(r) ==
    /\ pc[r] = "admitted"
    /\ Release(r)
    /\ UNCHANGED <<authority, granted, mapVars, transition, issuerVars, workerVars>>

\* A check of the admission finds the process clock unhealthy:
\* route_map_lease_snapshot_is_valid_at expires the generation.
ClockUnhealthy(r) ==
    /\ pc[r] = "admitted"
    /\ left' = [left EXCEPT ![cluster[r]] = 0]
    /\ Release(r)
    /\ UNCHANGED <<authority, granted, installed, content, listed, transition,
                   issuerVars, workerVars>>

\* wait_for_route_bounded_body_frame: the wait's timeout is the time left of the
\* effective lease when it is sampled.
SampleBodyTimeout(r) ==
    /\ pc[r] = "admitted"
    /\ RequireValidNow(r)
    /\ pc' = [pc EXCEPT ![r] = "sampled"]
    /\ timer' = [timer EXCEPT ![r] = EffectiveLease(r)]
    /\ UNCHANGED <<authority, granted, mapVars, active, transition, issuerVars,
                   workerVars, cluster, due, notified, fresh>>

\* The wait is shortened to what is left now, or ends the request.
Shorten(r) ==
    \/ /\ RequireValidNow(r)
       /\ pc' = [pc EXCEPT ![r] = "shortened"]
       /\ timer' = [timer EXCEPT ![r] = EffectiveLease(r)]
       /\ notified' = notified \ {r}
       /\ UNCHANGED <<active, cluster, due, fresh>>
    \/ ~RequireValidNow(r) /\ Release(r)

\* Variant: subscribes without inspecting the gate.
SubscribeWithoutInspecting(r) ==
    /\ pc[r] = "sampled"
    /\ pc' = [pc EXCEPT ![r] = "body"]
    /\ UNCHANGED <<active, cluster, due, timer, notified, fresh>>
    /\ UNCHANGED <<authority, granted, mapVars, transition, issuerVars, workerVars>>

\* First poll of wait_for_route_publication_pending: subscribe, then inspect
\* the gate.
SubscribePublicationPending(r) ==
    /\ pc[r] = "sampled"
    /\ \/ /\ transition = "Open"
          /\ pc' = [pc EXCEPT ![r] = "body"]
          /\ UNCHANGED <<active, cluster, due, timer, notified, fresh>>
       \/ transition # "Open" /\ Shorten(r)
    /\ UNCHANGED <<authority, granted, mapVars, transition, issuerVars, workerVars>>

\* The publication_pending branch of the wait.
WakeBodyWait(r) ==
    /\ r \in notified
    /\ transition # "Open"
    /\ Shorten(r)
    /\ UNCHANGED <<authority, granted, mapVars, transition, issuerVars, workerVars>>

\* A body frame arrives before the timeout.
BodyFrame(r) ==
    /\ pc[r] \in {"body", "shortened"}
    /\ pc' = [pc EXCEPT ![r] = "admitted"]
    /\ timer' = [timer EXCEPT ![r] = 0]
    /\ notified' = notified \ {r}
    /\ UNCHANGED <<authority, granted, mapVars, active, transition, issuerVars,
                   workerVars, cluster, due, fresh>>

\* The wait ends without a frame.  (A shorter idle timeout ends it like a
\* frame that makes the request finish.)
BodyTimeout(r) ==
    /\ pc[r] \in {"body", "shortened"}
    /\ timer[r] = 0
    /\ Release(r)
    /\ UNCHANGED <<authority, granted, mapVars, transition, issuerVars, workerVars>>

\* load_leased_object_read_snapshot_if: the read keeps the generation and a
\* repair fence, and gives the admission back.
RetainRead(r) ==
    /\ pc[r] = "admitted"
    /\ RequireValidNow(r)
    /\ active' = active - 1
    /\ pc' = [pc EXCEPT ![r] = "retained"]
    /\ due' = [due EXCEPT ![r] = EffectiveLease(r)]
    /\ fresh' = fresh \cup {r}
    /\ UNCHANGED <<authority, granted, mapVars, transition, issuerVars, workerVars,
                   cluster, timer, notified>>

\* acquire_for_publication_generation for the repair of what a retained read
\* reconstructed.
StartRepair(r) ==
    /\ pc[r] = "retained"
    /\ due[r] > 0
    /\ transition = "Open" /\ r \in fresh
    /\ active' = active + 1
    /\ pc' = [pc EXCEPT ![r] = "repairing"]
    /\ UNCHANGED <<authority, granted, mapVars, transition, issuerVars, workerVars,
                   cluster, due, timer, notified, fresh>>

\* The loop over repair_targets ends; the read goes on.
EndRepair(r) ==
    /\ pc[r] = "repairing"
    /\ active' = active - 1
    /\ pc' = [pc EXCEPT ![r] = "retained"]
    /\ UNCHANGED <<authority, granted, mapVars, transition, issuerVars, workerVars,
                   cluster, due, timer, notified, fresh>>

\* Variant: a retained read gives its permit back a second time.
EndReadReleasingAgain(r) ==
    /\ pc[r] = "retained"
    /\ active' = active - 1
    /\ pc' = [pc EXCEPT ![r] = "idle"]
    /\ cluster' = [cluster EXCEPT ![r] = NoCluster]
    /\ due' = [due EXCEPT ![r] = 0]
    /\ fresh' = fresh \ {r}
    /\ UNCHANGED <<authority, granted, mapVars, transition, issuerVars,
                   workerVars, timer, notified>>

\* The retained read's snapshot is dropped.
EndRead(r) ==
    /\ pc[r] = "retained"
    /\ pc' = [pc EXCEPT ![r] = "idle"]
    /\ cluster' = [cluster EXCEPT ![r] = NoCluster]
    /\ due' = [due EXCEPT ![r] = 0]
    /\ fresh' = fresh \ {r}
    /\ UNCHANGED <<authority, granted, mapVars, active, transition, issuerVars,
                   workerVars, timer, notified>>

-----------------------------------------------------------------------------
(* The control plane, and time. *)

\* The control plane publishes another map: in a new epoch, or in the same
\* one under another digest or authority incarnation.
AuthorityChanges ==
    /\ \E c \in Contents :
          /\ c.epoch \in {authority.epoch, authority.epoch + 1}
          /\ c # authority
          /\ authority' = c
    /\ UNCHANGED <<granted, mapVars, active, transition, issuerVars, workerVars,
                   requestVars>>

\* Maps a runtime-map source may answer with: the published one or, from an
\* endpoint that has not caught up, one of an older epoch.
Answers == {authority} \cup {c \in Contents : c.epoch < authority.epoch}

\* One unit of monotonic time.
Tick ==
    /\ granted' = [c \in Contents |-> Less(granted[c])]
    /\ left' = [c \in Clusters |-> Less(left[c])]
    /\ due' = [r \in Requests |-> Less(due[r])]
    /\ timer' = [r \in Requests |-> Less(timer[r])]
    /\ status' = [status EXCEPT !.left = Less(@)]
    /\ UNCHANGED <<authority, installed, content, listed, active, transition,
                   issuerVars, worker, candidate, pc, cluster, notified, fresh>>

-----------------------------------------------------------------------------
(* The refresh worker. *)

Grant(c, g) == granted' = [granted EXCEPT ![c] = Longer(@, g)]

NoStatus == [content |-> CHOOSE c \in Contents : TRUE, left |-> 0]

\* runtime_map_status answers, fails, or fails with
\* PgPeeringPendingMetadataCommand; a status need not carry a renewal.
FetchStatus ==
    /\ worker = "idle"
    /\ \/ \E c \in Answers, g \in Grants :
            /\ Grant(c, g)
            /\ status' = [content |-> c, left |-> g]
            /\ worker' = "status"
       \/ worker' \in {"publish", "expire"} /\ UNCHANGED <<granted, status>>
    /\ UNCHANGED <<authority, mapVars, active, transition, issuerVars, candidate,
                   requestVars>>

\* Variant: renews although a failed replacement is to be repeated.
MayRenewAfterFailure == status.content = content[installed]

\* The conditions of renew_from_runtime_map_status for a renewal in place.
MayRenew == ~replacing /\ status.content = content[installed]

\* Variant: every listed generation of the epoch is renewed.
RenewedEpoch(c) == content[c].epoch = status.content.epoch

\* Generations that generations.retain renews.
Renewed(c) == content[c] = status.content

\* renew_from_runtime_map_status: renew in place, or fall back to a
\* publication.  An expired renewal does not bind and is an error.
Renew ==
    /\ worker = "status"
    /\ \/ /\ MayRenew /\ status.left > 0
          /\ left' = [c \in Clusters |-> IF c \in listed /\ Renewed(c)
                                           THEN status.left ELSE left[c]]
          /\ listed' = listed \cap Held
          /\ worker' = "idle"
       \/ /\ MayRenew /\ status.left = 0
          /\ worker' = "idle"
          /\ UNCHANGED <<left, listed>>
       \/ /\ ~MayRenew
          /\ worker' = "publish"
          /\ UNCHANGED <<left, listed>>
    /\ status' = NoStatus
    /\ UNCHANGED <<authority, granted, installed, content, active, transition,
                   issuerVars, candidate, requestVars>>

\* begin_publication: close admission and wake the subscribed waits.
BeginPublication ==
    /\ worker = "publish"
    /\ transition = "Open"
    /\ transition' = "Draining"
    /\ notified' = {r \in Requests : pc[r] = "body"}
    /\ worker' = "draining"
    /\ UNCHANGED <<authority, granted, mapVars, active, issuerVars, status, candidate,
                   pc, cluster, due, timer, fresh>>

\* begin_publication after the last permit is dropped.
Drained ==
    /\ worker = "draining"
    /\ active = 0
    /\ transition' = "Publishing"
    /\ worker' = "fetch"
    /\ UNCHANGED <<authority, granted, mapVars, active, issuerVars, status, candidate,
                   requestVars>>

\* Variant: publication_generation is not advanced.
EndPublicationSameGeneration == transition' = "Open" /\ UNCHANGED fresh

\* Drop of StorageClusterRoutePublicationGuard.
EndPublication == transition' = "Open" /\ fresh' = {}

\* runtime_map_snapshot answers and a candidate is built from it, or the
\* fetch fails and the guard is dropped.
FetchMap ==
    /\ worker = "fetch"
    /\ \/ \E a \in Answers, g \in Grants, c \in Clusters \ Held :
            /\ Grant(a, g)
            /\ candidate' = c
            /\ content' = [content EXCEPT ![c] = a]
            /\ left' = [left EXCEPT ![c] = g]
            /\ listed' = listed \ {c}
            /\ worker' = "check"
            /\ UNCHANGED <<transition, fresh>>
       \/ /\ worker' \in {"idle", "expire"}
          /\ EndPublication
          /\ UNCHANGED <<granted, candidate, content, left, listed>>
    /\ UNCHANGED <<authority, installed, active, issuerVars, status,
                   pc, cluster, due, timer, notified>>

\* The refresh ends: the candidate and the publication guard are dropped.
EndRefresh ==
    /\ worker' = "idle"
    /\ candidate' = NoCluster
    /\ EndPublication

\* Variant: an older epoch may be installed.
AcceptableIfValid == left[candidate] > 0

\* The checks of install_during_publication before issuers are touched.
Acceptable ==
    /\ content[candidate].epoch >= content[installed].epoch
    /\ left[candidate] > 0

\* Variant: a failed replacement is not repeated for an unchanged epoch.
MustReplaceNewEpoch == content[candidate].epoch # content[installed].epoch

\* with_replaced_allocation_lifetimes replaces every issuer after a failed
\* replacement or in a new epoch, and those of the changed placement groups
\* when only the digest differs.
MustReplace == replacing \/ content[candidate].epoch # content[installed].epoch

MayReplace == MustReplace \/ content[candidate] # content[installed]

\* install_during_publication up to the publish closure: note that a
\* replacement is under way, then take the issuers it concerns out of use.
BeginReplacement ==
    /\ worker = "check"
    /\ \/ ~Acceptable /\ EndRefresh /\ UNCHANGED issuerVars
       \/ /\ Acceptable
          /\ replacing' = TRUE
          /\ \/ MayReplace /\ issuers' = "replacing"
             \/ ~MustReplace /\ UNCHANGED issuers
          /\ worker' = "install"
          /\ UNCHANGED <<candidate, transition, fresh>>
    /\ UNCHANGED <<authority, granted, mapVars, active, status,
                   pc, cluster, due, timer, notified>>

\* Variant: the list is cleared and the candidate left out.
ListedWithoutCandidate ==
    IF content[candidate].epoch = content[installed].epoch
      THEN {c \in listed \cap Held : content[c].epoch = content[candidate].epoch}
      ELSE {}

\* same_epoch_generations after the candidate is published.
ListedAfterInstall ==
    IF content[candidate].epoch = content[installed].epoch
      THEN {c \in listed \cap Held : content[c].epoch = content[candidate].epoch}
             \cup {candidate}
      ELSE {candidate}

\* The publish closure: install the candidate and extend the retained
\* generations of the same map.  It fails when the candidate has expired
\* while the PG locks were taken, and is not reached when a store is missing
\* or has no fresh identity; issuers then stay retired.
Install ==
    /\ worker = "install"
    /\ \/ /\ left[candidate] > 0
          /\ left' = [c \in Clusters |->
                        IF /\ c \in listed
                           /\ content[c] = content[candidate]
                           /\ content[candidate].epoch = content[installed].epoch
                          THEN left[candidate] ELSE left[c]]
          /\ listed' = ListedAfterInstall
          /\ installed' = candidate
          /\ replacing' = FALSE
          /\ issuers' = IF issuers = "replacing" THEN "active" ELSE issuers
       \/ /\ issuers' = IF issuers = "replacing" THEN "retired" ELSE issuers
          /\ UNCHANGED <<left, listed, installed, replacing>>
    /\ EndRefresh
    /\ UNCHANGED <<authority, granted, content, active, status,
                   pc, cluster, due, timer, notified>>

\* expire_same_epoch_generations, after a PgPeeringPendingMetadataCommand.
ExpireSameEpochGenerations ==
    /\ worker = "expire"
    /\ listed' = {c \in listed \cap Held : content[c].epoch = content[installed].epoch}
    /\ left' = [c \in Clusters |-> IF c \in listed' THEN 0 ELSE left[c]]
    /\ worker' = "idle"
    /\ UNCHANGED <<authority, granted, installed, content, active, transition,
                   issuerVars, status, candidate, requestVars>>

-----------------------------------------------------------------------------
Init ==
    \E c \in Contents, g \in Grants, i \in Clusters :
        /\ authority = c
        /\ granted = [d \in Contents |-> IF d = c THEN g ELSE 0]
        /\ installed = i
        /\ content = [j \in Clusters |-> c]
        /\ left = [j \in Clusters |-> IF j = i THEN g ELSE 0]
        /\ listed = {i}
        /\ active = 0
        /\ transition = "Open"
        /\ replacing = FALSE
        /\ issuers = "active"
        /\ worker = "idle"
        /\ status = NoStatus
        /\ candidate = NoCluster
        /\ pc = [r \in Requests |-> "idle"]
        /\ cluster = [r \in Requests |-> NoCluster]
        /\ due = [r \in Requests |-> 0]
        /\ timer = [r \in Requests |-> 0]
        /\ notified = {}
        /\ fresh = {}

WorkerStep ==
    \/ FetchStatus \/ Renew \/ BeginPublication \/ Drained \/ FetchMap
    \/ BeginReplacement \/ Install \/ ExpireSameEpochGenerations

RequestStep(r) ==
    \/ Acquire(r) \/ Admit(r) \/ Finish(r) \/ ClockUnhealthy(r)
    \/ SampleBodyTimeout(r) \/ SubscribePublicationPending(r) \/ WakeBodyWait(r)
    \/ BodyFrame(r) \/ BodyTimeout(r)
    \/ RetainRead(r) \/ StartRepair(r) \/ EndRepair(r) \/ EndRead(r)

Next == AuthorityChanges \/ Tick \/ WorkerStep \/ \E r \in Requests : RequestStep(r)

Spec == Init /\ [][Next]_vars

\* A request whose admission has become invalid fails its next check and ends.
FinishInvalid(r) == Finish(r) /\ ~RequireValidNow(r)

\* Time passes, the worker thread runs, and a request does the bounded work it
\* has started; nothing obliges a request with a valid admission to end.
FairSpec ==
    /\ Spec
    /\ WF_vars(Tick)
    /\ WF_vars(WorkerStep)
    /\ \A r \in Requests :
          /\ WF_vars(Admit(r))
          /\ WF_vars(FinishInvalid(r))
          /\ WF_vars(SubscribePublicationPending(r) \/ WakeBodyWait(r))
          /\ WF_vars(BodyTimeout(r))
          /\ WF_vars(EndRepair(r))

-----------------------------------------------------------------------------
(* Properties. *)

\* Type invariant.
TypeOK ==
    /\ authority \in Contents
    /\ granted \in [Contents -> Lefts]
    /\ installed \in Clusters
    /\ content \in [Clusters -> Contents]
    /\ left \in [Clusters -> Lefts]
    /\ listed \subseteq Clusters
    /\ active \in Nat
    /\ transition \in {"Open", "Draining", "Publishing"}
    /\ replacing \in BOOLEAN
    /\ issuers \in {"active", "replacing", "retired"}
    /\ worker \in {"idle", "status", "publish", "draining", "fetch", "check",
                   "install", "expire"}
    /\ status \in [content : Contents, left : Lefts]
    /\ candidate \in Clusters \cup {NoCluster}
    /\ pc \in [Requests -> HasPermit \cup {"idle", "retained"}]
    /\ cluster \in [Requests -> Clusters \cup {NoCluster}]
    /\ due \in [Requests -> Lefts]
    /\ timer \in [Requests -> Lefts]
    /\ notified \subseteq Requests
    /\ fresh \subseteq Requests

\* Everything that owns a permit works on the generation that is installed:
\* neither an admitted request nor the repair of a retained read runs against
\* a map that a publication has replaced.
HeldGenerationInstalled ==
    \A r \in Requests :
        pc[r] \in HasAdmission \cup {"repairing"} => cluster[r] = installed

\* A generation that a request, a retained read or the handle still uses is
\* valid no longer than the control plane granted for its own map (epoch,
\* digest, authority incarnation): a renewal or a publication never lends it
\* the lease of another map.
LeaseWithinGrant ==
    \A c \in Held \ {NoCluster} : left[c] <= granted[content[c]]

\* The installed generation is one that a lease renewal reaches and that an
\* invalidation expires: otherwise renewal would report success and the
\* frontend would still stop serving.
InstalledIsListed == installed \in listed

\* While issuers of the stores are out of use the handle remembers that a
\* replacement has to be repeated, so the next refresh fetches a full map and
\* revives them instead of renewing in place.
RetirementRemembered == issuers # "active" => replacing

\* Published generations never go back to an older epoch, and a generation is
\* still valid at the moment it is installed.
InstalledMovesForward ==
    [][installed' # installed =>
         /\ content'[installed'].epoch >= content[installed].epoch
         /\ left'[installed'] > 0]_vars

\* A map whose issuers are retired is not kept alive by renewals.
RetiredNotRenewed ==
    [][issuers = "retired" /\ installed' = installed
         => left'[installed] <= left[installed]]_vars

\* While a publication is pending, a wait for a body frame that no wake-up is
\* on its way to ends by the deadline the request was admitted with, although
\* it may have sampled a renewed deadline just before the publication began.
BodyWaitFrozen ==
    transition # "Open" =>
        \A r \in Requests :
            pc[r] = "shortened" \/ (pc[r] = "body" /\ r \notin notified)
              => timer[r] <= due[r]

\* Every publication ends and opens admission again, however long requests
\* would like to keep their admission.
PublicationEnds == transition # "Open" ~> transition = "Open"

=============================================================================
