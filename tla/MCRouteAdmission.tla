-------------------------- MODULE MCRouteAdmission --------------------------
(* Instances of RouteAdmission for TLC. *)
EXTENDS RouteAdmission, TLC

\* Requests and objects are interchangeable.
Symmetry == Permutations(Requests) \cup Permutations(Clusters)

\* What the rest of a behaviour depends on: nothing reads an object that
\* nothing holds.
OfHeld(f) == [c \in Held \ {NoCluster} |-> f[c]]
View == <<authority, installed, OfHeld(content), OfHeld(left), listed \cap Held,
          active, transition, issuerVars, workerVars, requestVars, granted>>

=============================================================================
