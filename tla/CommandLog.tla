----------------------------- MODULE CommandLog -----------------------------
(***************************************************************************)
(* What a placement group's metadata command stream promises: one sequence *)
(* of decided entries, which every node of the acting set copies in order. *)
(*                                                                         *)
(* An entry is a command's payload together with how the command ended:    *)
(* applied, or abandoned by a tombstone that occupies its index.  A payload *)
(* is applied at no more than one index, however often it is reissued.     *)
(***************************************************************************)
EXTENDS Naturals, Sequences

CONSTANTS Nodes,     \* the acting set
          Payloads   \* the mutations that clients ask for

VARIABLES decided,   \* the entries of the stream, in order
          log        \* the entries each node has recorded

vars == <<decided, log>>

Entries == [payload : Payloads, abandoned : BOOLEAN]

\* Entry e may follow the decided ones.
MayFollow(e) ==
    e.abandoned \/ \A i \in 1..Len(decided) : decided[i] # e

Init == decided = <<>> /\ log = [n \in Nodes |-> <<>>]

\* An entry is decided before any node has recorded it.
Decide == \E e \in Entries :
    /\ MayFollow(e)
    /\ decided' = Append(decided, e)
    /\ UNCHANGED log

\* An entry is decided by recording it on one node that has all the others.
DecideAt(n) == \E e \in Entries :
    /\ MayFollow(e)
    /\ log[n] = decided
    /\ decided' = Append(decided, e)
    /\ log' = [log EXCEPT ![n] = Append(@, e)]

\* A node records the next decided entry.
Learn(n) ==
    /\ Len(log[n]) < Len(decided)
    /\ log' = [log EXCEPT ![n] = Append(@, decided[Len(@) + 1])]
    /\ UNCHANGED decided

Next == Decide \/ \E n \in Nodes : DecideAt(n) \/ Learn(n)

Spec == Init /\ [][Next]_vars

=============================================================================
