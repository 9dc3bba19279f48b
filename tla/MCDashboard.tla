----------------------------- MODULE MCDashboard -----------------------------
(* Dashboard on small instances for TLC: a person who does a few things. *)
EXTENDS Dashboard, TLC

CONSTANT MaxEvents     \* bound: clicks, reloads and ends of sessions in a run

VARIABLE events        \* how many there have been

user == [role |-> "user", frozen |-> FALSE]
admin == [role |-> "admin", frozen |-> FALSE]
newcomer == [role |-> "admin", frozen |-> TRUE]

AnyAccount == {user, admin, newcomer}

AllButtons == DOMAIN Handler

Event == Person \/ SessionEnds \/ Reload

BoundedInit == Init /\ events = 0

BoundedNext ==
  \/ Event /\ events < MaxEvents /\ events' = events + 1
  \/ (\E t \in Tasks : Step(t)) /\ UNCHANGED events

BoundedSpec == BoundedInit /\ [][BoundedNext]_<<vars, events>>

\* Handlers in flight and items have no names that matter.
Names == Permutations(Tasks) \cup Permutations(Items)
=============================================================================
