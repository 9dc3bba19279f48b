------------------------------ MODULE AdminFloor ------------------------------
(***************************************************************************)
(* The rule that the tracker is never without an active administrator:     *)
(* accounts are created, promoted, demoted, disabled and re-enabled by     *)
(* administrators, UpdateUser refuses to take the last active one, and a   *)
(* restart needs one to come up.                                           *)
(*                                                                         *)
(* UpdateUser is a transaction under READ COMMITTED.  It locks the row of  *)
(* its own account, counts the committed rows of the others without        *)
(* locking them, and writes at the end; each of these is a step here.  The *)
(* caller's role is read when the request arrives and used until it ends.  *)
(* A row lock is held from the step after "lock" to the end.               *)
(***************************************************************************)
CONSTANTS
  Users,     \* account ids
  NoRow,     \* "this id is not in the table"
  Txs        \* UpdateUser requests in flight at once

VARIABLES
  users,     \* table users: role and disabled_at
  server,    \* is the process running?
  tx         \* per request, its progress

vars == <<users, server, tx>>

Roles == {"admin", "user"}
UserRow == [role : Roles, disabled : BOOLEAN]

ASSUME NoRowAssumption == NoRow \notin UserRow

Idle == [step |-> "idle"]
Request ==
  [step : {"lock", "check", "write"}, target : Users, role : Roles, disabled : BOOLEAN]

-----------------------------------------------------------------------------
(* Helpers *)

Exists(u) == users[u] # NoRow

IsActiveAdmin(row) == row.role = "admin" /\ ~row.disabled
ActiveAdmin(u) == Exists(u) /\ IsActiveAdmin(users[u])

\* Somebody is inside the transaction that locked this account's row.
Locked(u) == \E x \in Txs : tx[x] # Idle /\ tx[x].step # "lock" /\ tx[x].target = u

\* The request takes an active admin away.
Removes(t) == ActiveAdmin(tx[t].target) /\ ~IsActiveAdmin(tx[t])

AnyActiveAdmin(excluded) == \E u \in Users : ActiveAdmin(u)          \* mutant

\* assertOtherActiveAdminExists: a plain read of the committed rows.
OtherActiveAdmin(excluded) == \E u \in Users \ {excluded} : ActiveAdmin(u)

End(t) == tx' = [tx EXCEPT ![t] = Idle]

-----------------------------------------------------------------------------
(* Administration *)

CreateUser(actor, u, role) ==
  /\ server = "up" /\ ActiveAdmin(actor)
  /\ ~Exists(u)
  /\ users' = [users EXCEPT ![u] = [role |-> role, disabled |-> FALSE]]
  /\ UNCHANGED <<server, tx>>

\* The handler: an admin asks to change an account, but not to disable itself.
RequestUpdate(t, actor, u, role, disabled) ==
  /\ server = "up" /\ tx[t] = Idle
  /\ ActiveAdmin(actor) /\ Exists(u)
  /\ ~(u = actor /\ disabled)
  /\ tx' = [tx EXCEPT ![t] = [step |-> "lock", target |-> u, role |-> role,
                              disabled |-> disabled]]
  /\ UNCHANGED <<users, server>>

\* SELECT ... FOR UPDATE, which decides whether the floor has to be checked.
LockRow(t) ==
  /\ tx[t] # Idle /\ tx[t].step = "lock" /\ ~Locked(tx[t].target)
  /\ tx' = [tx EXCEPT ![t].step = IF Removes(t) THEN "check" ELSE "write"]
  /\ UNCHANGED <<users, server>>

CheckFloor(t) ==
  /\ tx[t] # Idle /\ tx[t].step = "check"
  /\ OtherActiveAdmin(tx[t].target)
  /\ tx' = [tx EXCEPT ![t].step = "write"]
  /\ UNCHANGED <<users, server>>

RefuseLastAdmin(t) ==
  /\ tx[t] # Idle /\ tx[t].step = "check"
  /\ ~OtherActiveAdmin(tx[t].target)
  /\ End(t)
  /\ UNCHANGED <<users, server>>

\* UPDATE and COMMIT.
Write(t) ==
  /\ tx[t] # Idle /\ tx[t].step = "write"
  /\ users' = [users EXCEPT ![tx[t].target] =
                 [role |-> tx[t].role, disabled |-> tx[t].disabled]]
  /\ End(t)
  /\ UNCHANGED server

\* A statement fails: the deferred Rollback.
Fail(t) ==
  /\ tx[t] # Idle
  /\ End(t)
  /\ UNCHANGED <<users, server>>

-----------------------------------------------------------------------------
(* The process *)

StartupWithoutBootstrap(u) ==                                         \* mutant
  /\ server = "down"
  /\ ActiveAdmin(u)
  /\ server' = "up"
  /\ UNCHANGED <<users, tx>>

StartupWithoutRole(u) ==                                              \* mutant
  /\ server = "down"
  /\ \/ /\ \A v \in Users : ~Exists(v)
        /\ users' = [users EXCEPT ![u] = [role |-> "", disabled |-> FALSE]]
     \/ /\ ActiveAdmin(u)
        /\ UNCHANGED users
  /\ server' = "up"
  /\ UNCHANGED tx

\* Bootstrap creates the first account, or finds an active admin to act for;
\* without either the process exits again.
Startup(u) ==
  /\ server = "down"
  /\ \/ /\ \A v \in Users : ~Exists(v)
        /\ users' = [users EXCEPT ![u] = [role |-> "admin", disabled |-> FALSE]]
     \/ /\ ActiveAdmin(u)
        /\ UNCHANGED users
  /\ server' = "up"
  /\ UNCHANGED tx

\* The process dies; PostgreSQL rolls its transactions back.
Crash ==
  /\ server = "up"
  /\ server' = "down"
  /\ tx' = [t \in Txs |-> Idle]
  /\ UNCHANGED users

-----------------------------------------------------------------------------
(* Specification *)

Init ==
  /\ users = [u \in Users |-> NoRow]
  /\ server = "down"
  /\ tx = [t \in Txs |-> Idle]

UpdateStep(t) ==
  \/ \E actor, u \in Users, role \in Roles, disabled \in BOOLEAN :
       RequestUpdate(t, actor, u, role, disabled)
  \/ LockRow(t) \/ CheckFloor(t) \/ RefuseLastAdmin(t) \/ Write(t) \/ Fail(t)

Next ==
  \/ \E actor, u \in Users, role \in Roles : CreateUser(actor, u, role)
  \/ \E t \in Txs : UpdateStep(t)
  \/ \E u \in Users : Startup(u)
  \/ Crash

Spec == Init /\ [][Next]_vars

\* docker-compose restarts the process whenever it exits (restart policy).
FairSpec == Spec /\ WF_vars(\E u \in Users : Startup(u))

-----------------------------------------------------------------------------
(* Properties *)

\* The table and the requests are well-formed.
TypeOK ==
  /\ users \in [Users -> UserRow \cup {NoRow}]
  /\ server \in {"up", "down"}
  /\ tx \in [Txs -> Request \cup {Idle}]

\* Once there are accounts, one of them is an active admin: the tracker
\* "refuses to demote or disable the last active admin".
FloorHolds == (\E u \in Users : Exists(u)) => \E u \in Users : ActiveAdmin(u)

\* What FloorHolds rests on: a request that passed the check and is about to
\* take an active admin away leaves another one, which nobody took meanwhile.
IInv ==
  /\ TypeOK
  /\ FloorHolds
  /\ \A t \in Txs : tx[t] # Idle =>
       /\ Exists(tx[t].target)
       /\ tx[t].step = "write" /\ Removes(t) => OtherActiveAdmin(tx[t].target)

\* A process that went down comes back: start-up always finds the admin that
\* it has to act for.
ServiceComesBack == server = "down" ~> server = "up"
=============================================================================
