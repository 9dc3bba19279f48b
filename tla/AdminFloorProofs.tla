--------------------------- MODULE AdminFloorProofs ---------------------------
(***************************************************************************)
(* AdminFloor for any number of accounts and requests.  Types hold         *)
(* whatever runs concurrently; the floor holds as long as the requests in  *)
(* flight that leave no active admin are about one account, which the run  *)
(* of two overlapping changes shows to be necessary.                       *)
(***************************************************************************)
EXTENDS AdminFloor, TLAPS

\* A request leaves its account without the role, or disabled.
Takes(t) == tx[t] # Idle /\ ~IsActiveAdmin(tx[t])

\* Requests that do so may overlap each other only on one account.
OneAccount == \A s, t \in Txs : Takes(s) /\ Takes(t) => tx[s].target = tx[t].target

\* Account changes never overlap.
OneAtATime == \A t, x \in Txs : t = x

\* What SELECT ... FOR UPDATE is for: one request at a time is past it on an account.
HasLock(t) == tx[t] # Idle /\ tx[t].step # "lock"
RowLocks ==
  \A s, t \in Txs : HasLock(s) /\ HasLock(t) /\ tx[s].target = tx[t].target => s = t

LInv == IInv /\ RowLocks

\* A request in flight is not mistaken for an idle one.
LEMMA IdleIsNoRequest == Idle \notin Request
BY DEF Idle, Request

\* An absent account is not mistaken for a row.
LEMMA RowExists == ASSUME TypeOK, NEW u \in Users
                   PROVE  Exists(u) <=> users[u] \in UserRow
BY NoRowAssumption DEF TypeOK, Exists

-----------------------------------------------------------------------------
(* Types *)

LEMMA TypeStep == ASSUME TypeOK, [Next]_vars PROVE TypeOK'
<1> USE DEF TypeOK
<1>1. ASSUME NEW actor \in Users, NEW u \in Users, NEW role \in Roles,
             CreateUser(actor, u, role)
      PROVE  TypeOK'
  <2>1. [role |-> role, disabled |-> FALSE] \in UserRow BY DEF UserRow
  <2> QED BY <1>1, <2>1 DEF CreateUser
<1>2. ASSUME NEW t \in Txs, NEW actor \in Users, NEW u \in Users, NEW role \in Roles,
             NEW disabled \in BOOLEAN, RequestUpdate(t, actor, u, role, disabled)
      PROVE  TypeOK'
  <2>1. [step |-> "lock", target |-> u, role |-> role, disabled |-> disabled] \in Request
    BY DEF Request
  <2> QED BY <1>2, <2>1 DEF RequestUpdate
<1>3. ASSUME NEW t \in Txs, LockRow(t) PROVE TypeOK'
  <2>1. tx[t] \in Request BY <1>3 DEF LockRow
  <2>2. [tx[t] EXCEPT !.step = IF Removes(t) THEN "check" ELSE "write"] \in Request
    BY <2>1 DEF Request
  <2> QED BY <1>3, <2>2 DEF LockRow
<1>4. ASSUME NEW t \in Txs, CheckFloor(t) PROVE TypeOK'
  <2>1. tx[t] \in Request BY <1>4 DEF CheckFloor
  <2>2. [tx[t] EXCEPT !.step = "write"] \in Request BY <2>1 DEF Request
  <2> QED BY <1>4, <2>2 DEF CheckFloor
<1>5. ASSUME NEW t \in Txs, RefuseLastAdmin(t) \/ Fail(t) PROVE TypeOK'
  BY <1>5 DEF RefuseLastAdmin, Fail, End
<1>6. ASSUME NEW t \in Txs, Write(t) PROVE TypeOK'
  <2>1. tx[t] \in Request BY <1>6 DEF Write
  <2>2. [role |-> tx[t].role, disabled |-> tx[t].disabled] \in UserRow
    BY <2>1 DEF Request, UserRow
  <2> QED BY <1>6, <2>2 DEF Write, End
<1>7. ASSUME NEW u \in Users, Startup(u) PROVE TypeOK'
  <2>1. [role |-> "admin", disabled |-> FALSE] \in UserRow BY DEF UserRow, Roles
  <2> QED BY <1>7, <2>1 DEF Startup
<1>8. CASE Crash BY <1>8 DEF Crash
<1>9. CASE UNCHANGED vars BY <1>9 DEF vars
<1> QED BY <1>1, <1>2, <1>3, <1>4, <1>5, <1>6, <1>7, <1>8, <1>9 DEF Next, UpdateStep

\* Accounts and requests stay well-formed however many requests overlap.
THEOREM TypeCorrect == Spec => []TypeOK
<1>1. Init => TypeOK BY DEF Init, TypeOK
<1> QED BY <1>1, TypeStep, PTL DEF Spec

-----------------------------------------------------------------------------
(* Row locks *)

\* No step puts two requests past the lock of one row.
LEMMA LocksStep == ASSUME TypeOK, RowLocks, [Next]_vars PROVE RowLocks'
<1>1. ASSUME NEW t \in Txs, UpdateStep(t) PROVE RowLocks'
  <2>1. \A x \in Txs : x # t => tx'[x] = tx[x]
    BY <1>1 DEF UpdateStep, RequestUpdate, LockRow, CheckFloor, RefuseLastAdmin, Write, Fail,
                End, TypeOK
  <2>2. ASSUME HasLock(t)'
        PROVE  /\ tx'[t].target = tx[t].target
               /\ HasLock(t) \/ ~Locked(tx[t].target)
    <3>1. CASE LockRow(t)
      <4>1. tx'[t] = [tx[t] EXCEPT !.step = IF Removes(t) THEN "check" ELSE "write"]
        BY <3>1 DEF LockRow, TypeOK
      <4>2. tx[t] \in Request BY <3>1 DEF LockRow, TypeOK
      <4> QED BY <3>1, <4>1, <4>2 DEF LockRow, Request
    <3>2. CASE CheckFloor(t)
      <4>1. tx'[t] = [tx[t] EXCEPT !.step = "write"] BY <3>2 DEF CheckFloor, TypeOK
      <4>2. tx[t] \in Request BY <3>2 DEF CheckFloor, TypeOK
      <4> QED BY <3>2, <4>1, <4>2 DEF CheckFloor, Request, HasLock
    <3>3. CASE ~LockRow(t) /\ ~CheckFloor(t)
      <4>1. tx'[t] = Idle \/ tx'[t].step = "lock"
        BY <1>1, <3>3
          DEF UpdateStep, RequestUpdate, RefuseLastAdmin, Write, Fail, End, TypeOK
      <4> QED BY <2>2, <4>1 DEF HasLock
    <3> QED BY <3>1, <3>2, <3>3
  <2>3. ASSUME NEW x \in Txs, x # t, HasLock(x)', HasLock(t)', tx'[x].target = tx'[t].target
        PROVE  FALSE
    <3>1. HasLock(x) /\ tx[x].target = tx[t].target BY <2>1, <2>2, <2>3 DEF HasLock
    <3>2. Locked(tx[t].target) BY <3>1 DEF Locked, HasLock
    <3> QED BY <2>2, <2>3, <3>1, <3>2 DEF RowLocks
  <2>4. ASSUME NEW x \in Txs, NEW y \in Txs, x # t, y # t,
               HasLock(x)', HasLock(y)', tx'[x].target = tx'[y].target
        PROVE  x = y
    BY <2>1, <2>4 DEF RowLocks, HasLock
  <2> QED BY <2>3, <2>4 DEF RowLocks
<1>2. CASE tx' = tx BY <1>2 DEF RowLocks, HasLock
<1>3. CASE Crash BY <1>3 DEF Crash, RowLocks, HasLock
<1> QED BY <1>1, <1>2, <1>3 DEF Next, CreateUser, Startup, vars

-----------------------------------------------------------------------------
(* The floor *)

\* Once a request that takes an admin away has read its row under the lock, nobody else takes
\* another one away before it writes: whoever does is about the same row, and waits for it.
LEMMA FloorStep == ASSUME OneAccount, LInv, [Next]_vars PROVE IInv'
<1> USE DEF LInv, IInv
<1>0. TypeOK' BY TypeStep
<1>1. ASSUME NEW actor \in Users, NEW u \in Users, NEW role \in Roles,
             CreateUser(actor, u, role)
      PROVE  IInv'
  <2>1. ~Exists(u) /\ u # actor /\ tx' = tx BY <1>1 DEF CreateUser, ActiveAdmin
  <2>2. \A v \in Users : v # u => users'[v] = users[v] BY <1>1 DEF CreateUser, TypeOK
  <2>3. ActiveAdmin(actor)' BY <1>1, <2>1, <2>2 DEF CreateUser, ActiveAdmin, Exists
  <2>4. FloorHolds' BY <2>3 DEF FloorHolds
  <2>5. ASSUME NEW t \in Txs, tx'[t] # Idle
        PROVE  /\ Exists(tx[t].target)'
               /\ tx'[t].step = "write" /\ Removes(t)' => OtherActiveAdmin(tx[t].target)'
    <3>1. tx[t] \in Request BY <2>1, <2>5 DEF TypeOK
    <3>2. tx[t].target \in Users /\ tx[t].target # u BY <2>1, <2>5, <3>1 DEF Request
    <3>3. users'[tx[t].target] = users[tx[t].target] BY <2>2, <3>2
    <3>4. Exists(tx[t].target)' BY <2>1, <2>5, <3>3 DEF Exists
    <3>5. ASSUME tx[t].step = "write", Removes(t)' PROVE OtherActiveAdmin(tx[t].target)'
      <4>1. Removes(t) BY <2>1, <3>3, <3>5 DEF Removes, ActiveAdmin, Exists
      <4>2. PICK v \in Users \ {tx[t].target} : ActiveAdmin(v)
        BY <2>1, <2>5, <3>5, <4>1 DEF OtherActiveAdmin
      <4>3. v # u BY <2>1, <4>2 DEF ActiveAdmin
      <4>4. ActiveAdmin(v)' BY <2>2, <4>2, <4>3 DEF ActiveAdmin, Exists
      <4> QED BY <2>1, <4>2, <4>4 DEF OtherActiveAdmin
    <3> QED BY <2>1, <3>4, <3>5
  <2> QED BY <1>0, <2>1, <2>4, <2>5
<1>2. ASSUME NEW t \in Txs, UpdateStep(t), ~Write(t) PROVE IInv'
  <2>1. users' = users
    BY <1>2 DEF UpdateStep, RequestUpdate, LockRow, CheckFloor, RefuseLastAdmin, Fail
  <2>2. FloorHolds' BY <2>1 DEF FloorHolds, Exists, ActiveAdmin
  <2>3. ASSUME tx'[t] # Idle
        PROVE  /\ Exists(tx'[t].target)
               /\ tx'[t].step = "write" /\ Removes(t)' => OtherActiveAdmin(tx'[t].target)
    <3>1. CASE \E actor, u \in Users, role \in Roles, disabled \in BOOLEAN :
                 RequestUpdate(t, actor, u, role, disabled)
      BY <3>1 DEF RequestUpdate, TypeOK
    <3>2. CASE LockRow(t)
      <4>1. tx'[t] = [tx[t] EXCEPT !.step = IF Removes(t) THEN "check" ELSE "write"]
        BY <3>2 DEF LockRow, TypeOK
      <4>2. tx[t] \in Request /\ Exists(tx[t].target) BY <3>2 DEF LockRow, TypeOK
      <4>3. /\ tx'[t].target = tx[t].target
            /\ tx'[t].role = tx[t].role /\ tx'[t].disabled = tx[t].disabled
            /\ tx'[t].step = IF Removes(t) THEN "check" ELSE "write"
        BY <4>1, <4>2 DEF Request
      <4>4. Removes(t)' <=> Removes(t)
        BY <2>1, <4>3 DEF Removes, ActiveAdmin, Exists, IsActiveAdmin
      <4> QED BY <4>2, <4>3, <4>4
    <3>3. CASE CheckFloor(t)
      <4>1. tx'[t] = [tx[t] EXCEPT !.step = "write"] BY <3>3 DEF CheckFloor, TypeOK
      <4>2. tx[t] \in Request /\ Exists(tx[t].target) BY <3>3 DEF CheckFloor, TypeOK
      <4>3. tx'[t].target = tx[t].target BY <4>1, <4>2 DEF Request
      <4> QED BY <3>3, <4>2, <4>3 DEF CheckFloor
    <3>4. CASE RefuseLastAdmin(t) \/ Fail(t)
      BY <2>3, <3>4 DEF RefuseLastAdmin, Fail, End, TypeOK
    <3> QED BY <1>2, <3>1, <3>2, <3>3, <3>4 DEF UpdateStep
  <2>4. \A x \in Txs : x # t => tx'[x] = tx[x]
    BY <1>2 DEF UpdateStep, RequestUpdate, LockRow, CheckFloor, RefuseLastAdmin, Fail, End,
                TypeOK
  <2>5. \A v : (Exists(v)' <=> Exists(v)) /\ (OtherActiveAdmin(v)' <=> OtherActiveAdmin(v))
    BY <2>1 DEF Exists, OtherActiveAdmin, ActiveAdmin
  <2>6. ASSUME NEW x \in Txs, tx'[x] # Idle
        PROVE  /\ Exists(tx'[x].target)
               /\ tx'[x].step = "write" /\ Removes(x)' => OtherActiveAdmin(tx'[x].target)
    <3>1. CASE x = t BY <2>3, <2>6, <3>1
    <3>2. CASE x # t
      <4>1. tx'[x] = tx[x] BY <2>4, <3>2
      <4>2. Removes(x)' <=> Removes(x) BY <2>1, <4>1 DEF Removes, ActiveAdmin, Exists
      <4> QED BY <2>6, <4>1, <4>2
    <3> QED BY <3>1, <3>2
  <2> QED BY <1>0, <2>2, <2>5, <2>6
<1>3. ASSUME NEW t \in Txs, Write(t) PROVE IInv'
  <2>1. tx[t] \in Request /\ tx[t] # Idle BY <1>3 DEF Write, TypeOK
  <2>2. PICK u \in Users : u = tx[t].target BY <2>1 DEF Request
  <2>3. Exists(u) BY <2>1, <2>2
  <2>4. /\ users' = [users EXCEPT ![u] = [role |-> tx[t].role, disabled |-> tx[t].disabled]]
        /\ tx' = [tx EXCEPT ![t] = Idle]
    BY <1>3, <2>2 DEF Write, End
  <2>5. \A v \in Users : v # u => users'[v] = users[v] BY <2>4 DEF TypeOK
  <2>6. users'[u] = [role |-> tx[t].role, disabled |-> tx[t].disabled]
    BY <2>4 DEF TypeOK
  <2>7. IsActiveAdmin(tx[t]) => ActiveAdmin(u)'
    <3>1. users'[u] \in UserRow BY <2>1, <2>6 DEF Request, UserRow
    <3>2. users'[u] # NoRow BY <3>1, NoRowAssumption
    <3>3. IsActiveAdmin(tx[t]) => users'[u].role = "admin" /\ users'[u].disabled = FALSE
      BY <2>1, <2>6 DEF IsActiveAdmin, Request
    <3> QED BY <3>2, <3>3 DEF ActiveAdmin, Exists, IsActiveAdmin
  <2>8. FloorHolds'
    <3>1. CASE Removes(t)
      <4>1. PICK v \in Users \ {u} : ActiveAdmin(v)
        BY <1>3, <2>1, <2>2, <3>1 DEF Write, OtherActiveAdmin
      <4>2. ActiveAdmin(v)' BY <2>5, <4>1 DEF ActiveAdmin, Exists
      <4> QED BY <4>1, <4>2 DEF FloorHolds
    <3>2. CASE IsActiveAdmin(tx[t]) BY <2>7, <3>2 DEF FloorHolds
    <3>3. CASE ~Removes(t) /\ ~IsActiveAdmin(tx[t])
      <4>1. ~ActiveAdmin(u) BY <2>2, <3>3 DEF Removes
      <4>2. PICK v \in Users : ActiveAdmin(v) BY <2>3 DEF FloorHolds
      <4>3. ActiveAdmin(v)' BY <2>5, <4>1, <4>2 DEF ActiveAdmin, Exists
      <4> QED BY <4>3 DEF FloorHolds
    <3> QED BY <3>1, <3>2, <3>3
  <2>9. ASSUME NEW x \in Txs, tx'[x] # Idle
        PROVE  /\ Exists(tx[x].target)'
               /\ tx'[x].step = "write" /\ Removes(x)' => OtherActiveAdmin(tx[x].target)'
    <3>1. x # t /\ tx'[x] = tx[x] BY <2>4, <2>9 DEF TypeOK
    <3>2. tx[x] \in Request BY <2>9, <3>1 DEF TypeOK
    <3>3. PICK v \in Users : v = tx[x].target BY <3>2 DEF Request
    <3>4. Exists(v)'
      <4>1. [role |-> tx[t].role, disabled |-> tx[t].disabled] \in UserRow
        BY <2>1 DEF Request, UserRow
      <4>2. users'[v] # NoRow
        BY <2>5, <2>6, <2>9, <3>1, <3>3, <4>1, NoRowAssumption DEF Exists
      <4> QED BY <4>2 DEF Exists
    <3>5. ASSUME tx[x].step = "write", Removes(x)' PROVE OtherActiveAdmin(v)'
      <4>1. v # u
        <5>1. HasLock(x) /\ HasLock(t)
          BY <1>3, <2>1, <2>9, <3>1, <3>5 DEF HasLock, Write
        <5> QED BY <2>2, <3>1, <3>3, <5>1 DEF RowLocks
      <4>2. Takes(x) BY <2>9, <3>1, <3>5 DEF Takes, Removes
      <4>3. IsActiveAdmin(tx[t]) BY <2>1, <2>2, <3>3, <4>1, <4>2 DEF OneAccount, Takes
      <4>4. ActiveAdmin(u)' BY <2>7, <4>3
      <4> QED BY <4>1, <4>4 DEF OtherActiveAdmin
    <3> QED BY <3>1, <3>3, <3>4, <3>5
  <2> QED BY <1>0, <2>8, <2>9
<1>4. ASSUME NEW u \in Users, Startup(u) PROVE IInv'
  <2>1. CASE /\ \A v \in Users : ~Exists(v)
             /\ users' = [users EXCEPT ![u] = [role |-> "admin", disabled |-> FALSE]]
    <3>1. \A t \in Txs : tx[t] = Idle
      <4> SUFFICES ASSUME NEW t \in Txs, tx[t] # Idle PROVE FALSE OBVIOUS
      <4>1. tx[t].target \in Users BY DEF TypeOK, Request
      <4> QED BY <2>1, <4>1
    <3>2. users'[u] = [role |-> "admin", disabled |-> FALSE] BY <2>1 DEF TypeOK
    <3>3. users'[u] \in UserRow BY <3>2 DEF UserRow, Roles
    <3>4. ActiveAdmin(u)'
      <4>1. users'[u] # NoRow BY <3>3, NoRowAssumption
      <4>2. users'[u].role = "admin" /\ users'[u].disabled = FALSE BY <3>2
      <4> QED BY <4>1, <4>2 DEF ActiveAdmin, Exists, IsActiveAdmin
    <3>5. tx' = tx BY <1>4 DEF Startup
    <3> QED BY <1>0, <3>1, <3>4, <3>5 DEF FloorHolds
  <2>2. CASE UNCHANGED users
    <3>1. tx' = tx BY <1>4 DEF Startup
    <3> QED BY <1>0, <2>2, <3>1
         DEF FloorHolds, Exists, ActiveAdmin, Removes, OtherActiveAdmin
  <2> QED BY <1>4, <2>1, <2>2 DEF Startup
<1>5. CASE Crash
  BY <1>0, <1>5 DEF Crash, FloorHolds, Exists, ActiveAdmin
<1>6. CASE UNCHANGED vars
  BY <1>0, <1>6 DEF vars, FloorHolds, Exists, ActiveAdmin, Removes, OtherActiveAdmin
<1> QED BY <1>1, <1>2, <1>3, <1>4, <1>5, <1>6 DEF Next

\* A request past its check that takes an active admin away leaves another one, as
\* long as overlapping requests do not take two accounts away (UpdateUser).
THEOREM InvariantHolds == Spec /\ []OneAccount => []IInv
<1>1. Init => LInv BY DEF Init, LInv, IInv, RowLocks, HasLock, TypeOK, FloorHolds, Exists
<1>2. OneAccount /\ LInv /\ [Next]_vars => LInv' BY FloorStep, LocksStep DEF LInv, IInv
<1>3. LInv => IInv BY DEF LInv
<1> QED BY <1>1, <1>2, <1>3, PTL DEF Spec

\* The tracker always keeps an active admin, for any number of accounts and overlapping
\* requests, any failures and any restarts, unless two requests at once each take another
\* account away: requests that demote or disable one account are kept apart by its lock.
THEOREM FloorHoldsUnlessTwoFall == Spec /\ []OneAccount => []FloorHolds
<1>1. IInv => FloorHolds BY DEF IInv
<1> QED BY <1>1, InvariantHolds, PTL

\* In particular when account changes do not overlap, which is what the run checks.
THEOREM FloorHoldsOneAtATime == ASSUME OneAtATime PROVE Spec => []FloorHolds
<1>1. OneAccount BY DEF OneAccount, OneAtATime
<1>2. []OneAccount BY <1>1, PTL
<1> QED BY <1>2, FloorHoldsUnlessTwoFall, PTL
=============================================================================
