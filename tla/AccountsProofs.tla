---------------------------- MODULE AccountsProofs ----------------------------
(***************************************************************************)
(* Proofs about Accounts, for any number of sessions and of overlapping    *)
(* requests.  A session takes over the standing of the login that opens    *)
(* it, so the invariant has to speak of logins in flight as well: no login *)
(* is let in on a password replaced before its check, and while the        *)
(* account is not frozen, what has overtaken one was last a change by the  *)
(* holder, since a reset freezes.                                          *)
(***************************************************************************)
EXTENDS Accounts, TLAPS

\* Every request in flight, as strong as what is claimed of the sessions.
LoginStanding ==
  \A r \in Requests : req[r] # Idle =>
    /\ req[r].proof # "eviction"
    /\ At(r, "authenticated") /\ ~account.must_change =>
         req[r].proof \in {"in force", "change"}

IInv ==
  /\ TypeOK
  /\ ReplacingEvicts
  /\ FrozenUnlessChangedMeanwhile
  /\ FreezeFollowsThePassword
  /\ LoginStanding

\* What replacing a password does to the requests in flight: they stay
\* well-formed, and the logins among them stand as the replacement says.
LEMMA OvertakenStands ==
  ASSUME NEW why \in {"reset", "change"}, IInv
  PROVE  /\ Overtaken(req, why) \in [Requests -> Request \cup {Idle}]
         /\ \A r \in Requests : req[r] = Idle => Overtaken(req, why)[r] = Idle
         /\ \A r \in Requests : req[r] # Idle =>
              /\ Overtaken(req, why)[r] # Idle
              /\ Overtaken(req, why)[r].at = req[r].at
              /\ Overtaken(req, why)[r].token = req[r].token
              /\ Overtaken(req, why)[r].proof # "eviction"
              /\ req[r].at = "authenticated" => Overtaken(req, why)[r].proof = why
<1> DEFINE o == Overtaken(req, why)
<1> SUFFICES ASSUME NEW r \in Requests
             PROVE  /\ o[r] \in Request \cup {Idle}
                    /\ req[r] = Idle => o[r] = Idle
                    /\ req[r] # Idle =>
                         /\ o[r] # Idle
                         /\ o[r].at = req[r].at
                         /\ o[r].token = req[r].token
                         /\ o[r].proof # "eviction"
                         /\ req[r].at = "authenticated" => o[r].proof = why
  BY DEF Overtaken
<1>1. req[r] \in Request \cup {Idle}
  BY DEF IInv, TypeOK
<1>2. CASE req[r] = Idle
  BY <1>2 DEF Overtaken
<1>3. CASE req[r] # Idle
  <2> DEFINE q == req[r]
             p == IF q.at = "authenticated" THEN why ELSE q.proof
             w == q.wasted \/ q.at = "mailing"
  <2>1. o[r] = [q EXCEPT !.proof = p, !.wasted = w]
    BY <1>3 DEF Overtaken
  <2>2. q \in Request /\ q.proof # "eviction" /\ q # Idle
    BY <1>1, <1>3 DEF IInv, LoginStanding
  <2>3. p \in Proofs /\ p # "eviction" /\ (q.at = "authenticated" => p = why)
    BY <2>2 DEF Request, Proofs
  <2>4. w \in BOOLEAN
    OBVIOUS
  <2>5. q.at # "idle"
    BY <2>2 DEF Request, Progress
  <2> HIDE DEF o, p, w, q
  <2>6. /\ o[r] \in Request
        /\ o[r].at = q.at /\ o[r].token = q.token /\ o[r].proof = p
    BY <2>1, <2>2, <2>3, <2>4 DEF Request
  <2>7. o[r] # Idle
    BY <2>5, <2>6 DEF Idle
  <2> QED
    BY <2>3, <2>6, <2>7, <1>3 DEF q
<1> QED
  BY <1>2, <1>3

\* What replacing a password does to the session rows: at most the row of the
\* session that chose it is left, and that one stands on the new password.
LEMMA OnlyTheChooserStays ==
  ASSUME NEW keep, IInv
  PROVE  LET rows == Outdated(DeleteSessionsExcept(keep), keep) IN
         /\ rows \in [Tokens -> Session \cup {NoSession}]
         /\ \A t \in Tokens : rows[t] # NoSession => rows[t].proof = "in force"
<1> DEFINE rows == Outdated(DeleteSessionsExcept(keep), keep)
<1> SUFFICES ASSUME NEW t \in Tokens
             PROVE  /\ rows[t] \in Session \cup {NoSession}
                    /\ rows[t] # NoSession => rows[t].proof = "in force"
  BY DEF Outdated
<1>1. sessions[t] \in Session \cup {NoSession}
  BY DEF IInv, TypeOK
<1>2. CASE t = keep /\ sessions[t] # NoSession
  <2>1. rows[t] = [sessions[t] EXCEPT !.proof = "in force"]
    BY <1>2 DEF Outdated, DeleteSessionsExcept
  <2> QED
    BY <2>1, <1>1, <1>2 DEF Session, Proofs
<1>3. CASE t # keep \/ sessions[t] = NoSession
  BY <1>3 DEF Outdated, DeleteSessionsExcept
<1> QED
  BY <1>2, <1>3

-----------------------------------------------------------------------------
(* Each step preserves the invariant *)

LEMMA InitIInv == Init => IInv
BY DEF Init, IInv, TypeOK, Account, ReplacingEvicts, FrozenUnlessChangedMeanwhile,
       FreezeFollowsThePassword, LoginStanding, Idle

\* A request that begins stands on the password in force.
LEMMA BeginStep ==
  ASSUME IInv, NEW r \in Requests, Begin(r)
  PROVE  IInv'
<1> DEFINE new(p, t) == [at |-> p, token |-> t, proof |-> "in force", wasted |-> FALSE]
<1>1. PICK p \in {"authenticated", "asked", "identified"}, t \in Tokens \cup {NoToken} :
        /\ req' = [req EXCEPT ![r] = new(p, t)]
        /\ t \in Tokens <=> p = "identified"
        /\ UNCHANGED <<account, sessions>>
  BY NoTokenAssumption
     DEF Begin, Authenticate, LookupByEmail, IdentifyChange, Start
<1>2. new(p, t) \in Request
  BY DEF Request, Progress, Proofs
<1>3. TypeOK'
  BY <1>1, <1>2 DEF IInv, TypeOK
<1>4. LoginStanding'
  BY <1>1 DEF IInv, TypeOK, LoginStanding, At
<1> QED
  BY <1>1, <1>3, <1>4
     DEF IInv, ReplacingEvicts, FrozenUnlessChangedMeanwhile, FreezeFollowsThePassword

\* A step that leaves the password alone: rows go away or run out, requests end
\* or move on within a password change, clocks and flags of the account change.
LEMMA QuietStep ==
  ASSUME IInv,
         account' \in Account,
         account'.must_change = account.must_change, account'.origin = account.origin,
         account'.expires # "never" => account.expires # "never",
         sessions' \in [Tokens -> Session \cup {NoSession}],
         \A t \in Tokens : sessions'[t] # NoSession =>
           sessions[t] # NoSession /\ sessions'[t].proof = sessions[t].proof,
         req' \in [Requests -> Request \cup {Idle}],
         \A r \in Requests : req'[r] # Idle =>
           /\ req[r] # Idle
           /\ req'[r].token = req[r].token /\ req'[r].proof = req[r].proof
           /\ \/ req'[r].at = req[r].at
              \/ req[r].at = "identified" /\ req'[r].at = "touched"
              \/ req[r].at = "touched" /\ req'[r].at = "verified"
  PROVE  IInv'
<1>1. TypeOK'
  BY DEF IInv, TypeOK
<1>2. LoginStanding'
  BY DEF IInv, LoginStanding, At
<1>3. ReplacingEvicts' /\ FrozenUnlessChangedMeanwhile'
  BY DEF IInv, ReplacingEvicts, FrozenUnlessChangedMeanwhile
<1>4. FreezeFollowsThePassword'
  BY DEF IInv, FreezeFollowsThePassword
<1> QED
  BY <1>1, <1>2, <1>3, <1>4 DEF IInv

\* The password is replaced: by a reset, after which the account is frozen, or
\* by its holder, who is then the only one with a session.
LEMMA ReplaceStep ==
  ASSUME IInv, NEW why \in {"reset", "change"},
         NEW keep, NEW overtaken, overtaken = Overtaken(req, why), account' \in Account, FreezeFollowsThePassword',
         why = "change" \/ account'.must_change,
         sessions' = Outdated(DeleteSessionsExcept(keep), keep),
         req' \in [Requests -> Request \cup {Idle}],
         \A r \in Requests : req'[r] # Idle =>
           /\ overtaken[r] # Idle
           /\ req'[r].token = overtaken[r].token /\ req'[r].proof = overtaken[r].proof
           /\ \/ req'[r].at = overtaken[r].at
              \/ overtaken[r].at = "asked" /\ req'[r].at = "mailing"
  PROVE  IInv'
<1>1. /\ sessions' \in [Tokens -> Session \cup {NoSession}]
      /\ \A t \in Tokens : sessions'[t] # NoSession => sessions'[t].proof = "in force"
  BY OnlyTheChooserStays
<1>2. ASSUME NEW r \in Requests, req'[r] # Idle
      PROVE  /\ req'[r].token \in Tokens <=> req'[r].at \in {"identified", "touched", "verified"}
             /\ req'[r].proof # "eviction"
             /\ req'[r].at = "authenticated" => req'[r].proof = why
  <2> DEFINE o == overtaken[r]
  <2>1. /\ o # Idle
        /\ req'[r].token = o.token /\ req'[r].proof = o.proof
        /\ req'[r].at = o.at \/ (o.at = "asked" /\ req'[r].at = "mailing")
    BY <1>2
  <2>2. /\ req[r] # Idle /\ o.at = req[r].at /\ o.token = req[r].token
        /\ o.proof # "eviction"
        /\ req[r].at = "authenticated" => o.proof = why
    BY <2>1, OvertakenStands
  <2>3. req[r].token \in Tokens <=> req[r].at \in {"identified", "touched", "verified"}
    BY <2>2 DEF IInv, TypeOK
  <2> HIDE DEF o
  <2> QED
    BY <2>1, <2>2, <2>3
<1>3. TypeOK'
  BY <1>1, <1>2 DEF TypeOK
<1>4. LoginStanding'
  BY <1>2 DEF LoginStanding, At
<1>5. ReplacingEvicts' /\ FrozenUnlessChangedMeanwhile'
  BY <1>1 DEF ReplacingEvicts, FrozenUnlessChangedMeanwhile
<1> QED
  BY <1>3, <1>4, <1>5 DEF IInv

\* The session takes over the standing of its login.
LEMMA CreateSessionStep ==
  ASSUME IInv, NEW r \in Requests, NEW t \in Tokens, CreateSession(r, t)
  PROVE  IInv'
<1>1. req[r] \in Request /\ req[r] # Idle /\ req[r].at = "authenticated"
  BY DEF CreateSession, At, IInv, TypeOK
<1>2. [expired |-> FALSE, proof |-> req[r].proof] \in Session
  BY <1>1 DEF Session, Request
<1>3. TypeOK'
  BY <1>2 DEF CreateSession, End, IInv, TypeOK
<1>4. LoginStanding'
  BY DEF CreateSession, End, IInv, TypeOK, LoginStanding, At
<1>5. ASSUME NEW x \in Tokens, sessions'[x] # NoSession
      PROVE  \/ sessions'[x].proof = req[r].proof
             \/ (sessions[x] # NoSession /\ sessions'[x].proof = sessions[x].proof)
  BY <1>5 DEF CreateSession, IInv, TypeOK
<1>6. ReplacingEvicts'
  <2>1. req[r].proof # "eviction" /\ ReplacingEvicts
    BY <1>1 DEF IInv, LoginStanding
  <2> QED
    BY <1>5, <2>1 DEF ReplacingEvicts
<1>7. FrozenUnlessChangedMeanwhile'
  <2>1. ~account.must_change => req[r].proof \in {"in force", "change"}
    BY <1>1 DEF IInv, LoginStanding, At
  <2>2. FrozenUnlessChangedMeanwhile /\ account' = account
    BY DEF IInv, CreateSession
  <2> QED
    BY <1>5, <2>1, <2>2 DEF FrozenUnlessChangedMeanwhile
<1>8. FreezeFollowsThePassword'
  BY DEF CreateSession, IInv, FreezeFollowsThePassword
<1> QED
  BY <1>3, <1>4, <1>6, <1>7, <1>8 DEF IInv

\* Removing or ageing rows leaves a table of sessions.
LEMMA AgedRow ==
  ASSUME NEW row \in Session, NEW e \in BOOLEAN
  PROVE  /\ [row EXCEPT !.expired = e] \in Session
         /\ [row EXCEPT !.expired = e].proof = row.proof
BY DEF Session

LEMMA NextIInv ==
  ASSUME IInv, [Next]_vars
  PROVE  IInv'
<1>0. /\ account \in Account
      /\ sessions \in [Tokens -> Session \cup {NoSession}]
      /\ req \in [Requests -> Request \cup {Idle}]
      /\ \A t \in Tokens : sessions[t] # NoSession => sessions[t] \in Session
      /\ \A r \in Requests : req[r] # Idle => req[r] \in Request
  BY DEF IInv, TypeOK
<1>1. ASSUME NEW r \in Requests, Begin(r) PROVE IInv'
  BY <1>1, BeginStep
<1>2. ASSUME NEW r \in Requests, NEW t \in Tokens, CreateSession(r, t) PROVE IInv'
  BY <1>2, CreateSessionStep
<1>3. ASSUME NEW r \in Requests, TouchSession(r) PROVE IInv'
  <2>1. /\ sessions' \in [Tokens -> Session \cup {NoSession}]
        /\ \A t \in Tokens : sessions'[t] # NoSession =>
             sessions[t] # NoSession /\ sessions'[t].proof = sessions[t].proof
    BY <1>0, <1>3, AgedRow, NoSessionAssumption DEF TouchSession
  <2>2. [req[r] EXCEPT !.at = "touched"] \in Request
    BY <1>0, <1>3 DEF TouchSession, At, Request, Progress
  <2>3. req' = [req EXCEPT ![r] = [req[r] EXCEPT !.at = "touched"]]
    BY <1>3 DEF TouchSession, Advance
  <2>4. req[r] # Idle /\ req[r].at = "identified" /\ req[r] \in Request
    BY <1>0, <1>3 DEF TouchSession, At
  <2>5. [req[r] EXCEPT !.at = "touched"].at = "touched"
        /\ [req[r] EXCEPT !.at = "touched"].token = req[r].token
        /\ [req[r] EXCEPT !.at = "touched"].proof = req[r].proof
    BY <2>4 DEF Request
  <2>6. account' = account
    BY <1>3 DEF TouchSession
  <2> QED
    BY <1>0, <2>1, <2>2, <2>3, <2>4, <2>5, <2>6, QuietStep
<1>4. ASSUME NEW r \in Requests, VerifyCurrentPassword(r) PROVE IInv'
  <2>1. req[r] # Idle /\ req[r].at = "touched" /\ req[r] \in Request
    BY <1>0, <1>4 DEF VerifyCurrentPassword, At
  <2>2. /\ [req[r] EXCEPT !.at = "verified"] \in Request
        /\ [req[r] EXCEPT !.at = "verified"].at = "verified"
        /\ [req[r] EXCEPT !.at = "verified"].token = req[r].token
        /\ [req[r] EXCEPT !.at = "verified"].proof = req[r].proof
    BY <2>1 DEF Request, Progress
  <2>3. /\ req' = [req EXCEPT ![r] = [req[r] EXCEPT !.at = "verified"]]
        /\ UNCHANGED <<account, sessions>>
    BY <1>4 DEF VerifyCurrentPassword, Advance
  <2> QED
    BY <1>0, <2>1, <2>2, <2>3, QuietStep
<1>5. ASSUME NEW r \in Requests, SuppressRepeat(r) \/ Fail(r) PROVE IInv'
  <2>1. req' = [req EXCEPT ![r] = Idle] /\ UNCHANGED <<account, sessions>>
    BY <1>5 DEF SuppressRepeat, Fail, End
  <2> QED
    BY <1>0, <2>1, QuietStep
<1>6. ASSUME NEW r \in Requests, MailDelivered(r) PROVE IInv'
  <2>1. req' = [req EXCEPT ![r] = Idle] /\ UNCHANGED sessions
    BY <1>6 DEF MailDelivered, End
  <2>2. PICK k \in BOOLEAN : account' = [account EXCEPT !.known = k]
    BY <1>0, <1>6 DEF MailDelivered, Account
  <2>3. /\ account' \in Account /\ account'.must_change = account.must_change
        /\ account'.origin = account.origin /\ account'.expires = account.expires
    BY <1>0, <2>2 DEF Account
  <2> QED
    BY <1>0, <2>1, <2>3, QuietStep
<1>7. ASSUME NEW r \in Requests, ChangePassword(r) PROVE IInv'
  <2> DEFINE o == Overtaken(req, "change")
  <2>1. /\ account' \in Account /\ ~account'.must_change
        /\ FreezeFollowsThePassword'
    BY <1>0, <1>7
       DEF ChangePassword, SetPassword, Account, FreezeFollowsThePassword
  <2>2. sessions' = Outdated(DeleteSessionsExcept(req[r].token), req[r].token)
    BY <1>7 DEF ChangePassword, SetPassword
  <2>3. req' = [o EXCEPT ![r] = Idle]
    BY <1>7 DEF ChangePassword
  <2>4. o \in [Requests -> Request \cup {Idle}]
    BY OvertakenStands
  <2>5. \A x \in Requests : req'[x] # Idle => req'[x] = o[x] /\ o[x] # Idle
    BY <2>3, <2>4
  <2>6. req' \in [Requests -> Request \cup {Idle}]
    BY <2>3, <2>4
  <2>7. o = Overtaken(req, "change")
    OBVIOUS
  <2> HIDE DEF o
  <2> QED
    BY <2>1, <2>2, <2>5, <2>6, <2>7, ReplaceStep
<1>8. ASSUME NEW r \in Requests, IssueOneTimePassword(r) PROVE IInv'
  <2> DEFINE o == Overtaken(req, "reset")
  <2>1. /\ account' \in Account /\ account'.must_change
        /\ FreezeFollowsThePassword'
    BY <1>0, <1>8 DEF IssueOneTimePassword, Account, FreezeFollowsThePassword
  <2>2. sessions' = Outdated(DeleteSessionsExcept(NoToken), NoToken)
    BY <1>8 DEF IssueOneTimePassword
  <2>3. req' = [o EXCEPT ![r] = [o[r] EXCEPT !.at = "mailing"]]
    BY <1>8 DEF IssueOneTimePassword
  <2>4. o \in [Requests -> Request \cup {Idle}]
    BY OvertakenStands
  <2>5. o[r] \in Request /\ o[r].at = "asked" /\ o[r] # Idle
    <3>1. req[r] # Idle /\ req[r].at = "asked"
      BY <1>8 DEF IssueOneTimePassword, At
    <3> QED
      BY <2>4, <3>1, OvertakenStands
  <2>6. /\ [o[r] EXCEPT !.at = "mailing"] \in Request
        /\ [o[r] EXCEPT !.at = "mailing"].at = "mailing"
        /\ [o[r] EXCEPT !.at = "mailing"].token = o[r].token
        /\ [o[r] EXCEPT !.at = "mailing"].proof = o[r].proof
    BY <2>5 DEF Request, Progress
  <2>7. req' \in [Requests -> Request \cup {Idle}]
    BY <2>3, <2>4, <2>6
  <2>8. \A x \in Requests : req'[x] # Idle =>
          /\ o[x] # Idle
          /\ req'[x].token = o[x].token /\ req'[x].proof = o[x].proof
          /\ req'[x].at = o[x].at \/ (o[x].at = "asked" /\ req'[x].at = "mailing")
    BY <2>3, <2>4, <2>5, <2>6
  <2>9. o = Overtaken(req, "reset")
    OBVIOUS
  <2> HIDE DEF o
  <2> QED
    BY <2>1, <2>2, <2>7, <2>8, <2>9, ReplaceStep
<1>9. CASE ResetUserPassword
  <2>1. PICK told \in BOOLEAN :
          /\ SetPassword(NoToken, TRUE, "admin", told)
          /\ req' = Overtaken(req, "reset")
    BY <1>9 DEF ResetUserPassword
  <2>2. /\ account' \in Account /\ account'.must_change
        /\ FreezeFollowsThePassword'
    BY <1>0, <2>1 DEF SetPassword, Account, FreezeFollowsThePassword
  <2>3. sessions' = Outdated(DeleteSessionsExcept(NoToken), NoToken)
    BY <2>1 DEF SetPassword
  <2>4. req' \in [Requests -> Request \cup {Idle}]
    BY <2>1, OvertakenStands
  <2> QED
    BY <2>1, <2>2, <2>3, <2>4, ReplaceStep
<1>10. ASSUME NEW disabled \in BOOLEAN, NEW moved \in BOOLEAN, UpdateUser(disabled, moved)
       PROVE  IInv'
  <2>1. /\ account' \in Account /\ account'.must_change = account.must_change
        /\ account'.origin = account.origin /\ account'.expires = account.expires
    BY <1>0, <1>10 DEF UpdateUser, Account
  <2>2. /\ sessions' \in [Tokens -> Session \cup {NoSession}]
        /\ \A t \in Tokens : sessions'[t] # NoSession => sessions'[t] = sessions[t]
    BY <1>0, <1>10 DEF UpdateUser, DeleteSessionsExcept
  <2>3. \A r \in Requests : req[r] # Idle =>
          LET q == [req[r] EXCEPT !.wasted = TRUE] IN
          /\ q \in Request
          /\ q.at = req[r].at /\ q.token = req[r].token /\ q.proof = req[r].proof
    BY <1>0 DEF Request
  <2>4. \A r \in Requests : \/ req'[r] = req[r]
                            \/ req[r] # Idle /\ req'[r] = [req[r] EXCEPT !.wasted = TRUE]
    BY <1>10 DEF UpdateUser, At
  <2>5. req' \in [Requests -> Request \cup {Idle}]
    BY <1>0, <1>10, <2>3 DEF UpdateUser, At
  <2>6. \A r \in Requests : req'[r] # Idle =>
          /\ req[r] # Idle /\ req'[r].at = req[r].at
          /\ req'[r].token = req[r].token /\ req'[r].proof = req[r].proof
    BY <2>3, <2>4
  <2> QED
    BY <2>1, <2>2, <2>5, <2>6, QuietStep
<1>11. ASSUME NEW t \in Tokens, Logout(t) \/ SessionExpires(t) PROVE IInv'
  <2>1. UNCHANGED <<account, req>>
    BY <1>11 DEF Logout, SessionExpires
  <2>2. /\ sessions' \in [Tokens -> Session \cup {NoSession}]
        /\ \A x \in Tokens : sessions'[x] # NoSession =>
             sessions[x] # NoSession /\ sessions'[x].proof = sessions[x].proof
    <3>1. CASE Logout(t)
      BY <1>0, <3>1 DEF Logout
    <3>2. CASE SessionExpires(t)
      <4>1. sessions[t] \in Session /\ sessions[t] # NoSession
        BY <1>0, <3>2 DEF SessionExpires, Live
      <4>2. /\ [sessions[t] EXCEPT !.expired = TRUE] \in Session
            /\ [sessions[t] EXCEPT !.expired = TRUE].proof = sessions[t].proof
        BY <4>1, AgedRow
      <4>3. sessions' = [sessions EXCEPT ![t] = [sessions[t] EXCEPT !.expired = TRUE]]
        BY <3>2 DEF SessionExpires
      <4> QED
        BY <1>0, <4>1, <4>2, <4>3
    <3> QED
      BY <1>11, <3>1, <3>2
  <2> QED
    BY <1>0, <2>1, <2>2, QuietStep
<1>12. CASE PurgeExpiredSessions
  <2>1. /\ UNCHANGED <<account, req>>
        /\ sessions' \in [Tokens -> Session \cup {NoSession}]
        /\ \A t \in Tokens : sessions'[t] # NoSession => sessions'[t] = sessions[t]
    BY <1>0, <1>12 DEF PurgeExpiredSessions
  <2> QED
    BY <1>0, <2>1, QuietStep
<1>13. CASE PasswordExpires \/ CooldownEnds \/ HolderForgets
  <2>1. UNCHANGED <<sessions, req>>
    BY <1>13 DEF PasswordExpires, CooldownEnds, HolderForgets
  <2>2. /\ account' \in Account /\ account'.must_change = account.must_change
        /\ account'.origin = account.origin
        /\ account'.expires # "never" => account.expires # "never"
    BY <1>0, <1>13 DEF PasswordExpires, CooldownEnds, HolderForgets, Account
  <2> QED
    BY <1>0, <2>1, <2>2, QuietStep
<1>14. CASE UNCHANGED vars
  BY <1>0, <1>14, QuietStep DEF vars
<1> QED
  BY <1>1, <1>2, <1>3, <1>4, <1>5, <1>6, <1>7, <1>8, <1>9, <1>10, <1>11, <1>12, <1>13, <1>14
     DEF Next, Proceed

\* The inductive invariant holds in every reachable state.
THEOREM InvariantHolds == Spec => []IInv
BY InitIInv, NextIInv, PTL DEF Spec

\* The row, the sessions and the requests stay well-formed.
THEOREM TypeCorrect == Spec => []TypeOK
<1>1. IInv => TypeOK
  BY DEF IInv
<1> QED
  BY <1>1, InvariantHolds, PTL

\* No session survives the replacement of the password it was opened with,
\* except the one that replaced it (SetPassword, IssueOneTimePassword).
THEOREM ReplacementEvicts == Spec => []ReplacingEvicts
<1>1. IInv => ReplacingEvicts
  BY DEF IInv
<1> QED
  BY <1>1, InvariantHolds, PTL

\* A session that works stands on the password in force, or its login was overtaken last
\* by the holder's own change: a login overtaken last by a reset is frozen, and dropped by
\* the change that lifts the freeze (login, passwordCurrent, changePassword).
THEOREM OvertakenLoginsAreFrozen == Spec => []FrozenUnlessChangedMeanwhile
<1>1. IInv => FrozenUnlessChangedMeanwhile
  BY DEF IInv
<1> QED
  BY <1>1, InvariantHolds, PTL

\* An account is frozen exactly while somebody else has seen its password.
THEOREM FrozenUntilChosen == Spec => []FreezeFollowsThePassword
<1>1. IInv => FreezeFollowsThePassword
  BY DEF IInv
<1> QED
  BY <1>1, InvariantHolds, PTL

==============================================================================
