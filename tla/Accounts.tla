------------------------------- MODULE Accounts -------------------------------
(***************************************************************************)
(* The password and the sessions of one account: signing in, choosing a    *)
(* password, asking for a one-time password by mail, an administrator's    *)
(* reset, disabling, expiry.  Every statement of the store is keyed by one *)
(* account id or one session token, so accounts do not touch each other.   *)
(*                                                                         *)
(* Signing in, changing a password and mailing a one-time password each    *)
(* are several statements with no transaction around them; each statement  *)
(* is a step here, and requests overlap at will.                           *)
(*                                                                         *)
(* A password has no value here, only a standing: is it the one in force,  *)
(* and if not, what has replaced it since?  "proof" keeps that of the      *)
(* password a login or a session was let in with (history, not a column).  *)
(***************************************************************************)
CONSTANTS
  Tokens,      \* session tokens that can exist at once
  NoSession,   \* "no row with this token"
  NoToken,     \* "this request carries no session"
  Requests     \* requests in flight at once

VARIABLES
  account,     \* the row of table users, and who knows its password
  sessions,    \* table sessions, by token
  req          \* per request, its progress

vars == <<account, sessions, req>>

(* What last happened to a password since it let somebody in: nothing, it is *)
(* the one in force; a reset, or a change by the holder, before the session  *)
(* was there; or a replacement that should have ended the session.  Only the *)
(* last counts: a reset and then a change leave "change".                    *)
Proofs == {"in force", "reset", "change", "eviction"}

(* origin and known are history: who set the password, and does the holder *)
(* know it?                                                                 *)
Account ==
  [must_change : BOOLEAN,                   \* must_change_password
   expires     : {"never", "valid", "past"},\* password_expires_at
   cooling     : BOOLEAN,                   \* password_reset_at within the cooldown
   disabled    : BOOLEAN,                   \* disabled_at
   origin      : {"holder", "admin", "mail"},
   known       : BOOLEAN]

Session == [expired : BOOLEAN, proof : Proofs]

Progress == {"authenticated", "identified", "touched", "verified", "asked", "mailing"}

(* wasted: what the mail brings is of no use to the holder, for the address  *)
(* changed since the request read it, or another password has been set.      *)
Request ==
  [at : Progress, token : Tokens \cup {NoToken}, proof : Proofs, wasted : BOOLEAN]

Idle == [at |-> "idle"]

ASSUME NoSessionAssumption == NoSession \notin Session
ASSUME NoTokenAssumption == NoToken \notin Tokens

-----------------------------------------------------------------------------
(* Helpers *)

At(r, p) == req[r] # Idle /\ req[r].at = p

Start(r, p, t) ==
  req' = [req EXCEPT ![r] = [at |-> p, token |-> t, proof |-> "in force", wasted |-> FALSE]]

Advance(r, p) == req' = [req EXCEPT ![r].at = p]
End(r) == req' = [req EXCEPT ![r] = Idle]

\* What LookupSession answers, apart from the account being disabled.
Live(t) == sessions[t] # NoSession /\ ~sessions[t].expired

\* NewToken never repeats a token that a row or a request still carries.
Fresh(t) == sessions[t] = NoSession /\ \A r \in Requests : req[r] # Idle => req[r].token # t

AllSessions(keep) == sessions                                        \* mutant

\* DELETE FROM sessions WHERE user_id = id [AND token_hash <> keep].
DeleteSessionsExcept(keep) ==
  [t \in Tokens |-> IF t = keep THEN sessions[t] ELSE NoSession]

\* Logins and mails in flight, after the password was replaced.
Overtaken(rs, why) ==
  [r \in Requests |->
     IF rs[r] = Idle THEN Idle
     ELSE [rs[r] EXCEPT !.proof = IF rs[r].at = "authenticated" THEN why ELSE @,
                        !.wasted = @ \/ rs[r].at = "mailing"]]

\* Session rows after the password was replaced: the one that chose the new
\* password stands, whatever else was left in the table does not.
Outdated(rows, chooser) ==
  [t \in Tokens |->
     IF rows[t] = NoSession THEN NoSession
     ELSE [rows[t] EXCEPT !.proof = IF t = chooser THEN "in force" ELSE "eviction"]]

-----------------------------------------------------------------------------
(* Signing in: POST /api/auth/login.  Wrong credentials change nothing. *)

\* Authenticate: the right password of an enabled account, not past its expiry.
Authenticate(r) ==
  /\ req[r] = Idle
  /\ account.known /\ ~account.disabled /\ account.expires # "past"
  /\ Start(r, "authenticated", NoToken)
  /\ UNCHANGED <<account, sessions>>

\* CreateSession: an insert that looks at nothing.
CreateSession(r, t) ==
  /\ At(r, "authenticated") /\ Fresh(t)
  /\ sessions' = [sessions EXCEPT ![t] = [expired |-> FALSE, proof |-> req[r].proof]]
  /\ End(r)
  /\ UNCHANGED account

-----------------------------------------------------------------------------
(* Choosing a password: POST /api/auth/password, allowed while frozen *)

SetPasswordKeepingExpiry(keep, mustChange, origin, known) ==         \* mutant
  /\ account' = [account EXCEPT !.must_change = mustChange,
                                !.origin = origin, !.known = known]
  /\ sessions' = Outdated(DeleteSessionsExcept(keep), keep)

\* SetPassword: new hash, no expiry, no other session.
SetPassword(keep, mustChange, origin, known) ==
  /\ account' = [account EXCEPT !.must_change = mustChange, !.expires = "never",
                                !.origin = origin, !.known = known]
  /\ sessions' = Outdated(DeleteSessionsExcept(keep), keep)

IdentifyWithoutSession(r, t) ==                                      \* mutant
  /\ req[r] = Idle
  /\ Live(t) /\ ~account.disabled
  /\ Start(r, "identified", NoToken)
  /\ UNCHANGED <<account, sessions>>

\* identify: LookupSession.  The freeze does not apply to this route.
IdentifyChange(r, t) ==
  /\ req[r] = Idle
  /\ Live(t) /\ ~account.disabled
  /\ Start(r, "identified", t)
  /\ UNCHANGED <<account, sessions>>

\* TouchSession slides the expiry of the row, run out or not, if it is there.
TouchSession(r) ==
  /\ At(r, "identified")
  /\ sessions' = [t \in Tokens |->
                    IF t = req[r].token /\ sessions[t] # NoSession
                    THEN [sessions[t] EXCEPT !.expired = FALSE] ELSE sessions[t]]
  /\ Advance(r, "touched")
  /\ UNCHANGED account

\* VerifyCurrentPassword takes a password past its expiry too.
VerifyCurrentPassword(r) ==
  /\ At(r, "touched") /\ account.known
  /\ Advance(r, "verified")
  /\ UNCHANGED <<account, sessions>>

\* The holder's own password lifts the freeze and keeps this session.
ChangePassword(r) ==
  /\ At(r, "verified")
  /\ SetPassword(req[r].token, FALSE, "holder", TRUE)
  /\ req' = [Overtaken(req, "change") EXCEPT ![r] = Idle]

-----------------------------------------------------------------------------
(* Asking for a one-time password: POST /api/auth/forgot, open to anybody *)

LookupUnfrozenByEmail(r) ==                                          \* mutant
  /\ req[r] = Idle
  /\ ~account.disabled /\ ~account.must_change
  /\ Start(r, "asked", NoToken)
  /\ UNCHANGED <<account, sessions>>

\* GetUserByEmail; a disabled account is left alone.
LookupByEmail(r) ==
  /\ req[r] = Idle
  /\ ~account.disabled
  /\ Start(r, "asked", NoToken)
  /\ UNCHANGED <<account, sessions>>

\* IssueOneTimePassword past the cooldown, in one transaction on the locked row.
IssueOneTimePassword(r) ==
  /\ At(r, "asked") /\ ~account.cooling
  /\ account' = [account EXCEPT !.must_change = TRUE, !.expires = "valid",
                                !.cooling = TRUE, !.origin = "mail", !.known = FALSE]
  /\ sessions' = Outdated(DeleteSessionsExcept(NoToken), NoToken)
  /\ req' = [Overtaken(req, "reset") EXCEPT ![r].at = "mailing"]

\* A repeat within the cooldown changes nothing and looks like a sent one.
SuppressRepeat(r) ==
  /\ At(r, "asked") /\ account.cooling
  /\ End(r)
  /\ UNCHANGED <<account, sessions>>

\* The holder reads the mail: it went to the account's address, and it counts
\* if no other password has been set since.
MailDelivered(r) ==
  /\ At(r, "mailing")
  /\ account' = [account EXCEPT !.known = @ \/ ~req[r].wasted]
  /\ End(r)
  /\ UNCHANGED sessions

\* The mail cannot be sent, the policy or a statement fails, or the password
\* offered is wrong: what was done stays done.
Fail(r) ==
  /\ req[r] # Idle
  /\ End(r)
  /\ UNCHANGED <<account, sessions>>

-----------------------------------------------------------------------------
(* Administrators, signing out, and time *)

ResetWithoutFreeze ==                                                \* mutant
  \E told \in BOOLEAN :
    /\ SetPassword(NoToken, FALSE, "admin", told)
    /\ req' = Overtaken(req, "reset")

\* The administrator may or may not reach the holder with the new password.
ResetUserPassword ==
  \E told \in BOOLEAN :
    /\ SetPassword(NoToken, TRUE, "admin", told)
    /\ req' = Overtaken(req, "reset")

\* UpdateUser writes the address and the disabled flag together.
UpdateUser(disabled, moved) ==
  /\ account' = [account EXCEPT !.disabled = disabled]
  /\ sessions' = IF disabled THEN DeleteSessionsExcept(NoToken) ELSE sessions
  /\ req' = IF moved
            THEN [r \in Requests |-> IF At(r, "asked") \/ At(r, "mailing")
                                     THEN [req[r] EXCEPT !.wasted = TRUE] ELSE req[r]]
            ELSE req

Logout(t) ==
  /\ Live(t) /\ ~account.disabled
  /\ sessions' = [sessions EXCEPT ![t] = NoSession]
  /\ UNCHANGED <<account, req>>

SessionExpires(t) ==
  /\ Live(t)
  /\ sessions' = [sessions EXCEPT ![t].expired = TRUE]
  /\ UNCHANGED <<account, req>>

\* The hourly sweep of main.go.
PurgeExpiredSessions ==
  /\ sessions' = [t \in Tokens |-> IF Live(t) THEN sessions[t] ELSE NoSession]
  /\ UNCHANGED <<account, req>>

PasswordExpires ==
  /\ account.expires = "valid"
  /\ account' = [account EXCEPT !.expires = "past"]
  /\ UNCHANGED <<sessions, req>>

CooldownEnds ==
  /\ account.cooling
  /\ account' = [account EXCEPT !.cooling = FALSE]
  /\ UNCHANGED <<sessions, req>>

HolderForgets ==
  /\ account.known
  /\ account' = [account EXCEPT !.known = FALSE]
  /\ UNCHANGED <<sessions, req>>

-----------------------------------------------------------------------------
\* CreateUser: a handover password set by an administrator.
Init ==
  /\ account \in [must_change : {TRUE}, expires : {"never"}, cooling : {FALSE},
                  disabled : {FALSE}, origin : {"admin"}, known : BOOLEAN]
  /\ sessions = [t \in Tokens |-> NoSession]
  /\ req = [r \in Requests |-> Idle]

Alone == \A r \in Requests : req[r] = Idle

\* The holder asks for a password when the one at hand does not open a session.
NeedsPassword == ~account.known \/ account.expires = "past"

Begin(r) ==
  \/ Authenticate(r)
  \/ LookupByEmail(r)
  \/ \E t \in Tokens : IdentifyChange(r, t)

\* Statements of a request that the store carries out.
Proceed(r) ==
  \/ \E t \in Tokens : CreateSession(r, t)
  \/ TouchSession(r)
  \/ VerifyCurrentPassword(r)
  \/ ChangePassword(r)
  \/ IssueOneTimePassword(r)
  \/ SuppressRepeat(r)
  \/ MailDelivered(r)

Next ==
  \/ \E r \in Requests : Begin(r) \/ Proceed(r) \/ Fail(r)
  \/ ResetUserPassword
  \/ \E disabled, moved \in BOOLEAN : UpdateUser(disabled, moved)
  \/ \E t \in Tokens : Logout(t) \/ SessionExpires(t)
  \/ PurgeExpiredSessions
  \/ PasswordExpires
  \/ CooldownEnds
  \/ HolderForgets

Spec == Init /\ [][Next]_vars

\* The mail brings a password that is still in force and has not expired.
MailInTime(r) ==
  At(r, "mailing") /\ ~req[r].wasted /\ account.expires = "valid"

\* Accepted requests end and time passes (weak fairness).  What the holder
\* tries again and again works at some point (strong fairness): asking for a
\* password, a mail in time, a login and its session, a change and its write.
Fairness ==
  /\ WF_vars(CooldownEnds) /\ WF_vars(PurgeExpiredSessions)
  /\ \A r \in Requests : WF_vars(Proceed(r) \/ Fail(r))
  /\ SF_vars(\E r \in Requests : NeedsPassword /\ LookupByEmail(r))
  /\ SF_vars(\E r \in Requests : IssueOneTimePassword(r))
  /\ SF_vars(\E r \in Requests : MailInTime(r) /\ MailDelivered(r))
  /\ SF_vars(\E r \in Requests : Authenticate(r))
  /\ SF_vars(\E r \in Requests, t \in Tokens : CreateSession(r, t))
  /\ SF_vars(\E r \in Requests, t \in Tokens : account.known /\ IdentifyChange(r, t))
  /\ SF_vars(\E r \in Requests : TouchSession(r))
  /\ SF_vars(\E r \in Requests : VerifyCurrentPassword(r))
  /\ SF_vars(\E r \in Requests : ChangePassword(r))

FairSpec == Spec /\ Fairness

\* What others do to the account, or the holder does without need.
Disturbance ==
  \/ ResetUserPassword
  \/ \E disabled, moved \in BOOLEAN : UpdateUser(disabled, moved)
  \/ \E t \in Tokens : Logout(t)
  \/ HolderForgets
  \/ \E r \in Requests : ~Alone /\ Begin(r)
  \/ \E r \in Requests : ~NeedsPassword /\ LookupByEmail(r)

-----------------------------------------------------------------------------
(* Properties *)

\* Type invariant: the row, the session rows and the progress of every request
\* of login, changePassword and forgotPassword stay well-formed, and only a
\* password change carries a session.
TypeOK ==
  /\ account \in Account
  /\ sessions \in [Tokens -> Session \cup {NoSession}]
  /\ req \in [Requests -> Request \cup {Idle}]
  /\ \A r \in Requests : req[r] # Idle =>
       (req[r].token \in Tokens <=> req[r].at \in {"identified", "touched", "verified"})

\* SetPassword and IssueOneTimePassword evict: whatever the order of resets,
\* changes and logins, no session that existed when a password was replaced is
\* in the table after it, but the one that chose the new password.
ReplacingEvicts ==
  \A t \in Tokens : sessions[t] # NoSession => sessions[t].proof # "eviction"

\* Behind passwordCurrent, a login that a reset overtook between Authenticate and
\* CreateSession opens a frozen session, and the change that lifts the freeze drops
\* it.  So a session that works stands on the password in force, or its login was
\* overtaken last by the holder's own change: that one the code lets through, also
\* when a reset came before the change.
FrozenUnlessChangedMeanwhile ==
  ~account.must_change =>
    \A t \in Tokens : sessions[t] # NoSession =>
                        sessions[t].proof \in {"in force", "change"}

\* must_change_password and password_expires_at follow who chose the password:
\* an account is frozen exactly while somebody else has seen its password, and
\* only a mailed password ever runs out.
FreezeFollowsThePassword ==
  /\ account.must_change <=> account.origin # "holder"
  /\ account.expires # "never" => account.origin = "mail"

\* The holder has a session that the freeze and LookupSession let through.
CanWork == ~account.must_change /\ ~account.disabled /\ \E t \in Tokens : Live(t)

\* With lost mails, expired passwords and sessions, failing statements and
\* cooldowns, the holder of an enabled account gets back to work without an
\* administrator, once others leave the account alone (forgotPassword, login,
\* changePassword).
HolderGetsBackIn ==
  <>[][~Disturbance]_vars => []<>(CanWork \/ account.disabled)
==============================================================================
