# Verification of cert-rotation-tracker

TLA+ models of the tracker under `src/`, TLC runs that check them on small instances, and proofs of the
main theorems for instances of any size. Everything is translated from the Go code with its SQL, and the page's JavaScript; the
repository's README is used only to know what the program promises. `PROJECT.json` maps every definition
to its lines and lists runs, mutants, findings, hazards and theorems.

## 1. Inventory

The tracker is one Go process on PostgreSQL with a Vue front end. Nothing in the process is shared
mutable state: HTTP handlers and the scheduler goroutine meet only in the database, where every store
operation is one transaction at READ COMMITTED. What can go wrong is therefore the order of transactions
and statements, state read before one transaction and used in a later one, and whatever lies between
a transaction and an action outside the database (sending an alert or a mail).

| component | state | operations | promises |
|---|---|---|---|
| review workflow (`store/certificates.go`, `renewals.go`, `deletions.go`) | certificates, renewals, deletion_requests, audit rows written in the transaction | create, update, transfer, restore; open / approve / reject / withdraw a renewal or a deletion | silencing takes two people; one successor per rotation; review queues hold only actionable requests; decisions are final; the audit log explains the row |
| its transactions (same files) | row locks, progress of each request | the same, statement by statement | as if one at a time; a failed request leaves nothing; every request ends |
| admin floor and start-up (`store/users.go`, `bootstrap.go`) | role and disabled state of accounts, process up or down | create and update accounts, first start, restart | an active admin always remains, so the process can start |
| reminder scan (`scheduler/scheduler.go`, `store/store.go`, `notify` Dispatch) | notifications_sent, last_notified_on, the scan's own copy of the rows | list, read, decide, send, record | nobody due is left out; nobody is alerted twice on a day, unless a scan runs past midnight; milestones fire once; failures are retried |
| escalation ladder and severity (`reminder/cadence.go`, `severity/severity.go`) | configuration, read once | Parse, IntervalFor, Classify, Rank | the tightest rung decides; urgency only climbs |
| accounts, passwords, sessions (`store/users.go`, `sessions.go`, `api/handlers_auth.go`, `api/api.go`) | users, sessions | sign in and out, one-time password, forced change, reset, disable | replacing a password ends every other session; a temporary password freezes the account; its holder gets back in |
| daily clock (`scheduler.go` nextRun, Start) | next run | wait, run | one scan a day at the configured time |
| page in the browser (`web/static/app.js`) | signed-in account, tab, lists, dialog, form, flags, requests in flight | sign in and out, switch tabs, open and submit dialogs, load lists | what is on screen is what was asked for, has the changes made here, and belongs to the account signed in; a button is disabled exactly while its request is out |
| audit queries, configuration, channels, crypto, packaging | - | - | - |

Interactions: an approval of either workflow closes the other one's open request on the same certificate;
a rotation or deletion takes a row out of the scan's list; an edited expiry date clears the scan's records;
demotion and disabling act on requests in flight only through what those read again.

The page keeps copies of the tables' rows and
learns of a change only by loading again.

Hard behaviours, by component: lock order and rollback (approvals), check-then-act across rows (admin
floor), a snapshot (and a day) that ages while alerts go out, a call that never returns, a crash or failure between send and record, two scans
at once (scan), two statements with a gap between them (sign-in, password change, reset), calendar
arithmetic (ladder, clock), answers that
arrive out of order, get lost, or arrive in the next session (page). `PROJECT.json` lists each
hazard at its line, with the properties that catch it, or a note where none does yet.

## 2. Modules

| module | models | notes |
|---|---|---|
| `Lifecycle` | the workflow, one step per transaction | the abstract specification of the store |
| `ReviewTx` | the same transactions, one step per statement that can wait | implements `Lifecycle` (`RefinesLifecycle`) |
| `AdminFloor` | UpdateUser by statements, CreateUser, Bootstrap, crash and restart | |
| `Cadence` | when an alert is due and how urgent an item looks, as operators | used by the next two |
| `ReminderScan` | RunOnce by its reads, sends and records; owners, days, faults | any number of scans at once |
| `DailyScan` | Start and nextRun in hours; ReminderScan's scan under them | composed with `ReminderScan`, which it extends |
| `Urgency` | Parse and normalize, an item that ages under a configuration | |
| `Accounts` | password, freeze and sessions of one account; logins, changes and mailed passwords by statements | |
| `Dashboard` | the page: every handler that talks to the server, up to each of its awaits | the server is what the page can tell of it |
| `LifecycleProofs`, `ReviewTxProofs`, `AdminFloorProofs`, `ReminderScanProofs` (with the daily loop), `CadenceProofs`, `UrgencyProofs`, `AccountsProofs`, `DashboardProofs` | theorems and proofs | |
| `MC...` | constants, bounds and symmetry of the runs | |

**Lifecycle.** A table is a function from ids to rows. Ids come from a BIGSERIAL, so an INSERT takes any
unused id; all ids of a run can be drawn, and then the run only edits and reviews. The pair of columns
`rotated_at`/`rotated_by` (and `deleted_...`, `reviewed_...`) is one field. `LockCertForWrite` is
lockCertForWrite, `LockRenewal`/`LockDeletion` the locked status checks, `NotSelf` ErrSelfReview, the partial
unique indexes are conjuncts of CreateRenewal and CreateDeletion. `trail` keeps, per certificate, the
audit rows that say why it is or is not live. Roles change at run time and the store trusts the
request's flag, so `Admins` is the set of accounts that may ever act as admin, and an admin may also act
as a plain user. Names, notes, channels, milestones and evidence are left out: no property of the workflow tells
them apart (the reminder columns are in ReminderScan).

**ReviewTx.** A transaction takes its locks in the code's order: request row, certificate row, then the
other workflow's requests it closes; an edit takes the certificate row only; an INSERT waits on an open
request that is being changed. PostgreSQL is external: row locks, waiting, newest committed version after a
wait, deadlock abort. Any statement may fail (`Fail`), which is the deferred Rollback. A transaction keeps what it is going to
commit in `writes` and `log`; `OwnWrites`, `NewRenewal`, `NewDeletion`, `RotationWrites`, `RemovalWrites` and `AndClosed` are what its
statements write. A `Circle` is a set of waiting transactions of which no smaller set waits for itself alone: the detector aborts a member of it.

**AdminFloor.** UpdateUser is LockRow (SELECT FOR UPDATE and the was/will-be-admin test), CheckFloor or
RefuseLastAdmin (assertOtherActiveAdminExists), Write (UPDATE, COMMIT). `RequestUpdate` is the handler. Startup is
Bootstrap: it creates an account on an empty table and otherwise exits unless there is an active admin.

**Cadence, ReminderScan.** Dates are distances to a fixed day in the tracker's timezone, which is what
DaysUntil and cadenceDue compute with; a scan keeps the day it started on even past midnight. So an alert has two days:
`day`, the calendar day on which it goes out, and `booked`, the day of its scan, under which it is recorded. Per scan: StartScan lists the live rows;
Skip, Decide and ReadFails are the first half of the loop body (the milestones are read now, the row is the
listed copy); Send is Dispatch over the reachable channels, each of which succeeds, fails, or delivers and
reports an error all the same; Record is the RecordNotification transaction, which does not look at the row
again; Finish, Cancel and Crash end a scan. Items are taken in any order (the code sorts by expiry
date; no property depends on it). Meanwhile Edit (UpdateCertificate with its clearing of the reminder
state), Retire, Restore and NextDay. `CalmSpec` is the system in which expiry dates are left alone while a scan is running. `mail`, `cycle` and `settled` are history: what went out, for which
expiry date, and which items a finished scan of today left unchanged behind it.

**DailyScan.** The loop of Start is a timer (`wait`, in hours) and the scan it starts; `nextRun` is computed when the process starts and
when a scan has ended. `hour` counts the hours since local midnight, `length` those of the day, so that on a day of 23 or 25 hours the local run
time is at another `hour` (`RunsToday`; time.Date does not say which reading of an ambiguous time it takes, so both are possible), while
run.Add(24h) is always `Hours` later. A scan may go on for any number of hours, also across midnight
and past the next run, and it may hang for good: `Hang` is a call without a deadline that never returns (every database call, and SMTP,
whose `deliver` sets none; the Teams client gives up after 15 seconds), possible wherever `NoDeadline` says that the scan makes one. A restart forgets the timer and nothing else: there is no record of the last run.

**Urgency.** A value of REMINDER_ESCALATION is a sequence of parts, numbers or blank; Atoi's rejection
of non-numbers happens before. `Rungs` keeps the rungs at their places among the parts; `normalize` sorts them by threshold, the
place of a rung on the ladder being the number of rungs within it.

**Accounts.** One account is enough: every statement is keyed by an account id or a session token. Requests are
split where the code has no transaction: Authenticate / CreateSession (login); IdentifyChange / TouchSession /
VerifyCurrentPassword / ChangePassword (changePassword, whose route is exempt from the freeze); LookupByEmail /
IssueOneTimePassword or SuppressRepeat / MailDelivered (issueReset). `SetPassword` is shared by the change and
by ResetUserPassword, as in the code. A password is modelled by its standing: a login and the session it opens
carry whether the password they were let in with is in force and, if not, what replaced it last (`proof`). `origin` and
`known` are history too: who set the password, and whether the holder knows it. A failed step (`Fail`) leaves what
earlier statements committed. The account starts as CreateUser leaves it.

**Dashboard.** JavaScript is single-threaded: a handler runs up to its next await, and that is a step. A
handler in flight is a task. `Click` is a handler up to its request (the button must be on screen and not disabled:
`Places`, `Shown`, `Clickable` are the template's v-if and :disabled); `Serve` is the server; `Answer...` is the rest, up to
the lists it loads; `ServeRead` and `Arrive` are one request for a list each, which overlap within a task
(Promise.all) and between tasks. The twenty handlers that send one request are records (where the button is, its flag,
the dialog a success closes, the lists it changes and the lists it loads), because that is all in which they
differ; `doLogin`, `doLogout`, `onMounted` (loadSession), `submitFirstPassword`, `submitPassword` and `requestReset`
have an action of their own for the answer. loadAll is the chain configuration, lists, audit log (`NextPart`, `more`). Handlers that
only load are `switchView`, `toggleDeleted`, `setAuditCategory`, `openHistory`; those that stay on the page are `openCreate`,
`openEdit`, `OpenDialog`, `CloseDialog`, `openForgot`, `closeForgot`. Rows are abstracted to what is wrong with them: `behind`
holds the reasons for which they differ from what the server would answer now, as far as this page caused them. `newest`
is history: whether rows answer the last request for their list. The faults are a request that fails, an answer that is lost,
a session that ends, and the reload button.

## 3. Runs

| run | instance | shows |
|---|---|---|
| `workflow` | 2 accounts, 3 certificates, 2 renewals, 2 deletions | types, review queues, exact rotations, one way out, four eyes, inherited kind, audit trail, final decisions, frozen history, the inductive invariant |
| `concurrent_requests` | 2 transactions, a token and its replacement, fair | every commit is one step of Lifecycle, only the two approvals of one certificate deadlock, every request ends, deadlocks included |
| `admin_floor` | 3 accounts, one change at a time | the floor holds through failures and restarts; the service comes back |
| `overlapping_demotions` | 3 accounts, 2 changes | violated: section 5 |
| `scan_alerts` | 1 item, days 0 to 5, expiry 2 or 4, 3 rungs, 4 alerts | a second alert of a cycle on one calendar day only for a new milestone, or when midnight overtook the scan that sent the first; each milestone and the expiry announced once |
| `scan_faults` | 2 items, no channel or two, days 0 to 3, 2 alerts, all four kinds of failure | one item's failure keeps no other from its alert; milestones used up only by alerts that every channel took; nobody waits longer than the rung |
| `scan_recovers` | 1 item, on Teams or on mail, 2 days of 3 to 5 hours, every run time and first start, a restart, scans of any length that may hang, fair | the loop scans once a day at its hour unless clocks change, misses no day, scans twice at most when they do (but see section 5); an item on the ladder is eventually alerted unless a call hangs for good |
| `overlapping_scans`, `edited_mid_scan` | 1 item, 2 scans; 1 item, 1 scan | violated: section 5 |
| `urgency` | every ladder of up to 3 parts over thresholds -1, 0, 2, 4 and intervals 0 to 3, blanks; 81 combinations of cutoffs, in and out of order | the tightest rung wins, a ladder that tightens never repeats less often, urgency only climbs |
| `passwords_and_sessions` | 2 requests in flight, 2 sessions, fair | whatever overlaps, a replaced password leaves no session behind but the one that replaced it; a login overtaken by a reset gets a frozen session, unless the holder changes the password before the session is there (section 5); the freeze follows who chose the password; the holder gets back in |
| `dashboard` | 2 handlers in flight, 4 of 6 lists, every button, every fault, 3 clicks, reloads or ends of a session | a settled screen is right, the form belongs to its dialog, busy means in flight, no double submit |

Bounds and why they are enough. `OneLineOrTwoRows` bounds the table of `workflow`: one line of up to three
rows with two requests of each kind, or two unrelated rows with one. Two renewals on one line are the least in which a line could fork or a kind
could be lost; two deletions the least in which a restore could leave an older reason behind; two
unrelated rows the least in which a step could act on the wrong one. Two requests and two sessions are the least in
`passwords_and_sessions` in which one request overtakes another and a session other than the changing one exists;
the proofs of section 4 lift these bounds for the invariants they cover. The workflow's
locks are about one certificate, so two transactions show every order of two; that more of them change nothing is what `ReviewTxProofs`
proves, for everything but liveness. `OnFirst` keeps the requests of that run on one
token that alice, who is no admin, enters by hand, or on a request about it; the second row is its replacement, or a second token that leaves no id for one.
In `dashboard` two handlers in flight are the least in which one overtakes another, and three clicks the least in which
a dialog is opened, submitted, and opened again while the answer is out; first loads and all answers come on top. `users` and
`deletions` are handled as `renewals` is and are not followed there; tabs and dialogs that lead to nothing that is followed or
offered are left out (`Offered`, `switchView`). In the
scan runs the shipped ladder (10:1, 30:3, 45:5) is scaled to 1:1, 3:2, 5:3, which keeps an item for several
days on each rung; LastDay takes an item past its expiry. `MaxCycle`
bounds how often an expiry date changes (one change is enough to mix two cycles), `MaxAlerts` (a state constraint) how
many alerts a run looks at, over all items. `OneNight` lets a scan go on past one midnight, not past a second; two alerts on one day
need one midnight. `scan_recovers`
scales a day to four hours, the second of which is skipped or repeated: enough for a run time before, in and after it, in the first and in the last hour.
Clocks do not change on two days in a row. There `MaxAlerts` is 1, which is sound for its property:
only states in which the alert has been sent are cut off, and there the goal has been reached.
`ExpiryStaysDuringScans` (in `scan_alerts`) keeps expiry dates from changing while a scan is running, and
`scan_faults` changes none; with such a change in the middle of a scan the properties fail, which
`edited_mid_scan` shows. Everything else about an item may change at any moment. The passing scan runs have one
scan at a time; two are the subject of `overlapping_scans`. Symmetry is used where ids and names carry no
meaning, with invariants and step properties (`RefinesLifecycle`, `RotatedIsFrozen` and the like are symmetric in
the permuted ids), never with a liveness property. Deadlock checking is off only in `urgency`, whose days end, and in
`dashboard`, whose clicks are bounded.

Fairness. `concurrent_requests`: every transaction that can move, does (a goroutine per request; that PostgreSQL ends every
statement is assumed, for the code sets no limit), and PostgreSQL resolves every deadlock. `ServiceComesBack`: docker-compose restarts the process
(`restart: unless-stopped`). `scan_recovers`: time passes (strong, as a loop that scans back to back
would otherwise stop it); that the loop comes round follows from its timer and is not assumed. A scan in progress goes
on and the process is restarted (weak fairness), but nothing keeps a call from hanging: only the Teams client has a timeout. SMTP
(notify.go:254-308) and the database calls have none, so `Hang` may happen at any of them, a loop that hangs takes no step until the process dies, which
nothing promises, and `DueIsAlerted` claims nothing of a behaviour that ends that way (`[]hung`). A channel and a database that are tried again and again
work at some time (strong fairness). `passwords_and_sessions`: requests end (weak fairness; one whose mail hangs has failed as far as the account
is concerned, for it holds no lock then and stops no other), and what the holder keeps
trying, a login, a change, a request for a password and a mail in time, works at some time (strong fairness).
`HolderGetsBackIn` promises nothing while others keep interfering, so it assumes that `Disturbance` stops: resets and
account edits by administrators, needless requests for a password, logouts, a forgotten password, and requests that
overlap. Sessions, passwords and cooldowns go on running out. Two of its assumptions are about time: a mail arrives before its password
expires (30 minutes by default) and before the next one is issued (the cooldown, 120 seconds).
`Dashboard` has no fairness and no liveness: nothing makes a person click, and a request may stay out for as long as the browser lets it.

## 4. Proofs

All proofs are checked by TLAPS, from the named assumptions of the modules: `Admins` are accounts, the null
values are none of the values they stand for, the markers of absent rows and tokens are no rows and no tokens, cutoffs are integers,
expiry dates are integers, milestones are days (not negative, which is what keeps them apart from the mark of the expiry), rungs repeat after one day or more (Parse),
a value of REMINDER_ESCALATION is a sequence of rungs and blanks, and the shipped ladder ascends (`DefaultRules`).

*Lifecycle.* `IInv` is inductive: types, foreign keys, one open request per certificate and workflow, open
requests on live certificates, and the safety properties themselves. The properties are not inductive alone.
Approving a renewal withdraws the deletion requests of the certificate; that no renewal request is left on it needs
the one being approved to be the only open one. A new row starts without history because
foreign keys keep anything from pointing at an unused id. `RotationIsExact` and `FourEyes` lean on decided
requests never changing. One lemma per operation proves the step, on `References`, `FreshCert` and `AuditedLast`. From
it follow `TypeCorrect`, `InvariantHolds`, `SuccessorIsUnique`, `SilencingTakesTwo`, `ReviewQueueIsActionable`, `OneWayOut`,
`AuditExplains`, `KindIsInherited`, and the action properties `DecisionsAreFinal` and `HistoryIsFrozen`.

*ReviewTx.* For any number of concurrent requests, rows and accounts: `TypeCorrect`; `Refinement`, that the transactions implement
`Lifecycle`; `WorkflowIsSafe` and `HistoryIsFinal`, the properties of Lifecycle carried over to concurrent requests; and `OnlyApprovalsBlock`, that
every circle of waits is one approval of each kind on one certificate. Ids of the three tables are assumed to differ
(`IdsAssumption`; they come from three sequences, and the model tells tables apart by them).
The invariant says what the row locks are for. Locks are exactly the rows that the progress of a transaction entitles it to (`Held`,
`LocksAreHeld`): its own, for an approval the certificate, and at the end the requests it closes. No two transactions write one row
(`WritesAreApart`). And a transaction past its first statement is still in order (`InOrder`): what it checked still holds, and its writes
are those of its operation, computed from rows as they are now and not as they were when it read them (`Written`).
`WritesAreHeld` says that what exists and is written is locked; hence `Bystander`: whatever another transaction commits, the rows this one relies on are
unchanged, which is where check-then-write would go wrong. The one check that rests on rows nobody has locked is the INSERT's; there the
certificate's lock is what keeps a second request away (`InsertStep`), and a commit opens a request only under it (`CommitFrame`). One lemma per statement (`LockTargetStep`, ...)
then proves the invariant, and a lemma per kind of commit (`CertCommit`, `ReviewCommit`, `CreateCommit`, `RotationCommit`, `RemovalCommit`) that it is one
step of `Lifecycle`; all the other steps leave the tables alone (`NobodyMoves`). Lifecycle's own invariant is part of it: that closing
"the other workflow's open requests" touches no row of the approval itself, and that the certificate exists, come from there. For deadlocks, an
edit waits with nothing locked (`NobodyWaitsForANewcomer`), and an INSERT waits only for a transaction that waits for nobody (`InsertWaitsForCommit`), so a circle has approvals in it alone, and they pair up
(`CircleIsAPair`). This proof corrected the model: `Circle` used to let two circles that have nothing to do with each other count as one,
for which the property is false with four requests.

*AdminFloor.* Types for any number of overlapping requests; `IInv` and with it `FloorHolds` as long as the requests in flight that
leave their account no active admin are all about one account (`OneAccount`, a hypothesis on the behaviour: `FloorHoldsUnlessTwoFall`); all others may overlap
as they like. The invariant adds that a request past its check which is about to take an
active admin away leaves another one, and that one request at a time is past the lock of a row (`RowLocks`), so that of two that are about
one account the second reads what the first has written. With two accounts it is not inductive, and `overlapping_demotions` shows that the
property itself fails: theorem and run together say exactly what the lock in UpdateUser is good for. `FloorHoldsOneAtATime` is the case the run
`admin_floor` checks.

*ReminderScan.* Each theorem has the hypotheses it needs, and they say what the property costs:

| theorem | scans at once | failures | expiry dates |
|---|---|---|---|
| types | any number | any | at any moment |
| `RecordsAreTrue` (`RecordedMeansAlerted`) | any number | any | kept during scans (`CalmSpec`) |
| `NobodyIsLeftBehind` (`NothingLeftBehind`) | one (`OneScan`) | any | at any moment |
| `GapsAreShort` (`NoSilentGap`) | one | any | kept during scans |
| `SecondAlertsCrossMidnight` (`TwiceOnlyPastMidnight`), `OneAlertPerMilestone` | one | none but a cancelled scan (`Undisturbed`) | kept during scans |

`RecordedMeansAlerted` needs that an alert which is to be recorded is in the mail (`SentBeforeRecorded`), that somebody could be reached
(`HasChannel`), and that a copy is of its row's cycle (`OwnCycle`). `NothingLeftBehind` says something of finished scans only; inductive is
what a scan knows on the way: items it has yet to do have the clock they were listed with (`Untouched`), what it found due still is
(`DueIsCurrent`), what it is done with is not due (`Handled`), unless the item began a new cycle; and a scan that runs past midnight
leaves nothing in order (`PastMidnight`). `NoSilentGap` follows as soon as clocks are those of alerts (`LastMeansAlerted`). That
nobody is told twice rests on `AlertsCount`: from the moment it is sent, an alert accounts for its day and for every milestone that had passed, in the
table or in the hand of the scan that will record it. A failure between the two loses that, which is why the code sends again.
The day it accounts for is the one it is booked under. `LaterDayOrNew` is what that gives: of two alerts of a cycle the later is booked under a later day, or is
for a new milestone. That speaks of calendar days only because no alert is booked under a day to come (`SentSinceBooked`): if both go out on one day,
the first one's scan had started on an earlier one (`LaterDayMeansMidnight`). Without midnight in between, "never twice a day" is what is left. `RowMoves`, `MailMoves` and `ScanAdvances` argue once
for all steps what a step may do to a row, to the mail and to a scan.

*DailyScan* (in `ReminderScanProofs`). `DailyIsAScan`: the behaviours of the daily loop, its clock and the restarts are behaviours of ReminderScan, whose theorems
hold for it; `DailyScanLeavesNobodyBehind` is one of them, for a loop without checks by hand.
`DailyRunsAreDaily` and `NoDayWithoutScan` (`ScansAreDaily`, `NoDayIsMissed`) hold for every run time, every hour at which clocks change and any number
of restarts, of long scans and of scans that hang. They are action properties: what makes them inductive is to say, at every hour, when the waiting loop's timer
will fire, counted from midnight (`ClockInv`). On a day of the usual length it fires before midnight or is set to tomorrow's run, on another not before
the earliest reading of today's run and not beyond the next day (`TimerIsSet`); on a usual day after a usual one it is set to the run of today before it, of
tomorrow after it (`UsualDay`); after one scan on another day there is at most a later reading of the same local time to come, after two nothing but the
25th hour (`AnyDay`); and a day that began with the loop waiting has had its scan or still has it before it (`WholeDay`). `NewTimer` is what nextRun
promises of all this when it sets the timer; `ClockStep` carries it over midnight, where the lengths of two days meet.

*Urgency.* `SeverityOnlyClimbs`: Rank after Classify never falls as days go by, for any cutoffs in any order. `TheTightestRungWins`
and `RemindingNeverSlowsDown` hold for every value of REMINDER_ESCALATION that Parse accepts, of any length. Parse refuses a
threshold that occurs twice, so the positions of the rungs are an injection into as many places, hence a bijection, and
`normalize` is an ascending ladder of the configured rungs (`NormalizeSorts`); the first rung that matches on such a ladder is the tightest
(`FirstRung`, `TightestOfAccepted`). The days are integers without a width: Atoi's are 64 bits wide and nothing is added to them.

*Dashboard.* `FormIsItsDialogs`, `BusyIsInFlight`, `SubmittedOnce` and the types, for any number of items and handlers in flight. That
flags and handlers agree is inductive only with more: a flag is set exactly while a handler that has it is in flight, and two handlers
never have the same one (`FlagsMatch`, `NoDoubleSubmit`); a spinner has a handler that is loading the cards or has this before it, or a
screen that hides it (`SpinnerWaits`, `BootIsRunning`); and only handlers that have come to their lists have reads out
(`OnlyReadersRead`). `ProceedInv` and `AnswerInv` argue once for what all the handlers share.
`SettledIsRight` (`SettledScreenIsRight`) is about requests that overtake each other, and needs to be said of states that are not
settled (`RowsAreRight`): of every list that can be on screen, the rows that were asked for last, shown already or still under way, are of what
the page would ask for now and lack nothing but what is excused, or a change whose handler has its answer and will load the list
(`Promised`); or the list is about to be asked for anyway (`Coming`: loadAll has it next, or the audit log at its end). Nothing is claimed of
older rows, nor of lists that the page shows nobody (signed out, first password, audit log of an account that is no admin). A step either asks for
a list (`Fresh`, `FreshIsRight`) or leaves its rows no worse than they were (`Kept`, `KeptIsRight`), and that handlers load all the
lists in which the server has changed rows (`ChangesAreLoaded`) is where the proof depends on the table of handlers.

*Accounts.* `ReplacementEvicts`, `OvertakenLoginsAreFrozen`, `FrozenUntilChosen` and the types, for any number of
sessions and requests. Sessions alone are not inductive, because a session inherits the standing of a login that was
checked earlier: `LoginStanding` says of the logins in flight what is claimed of the sessions:
while the account is not frozen, none of them was overtaken last by a reset. `ReplaceStep` is the
one argument for the three ways to replace a password, `QuietStep` the one for everything that leaves it alone.

Only model-checked: the liveness properties (`EveryRequestEnds`, `ServiceComesBack`, `DueIsAlerted`, `HolderGetsBackIn`), because fairness and ENABLED are outside
the prover's reach.

## 5. Findings

* `overlapping_demotions`: two overlapping changes of two different admins lock different rows and count each
  other (users.go); both commit and no active admin is left. The comment there claims the opposite.
* `overlapping_scans`: the daily scan and "Run check now" (or two of the latter) both find an alert due and both
  send it. README: "you are never spammed twice in a day".
* `edited_mid_scan`: an expiry date changed between listing and recording; the new cycle starts with the
  old one's milestones and clock. README: "so the new cycle starts fresh".

Three more things of the scan and the sign-in are findings without a run of their own; in each the property that passes states the exception:

* *Twice on a day, past midnight.* RunOnce reads the day once (scheduler.go:82-83), books every alert under it, and may deliver after midnight; the scan of the new
  day, for which a day has passed since the booked one, alerts for the same item again on that calendar day. One scan at a time, nothing failing. README:23-25 promises
  "never spammed twice in a day". `NeverTwiceADay` is violated by this in `MCScanAlerts.cfg` when it takes the place of `TwiceOnlyPastMidnight`, whose last
  disjunct is this case.
* *A relay that never answers.* `deliver` (notify.go:254-308) sets no deadline, nor do the database calls. A relay that accepts a connection and stays silent stops
  the scheduler's only goroutine, without an error or a log line, until the process is restarted: no item is alerted any more, also none that is on Teams alone, against README:21-22 ("A failure in one channel never blocks the other").
  `DueIsAlerted` fails without `[]hung`.
* *A login that outlives a reset.* A login checks the old password; an administrator resets it; the holder signs in with the temporary one and changes it; only then does the first
  login insert its session (handlers_auth.go, CreateSession looks at nothing). That session works, on a password that was reset. A change alone in between has the same effect.
  `FrozenUnlessChangedMeanwhile` allows exactly the logins that such a change overtook last, and no others.

One thing the model of accounts makes visible and does not count as an error: a password change verified
before a reset commits overwrites the reset. A comment in issueReset says that a mail that cannot be sent locks the account until an
administrator resets it; `HolderGetsBackIn` shows that asking again after the cooldown is enough.

Smaller disagreements that the models show when their bounds are set for it, without a run of their own: if one of two channels
fails nothing is recorded, so every further scan of the day repeats the alert on the channel that worked
(`MCScanOverlap.cfg` with one scan, both channels and `Faults = {"channel"}`); a scan still alerts for an item that was retired after it was
listed; a ladder such as `0:2,4:1` is accepted, and then an expired item repeats less
often than before, against the comment on IntervalFor (`NeverSlowsDown` without `Tightens`).

When clocks change, the loop does not keep to "the configured time" (comment on Start, scheduler.go:41; README:125 says daily); each is an
exception the properties of `DailyScan` had to make:

* nextRun adds 24 hours to a local time, so the scan before a day of 23 hours puts the next one an hour late, and the one before a day of 25 hours an hour
  early, with a second one on time (`ScansAreDaily` only on usual days).
* With a run time in the first hour, 00:30 say, the day of 25 hours ends in back-to-back scans: from 23:30 on today's run plus 24 hours is not
  after now, and Start waits a negative time until midnight (the exception of `ScansAreDaily`).
* With a run time in the last hour, the day of 23 hours has no scan (`NoDayIsMissed`).

On the page, likewise without a run of their own; each is a state `SettledScreenIsRight` has to leave out (`Excused`,
`newest`) or a consequence of `Answer...`:

* An approval closes the other workflow's open request on the certificate but reloads only its own queue
  (approveRenewal, approveDeletion): the other queue offers a review that the server will refuse, until the next load, against the comment
  on myReviewQueue ("Requests this user is allowed to action").
* When two requests for one list overlap, the last answer wins, not the last request (loadCerts, loadAudit, openHistory):
  the deleted rows may be shown as the section closes, one item's history under another one's title.
* A late denial, or the late answer of a logout, ends the session that was started after it was sent.
* A 401 on a password change is told in the dialog, against the comment above the session guard ("expired session always lands on
  the login screen"), because a wrong current password is a 401 too. A 401 elsewhere keeps lists and dialogs until the next load; the
  history dialog survives even a sign-out.
* A success closes whichever dialog of its kind is open by then, also one opened for another item.
* A create whose answer is lost is told as an error; submitting again makes a second certificate.
* A list that cannot be loaded looks like an empty one.
* Nothing ties a page to the one before a reload: a request that was out may still be carried out, and sent again. The model takes a request that `Reload` drops before it is
  served as never sent, so `NoDoubleSubmit` speaks of one page, not of the next.

## 6. Not modelled, and the plan

Left out for good: password hashing and tokens (bytes), HTTP and SMTP clients and message texts (I/O and wording),
configuration and wiring (constants of the models), static files, vendored Vue, packaging, and the one-time
back-fill statements of the migrations. Of the page: menus, search and filters over loaded rows, toasts, formatting, the mode without
sign-in (AUTH off), what the server does with a request that a reload has dropped, and two tabs of one browser, which share the cookie.

Planned, in this order:

1. Accounts and the rest: a handler that writes on the identity it read (disabled, demoted or frozen since), and a transfer
   to an account that is disabled before the transfer commits, by composing Accounts, AdminFloor and Lifecycle.
2. Proofs: the safety of that composition. Of what the runs check today only liveness is without a theorem.
