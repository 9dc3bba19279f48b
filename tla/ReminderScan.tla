----------------------------- MODULE ReminderScan -----------------------------
(***************************************************************************)
(* The reminder scan: the daily loop and the "Run check now" requests, all *)
(* of them executions of RunOnce, against owners who edit, retire and      *)
(* restore items meanwhile, channels that fail and a process that dies.    *)
(*                                                                         *)
(* A scan lists the live items once and works on that copy.  Per item it   *)
(* reads the recorded milestones, decides, sends, and records: each of     *)
(* these touches shared state once and is a step.  Nothing excludes two    *)
(* scans from each other, or an edit from a scan.                          *)
(*                                                                         *)
(* mail, cycle and settled are history: what recipients got, how often an  *)
(* expiry date was changed, and what a finished scan left in order.        *)
(***************************************************************************)
EXTENDS Cadence

CONSTANTS
  Certs,           \* items
  Scans,           \* scans that may be in progress at once
  Rules,           \* REMINDER_ESCALATION, parsed
  Expiries,        \* expiry dates
  MilestoneSets,   \* choices of reminder_days
  ChannelSets,     \* choices of channels: sets of "teams" and "email"
  EmailEnabled,    \* is SMTP configured?
  Faults,          \* kinds of failure: "channel", "database", "cancel", "crash"
  LastDay,         \* bound: the last day of a run
  MaxCycle         \* bound: how often an expiry date is changed

ASSUME RulesAssumption == Rules \in Seq([within : Nat, every : Nat \ {0}])
ASSUME DatesAssumption == Expiries \subseteq Int /\ LastDay \in Nat /\ Never \notin Nat
ASSUME MilestonesAssumption == MilestoneSets \subseteq SUBSET Nat
ASSUME MaxCycleAssumption == MaxCycle \in Nat

VARIABLES
  day,        \* today in the tracker's timezone
  certs,      \* table certificates, its reminder columns
  notified,   \* table notifications_sent, per item
  scan,       \* per scan, its progress
  mail,       \* history: alerts that reached somebody, per item
  settled     \* history: items that a scan of today left in order, unchanged since

vars == <<day, certs, notified, scan, mail, settled>>

Days == 0..LastDay
Thresholds == (UNION MilestoneSets) \cup {expiredSentinel}
CertRow ==
  [expiry : Expiries, reminder_days : MilestoneSets, channels : ChannelSets,
   status : {"live", "rotated", "deleted"}, last_notified_on : Days \cup {Never},
   cycle : 0..MaxCycle]

\* A scan in progress: its day and its copy of the rows, what is left of them,
\* the item it is alerting for and the milestones this consumes.
Listings == UNION {[listed -> CertRow] : listed \in SUBSET Certs}
Progress ==
  [step : {"next", "send", "record"}, today : Days, rows : Listings, todo : SUBSET Certs,
   failed : SUBSET Certs, at : SUBSET Certs, due : SUBSET Thresholds]
Fits(k) ==
  /\ k.todo \cup k.failed \subseteq DOMAIN k.rows
  /\ IF k.step = "next" THEN k.at = {} ELSE \E c \in k.todo : k.at = {c}

\* An alert that reached somebody: the day it went out on, the day of the scan it is
\* booked under, and whether every channel took it.
Alert ==
  [cycle : 0..MaxCycle, day : Days, booked : Days, milestones : MilestoneSets,
   consumed : SUBSET Thresholds, whole : BOOLEAN]

Idle == [step |-> "idle"]
Scanning(s) == scan[s] # Idle

-----------------------------------------------------------------------------
(* Helpers *)

\* ListLiveCertificates.
ListLive == {c \in Certs : certs[c].status = "live"}

\* Channels that an alert for this row goes to.
Reachable(row) == {ch \in row.channels : ch = "email" => EmailEnabled}

\* A new expiry date starts a new reminder cycle with a fresh clock.
NewCycle(row, expiry) ==
  [row EXCEPT !.expiry = expiry, !.last_notified_on = Never, !.cycle = @ + 1]

\* The scan is done with the item it is at.
Past(k, c, failed) ==
  [k EXCEPT !.step = "next", !.at = {}, !.due = {},
            !.todo = @ \ {c}, !.failed = @ \cup failed]

Advance(s, c, failed) == scan' = [scan EXCEPT ![s] = Past(scan[s], c, failed)]

-----------------------------------------------------------------------------
(* One scan *)

StartScan(s) ==
  /\ ~Scanning(s)
  /\ scan' = [scan EXCEPT ![s] =
       [step |-> "next", today |-> day, rows |-> [c \in ListLive |-> certs[c]],
        todo |-> ListLive, failed |-> {}, at |-> {}, due |-> {}]]
  /\ UNCHANGED <<day, certs, notified, mail, settled>>

\* The decision is made on the listed copy and the milestones recorded by now.
DueNow(s, c) == AlertDue(Rules, scan[s].rows[c], notified[c], scan[s].today)

\* Nothing is due, or there is nowhere to send it: not marked.
Skip(s, c) ==
  /\ Scanning(s) /\ scan[s].step = "next" /\ c \in scan[s].todo
  /\ ~DueNow(s, c) \/ Reachable(scan[s].rows[c]) = {}
  /\ Advance(s, c, {})
  /\ UNCHANGED <<day, certs, notified, mail, settled>>

Decide(s, c) ==
  /\ Scanning(s) /\ scan[s].step = "next" /\ c \in scan[s].todo
  /\ DueNow(s, c) /\ Reachable(scan[s].rows[c]) # {}
  /\ scan' = [scan EXCEPT ![s] =
       [@ EXCEPT !.step = "send", !.at = {c},
                 !.due = DueMilestones(scan[s].rows[c], notified[c], scan[s].today)]]
  /\ UNCHANGED <<day, certs, notified, mail, settled>>

\* SentThresholds fails: on to the next item.
ReadFails(s, c) ==
  /\ "database" \in Faults
  /\ Scanning(s) /\ scan[s].step = "next" /\ c \in scan[s].todo
  /\ Advance(s, c, {c})
  /\ UNCHANGED <<day, certs, notified, mail, settled>>

AfterSendIgnoringErrors(s, c, errs) ==                     \* mutant
  scan' = [scan EXCEPT ![s].step = "record"]

AfterSendStopping(s, c, errs) ==                           \* mutant
  IF errs = {} THEN scan' = [scan EXCEPT ![s].step = "record"]
  ELSE scan' = [scan EXCEPT ![s] = [@ EXCEPT !.step = "next", !.at = {}, !.due = {},
                                             !.todo = {}, !.failed = {c}]]

\* Any channel that failed means: not marked, on to the next item.
AfterSend(s, c, errs) ==
  IF errs = {} THEN scan' = [scan EXCEPT ![s].step = "record"]
  ELSE Advance(s, c, {c})

\* What an alert adds to the mail: a scan that began yesterday still books yesterday.
NewAlert(s, c, errs) ==
  [cycle |-> scan[s].rows[c].cycle, day |-> day, booked |-> scan[s].today,
   milestones |-> scan[s].rows[c].reminder_days, consumed |-> scan[s].due,
   whole |-> errs = {}]

\* Dispatch: every channel is tried, and may have delivered what it reports as
\* an error.
Send(s) ==
  /\ Scanning(s) /\ scan[s].step = "send"
  /\ \E c \in scan[s].at : \E delivered, errs \in SUBSET Reachable(scan[s].rows[c]) :
       /\ delivered \cup errs = Reachable(scan[s].rows[c])
       /\ errs # {} => "channel" \in Faults
       /\ mail' = IF delivered = {} THEN mail
                  ELSE [mail EXCEPT ![c] = Append(@, NewAlert(s, c, errs))]
       /\ AfterSend(s, c, errs)
  /\ UNCHANGED <<day, certs, notified, settled>>

RecordInOtherZone(s) ==                                    \* mutant
  /\ Scanning(s) /\ scan[s].step = "record"
  /\ \E c \in scan[s].at :
       /\ notified' = [notified EXCEPT ![c] = @ \cup scan[s].due]
       /\ certs' = [certs EXCEPT ![c].last_notified_on = scan[s].today + 1]
       /\ Advance(s, c, {})
  /\ UNCHANGED <<day, mail, settled>>

\* RecordNotification, whatever became of the item meanwhile.
Record(s) ==
  /\ Scanning(s) /\ scan[s].step = "record"
  /\ \E c \in scan[s].at :
       /\ notified' = [notified EXCEPT ![c] = @ \cup scan[s].due]
       /\ certs' = [certs EXCEPT ![c].last_notified_on = scan[s].today]
       /\ Advance(s, c, {})
  /\ UNCHANGED <<day, mail, settled>>

RecordFails(s) ==
  /\ "database" \in Faults
  /\ Scanning(s) /\ scan[s].step = "record"
  /\ \E c \in scan[s].at : Advance(s, c, {c})
  /\ UNCHANGED <<day, certs, notified, mail, settled>>

\* What this scan leaves in order: it got through, could be reached, and the
\* row is still the listed one (recording changes only last_notified_on).
InOrder(s) ==
  {c \in DOMAIN scan[s].rows \ scan[s].failed :
     /\ Reachable(scan[s].rows[c]) # {}
     /\ certs[c] = [scan[s].rows[c] EXCEPT !.last_notified_on = certs[c].last_notified_on]}

Finish(s) ==
  /\ Scanning(s) /\ scan[s].step = "next" /\ scan[s].todo = {}
  /\ settled' = IF scan[s].today = day THEN settled \cup InOrder(s) ELSE settled
  /\ scan' = [scan EXCEPT ![s] = Idle]
  /\ UNCHANGED <<day, certs, notified, mail>>

\* The context is done between two items: shutdown, or the caller hung up.
Cancel(s) ==
  /\ "cancel" \in Faults
  /\ Scanning(s) /\ scan[s].step = "next" /\ scan[s].todo # {}
  /\ scan' = [scan EXCEPT ![s] = Idle]
  /\ UNCHANGED <<day, certs, notified, mail, settled>>

-----------------------------------------------------------------------------
(* Meanwhile *)

\* UpdateCertificate writes all columns, and clears the reminder state if the
\* expiry date is a new one.
Edit(c, expiry, milestones, channels) ==
  LET row == [certs[c] EXCEPT !.reminder_days = milestones, !.channels = channels]
  IN /\ row.status = "live"
     /\ \/ /\ expiry = row.expiry
           /\ certs' = [certs EXCEPT ![c] = row]
           /\ UNCHANGED notified
        \/ /\ expiry # row.expiry /\ row.cycle < MaxCycle
           /\ certs' = [certs EXCEPT ![c] = NewCycle(row, expiry)]
           /\ notified' = [notified EXCEPT ![c] = {}]
     /\ settled' = settled \ {c}
     /\ UNCHANGED <<day, scan, mail>>

\* A rotation or a deletion is approved.
Retire(c, status) ==
  /\ certs[c].status = "live"
  /\ certs' = [certs EXCEPT ![c].status = status]
  /\ settled' = settled \ {c}
  /\ UNCHANGED <<day, notified, scan, mail>>

Restore(c) ==
  /\ certs[c].status = "deleted"
  /\ certs' = [certs EXCEPT ![c].status = "live"]
  /\ settled' = settled \ {c}
  /\ UNCHANGED <<day, notified, scan, mail>>

NextDay ==
  /\ day < LastDay
  /\ day' = day + 1
  /\ settled' = {}
  /\ UNCHANGED <<certs, notified, scan, mail>>

\* The process dies, with every scan in it.
Crash ==
  /\ "crash" \in Faults
  /\ scan' = [s \in Scans |-> Idle]
  /\ UNCHANGED <<day, certs, notified, mail, settled>>

-----------------------------------------------------------------------------
(* Specification *)

\* Items as CreateCertificate inserts them.
Init ==
  /\ day = 0
  /\ certs \in [Certs -> {row \in CertRow : /\ row.status = "live"
                                            /\ row.last_notified_on = Never
                                            /\ row.cycle = 0}]
  /\ notified = [c \in Certs |-> {}]
  /\ scan = [s \in Scans |-> Idle]
  /\ mail = [c \in Certs |-> <<>>]
  /\ settled = {}

ScanStep(s) ==
  \/ \E c \in Certs : Skip(s, c) \/ Decide(s, c)
  \/ Send(s) \/ Record(s) \/ Finish(s)

ScanFault(s) == (\E c \in Certs : ReadFails(s, c)) \/ RecordFails(s) \/ Cancel(s)

OwnerStep(c) ==
  \/ \E expiry \in Expiries, milestones \in MilestoneSets, channels \in ChannelSets :
       Edit(c, expiry, milestones, channels)
  \/ \E status \in {"rotated", "deleted"} : Retire(c, status)
  \/ Restore(c)

Next ==
  \/ \E s \in Scans : StartScan(s) \/ ScanStep(s) \/ ScanFault(s)
  \/ \E c \in Certs : OwnerStep(c)
  \/ NextDay
  \/ Crash

Spec == Init /\ [][Next]_vars

\* An expiry date changes only while no scan is in progress; everything else may
\* change at any moment.
ExpiryStaysDuringScans ==
  (\E s \in Scans : Scanning(s)) => \A c \in Certs : certs'[c].cycle = certs[c].cycle

CalmSpec == Init /\ [][Next /\ ExpiryStaysDuringScans]_vars

\* Every channel takes the alert.
SendSucceeds(s, c) ==
  Send(s) /\ c \in scan[s].at /\ scan'[s] # Idle /\ scan'[s].step = "record"

-----------------------------------------------------------------------------
(* Properties *)

\* Rows, scans and history are well-formed.
TypeOK ==
  /\ day \in Days
  /\ certs \in [Certs -> CertRow]
  /\ notified \in [Certs -> SUBSET Thresholds]
  /\ scan \in [Scans -> {Idle} \cup Progress]
  /\ \A s \in Scans : Scanning(s) => Fits(scan[s])
  /\ mail \in [Certs -> Seq(Alert)]
  /\ settled \subseteq Certs

\* An alert of the item's present cycle.
Alerts(c) == {mail[c][i] : i \in {j \in DOMAIN mail[c] : mail[c][j].cycle = certs[c].cycle}}

\* After a scan that got through, running it again would send nothing: what an
\* item was due for is recorded, and one item's failure kept no other from it.
NothingLeftBehind ==
  \A c \in settled : ~AlertDue(Rules, certs[c], notified[c], day)

\* After a scan that got through, an item on the ladder has been alerted within
\* its interval: its recipients never wait longer than the rung it is on.
NoSilentGap ==
  \A c \in settled :
    LET interval == IntervalFor(Rules, DaysUntil(certs[c].expiry, day))
    IN interval > 0 => \E a \in Alerts(c) : day - a.day < interval

\* A milestone is recorded only when an alert of the present cycle announced it and
\* every channel took that: none is used up by an alert that got through in part, and no
\* cycle starts with milestones that were used up by another one.
RecordedMeansAlerted ==
  \A c \in Certs : \A t \in notified[c] :
    \E a \in Alerts(c) : t \in a.consumed /\ a.whole

\* The later alert b announces a milestone that the item did not have when a was sent.
NewMilestone(a, b) == b.consumed \ (a.milestones \cup {expiredSentinel}) # {}

\* "You are never spammed twice in a day": a second alert of a cycle goes out on
\* the same day only to announce a milestone the item did not have before.
NeverTwiceADay ==
  \A c \in Certs : \A i, j \in DOMAIN mail[c] :
    i < j /\ <<mail[c][i].cycle, mail[c][i].day>> = <<mail[c][j].cycle, mail[c][j].day>>
      => NewMilestone(mail[c][i], mail[c][j])

\* What the code keeps of it: the second alert of a cycle on one day is for a new
\* milestone, or the first one came from a scan that midnight overtook (it is booked
\* before the day it went out on) and the second from a scan of a later day.
TwiceOnlyPastMidnight ==
  \A c \in Certs : \A i, j \in DOMAIN mail[c] :
    LET first == mail[c][i]
        second == mail[c][j]
    IN i < j /\ <<first.cycle, first.day>> = <<second.cycle, second.day>>
         => \/ NewMilestone(first, second)
            \/ first.booked < first.day /\ first.booked < second.booked

\* What an alert announces: that the item expired, or the milestones it passed.
Announced(a) ==
  IF expiredSentinel \in a.consumed THEN {expiredSentinel} ELSE a.consumed

\* Each milestone of a cycle, and its expiry, is announced once, whatever happens
\* to the item's settings in between.
MilestonesFireOnce ==
  \A c \in Certs : \A i, j \in DOMAIN mail[c] :
    i # j /\ mail[c][i].cycle = mail[c][j].cycle
      => Announced(mail[c][i]) \cap Announced(mail[c][j]) = {}
=============================================================================
