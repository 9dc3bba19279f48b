------------------------- MODULE ReminderScanProofs -------------------------
(***************************************************************************)
(* Theorems about ReminderScan, each with what it needs:                   *)
(*   any number of scans, any failure, any edit: types;                    *)
(*   expiry dates kept during scans: what is recorded was announced;       *)
(*   one scan at a time: nothing left behind, with the former no long gap; *)
(*   both, and no failure but a cancelled scan: nobody is told twice on    *)
(*   one day, unless midnight comes between a scan's start and a sending.  *)
(* At the end, the daily loop of DailyScan: as one way to run scans, and   *)
(* what its timer does at the hours of days of any length.                 *)
(***************************************************************************)
EXTENDS DailyScan, CadenceProofs, SequenceTheorems, TLAPS

-----------------------------------------------------------------------------
(* When an alert is due *)

\* A rung's interval is a number of days, and so is "no repeats yet".
LEMMA IntervalIsNat == ASSUME NEW days \in Int PROVE IntervalFor(Rules, days) \in Nat
<1>1. CASE Inside(Rules, days) = {} BY <1>1 DEF IntervalFor
<1>2. CASE Inside(Rules, days) # {}
  <2>1. Inside(Rules, days) \subseteq DOMAIN Rules /\ DOMAIN Rules \subseteq Nat
    BY RulesAssumption DEF Inside
  <2>3. \E k \in Inside(Rules, days) :
           /\ \A j \in Inside(Rules, days) : k <= j
           /\ IntervalFor(Rules, days) = Rules[k].every
    BY <1>2, <2>1, FirstRung
  <2>4. ASSUME NEW k \in DOMAIN Rules PROVE Rules[k].every \in Nat
    <3>1. Rules \in Seq([within : Nat, every : Nat \ {0}]) BY RulesAssumption
    <3>2. k \in 1..Len(Rules) BY <3>1
    <3>3. Rules[k] \in [within : Nat, every : Nat \ {0}] BY <3>1, <3>2, ElementOfSeq
    <3> QED BY <3>3
  <2> QED BY <2>1, <2>3, <2>4
<1> QED BY <1>1, <1>2

\* What an alert consumes are milestones.
LEMMA DueType ==
  ASSUME NEW row \in CertRow, NEW sent, NEW today \in Int
  PROVE  DueMilestones(row, sent, today) \in SUBSET Thresholds
BY DEF DueMilestones, Thresholds, CertRow

\* An item that has been alerted today is due for a milestone or not at all.
LEMMA AlertedToday ==
  ASSUME NEW row \in CertRow, NEW sent, NEW today \in Days,
         DueMilestones(row, sent, today) = {}
  PROVE  ~AlertDue(Rules, [row EXCEPT !.last_notified_on = today], sent, today)
<1> DEFINE new == [row EXCEPT !.last_notified_on = today]
<1>1. new.expiry = row.expiry /\ new.reminder_days = row.reminder_days
      /\ new.last_notified_on = today
  BY DEF CertRow
<1>2. DueMilestones(new, sent, today) = {}
  BY <1>1 DEF DueMilestones
<1>3. IntervalFor(Rules, DaysUntil(new.expiry, today)) \in Nat
  BY <1>1, IntervalIsNat, DatesAssumption DEF CertRow, DaysUntil, Days
<1>4. today # Never /\ today - today = 0 BY DatesAssumption DEF Days
<1> HIDE DEF new
<1>5. CadenceDue(new.last_notified_on, today, IntervalFor(Rules, DaysUntil(new.expiry, today)))
      => 0 >= IntervalFor(Rules, DaysUntil(new.expiry, today))
  BY <1>1, <1>4 DEF CadenceDue
<1> QED BY <1>2, <1>3, <1>5 DEF AlertDue, new

-----------------------------------------------------------------------------
(* Types *)

\* A listing holds rows of items.
LEMMA ListingRows ==
  ASSUME NEW rows \in Listings
  PROVE  DOMAIN rows \subseteq Certs /\ \A c \in DOMAIN rows : rows[c] \in CertRow
BY DEF Listings

\* A scan in progress works on rows of items.
LEMMA ScanType ==
  ASSUME TypeOK, NEW s \in Scans, Scanning(s)
  PROVE  /\ scan[s] \in Progress /\ Fits(scan[s])
         /\ DOMAIN scan[s].rows \subseteq Certs
         /\ \A c \in DOMAIN scan[s].rows : scan[s].rows[c] \in CertRow
<1>1. scan[s] \in Progress BY DEF TypeOK, Scanning
<1>2. scan[s].rows \in Listings BY <1>1 DEF Progress
<1> QED BY <1>1, <1>2, ListingRows DEF TypeOK

\* A scan that is at an item is in one of its three steps.
LEMMA NotIdle == Idle \notin Progress
BY DEF Idle, Progress

\* A scan that moves on, begins or ends leaves the others alone.
LEMMA ScanUpdate ==
  ASSUME TypeOK, NEW s \in Scans, NEW k \in {Idle} \cup Progress, k # Idle => Fits(k),
         scan' = [scan EXCEPT ![s] = k]
  PROVE  /\ scan' \in [Scans -> {Idle} \cup Progress]
         /\ \A x \in Scans : Scanning(x)' => Fits(scan'[x])
<1>1. scan' \in [Scans -> {Idle} \cup Progress] /\ scan'[s] = k
      /\ \A x \in Scans : x # s => scan'[x] = scan[x]
  BY DEF TypeOK
<1>2. ASSUME NEW x \in Scans, Scanning(x)' PROVE Fits(scan'[x])
  <2>1. CASE x = s BY <1>1, <1>2, <2>1 DEF Scanning
  <2>2. CASE x # s BY <1>1, <1>2, <2>2 DEF TypeOK, Scanning
  <2> QED BY <2>1, <2>2
<1> QED BY <1>1, <1>2

\* Being done with an item.
LEMMA PastType ==
  ASSUME NEW k \in Progress, Fits(k), NEW c, NEW failed \in SUBSET DOMAIN k.rows,
         DOMAIN k.rows \subseteq Certs
  PROVE  /\ Past(k, c, failed) \in Progress /\ Fits(Past(k, c, failed))
         /\ Past(k, c, failed).step = "next" /\ Past(k, c, failed).at = {}
         /\ Past(k, c, failed).rows = k.rows /\ Past(k, c, failed).today = k.today
         /\ Past(k, c, failed).todo = k.todo \ {c}
         /\ Past(k, c, failed).failed = k.failed \cup failed
<1> DEFINE new == Past(k, c, failed)
<1>1. /\ new.step = "next" /\ new.today = k.today /\ new.rows = k.rows
      /\ new.todo = k.todo \ {c} /\ new.failed = k.failed \cup failed
      /\ new.at = {} /\ new.due = {} /\ new \in Progress
  BY DEF Past, Progress
<1> HIDE DEF new
<1>2. Fits(new) BY <1>1 DEF Fits
<1> QED BY <1>1, <1>2 DEF new

\* Going on to the next item keeps the scans well-formed.
LEMMA AdvanceType ==
  ASSUME TypeOK, NEW s \in Scans, Scanning(s), NEW c, NEW failed \in SUBSET DOMAIN scan[s].rows,
         Advance(s, c, failed)
  PROVE  /\ scan' \in [Scans -> {Idle} \cup Progress]
         /\ \A x \in Scans : Scanning(x)' => Fits(scan'[x])
<1>1. scan[s] \in Progress /\ Fits(scan[s]) /\ DOMAIN scan[s].rows \subseteq Certs
  BY ScanType
<1> QED BY <1>1, PastType, ScanUpdate DEF Advance

\* A new expiry date starts one more cycle, without an alert.
LEMMA NewCycleType ==
  ASSUME NEW row \in CertRow, NEW expiry \in Expiries, row.cycle < MaxCycle
  PROVE  /\ NewCycle(row, expiry) \in CertRow
         /\ NewCycle(row, expiry).cycle = row.cycle + 1
         /\ NewCycle(row, expiry).last_notified_on = Never
<1>1. row.cycle + 1 \in 0..MaxCycle BY MaxCycleAssumption DEF CertRow
<1>2. NewCycle(row, expiry) =
        [row EXCEPT !.expiry = expiry, !.last_notified_on = Never, !.cycle = row.cycle + 1]
  BY DEF NewCycle
<1> DEFINE n == row.cycle + 1
<1> HIDE DEF n
<1>3. [row EXCEPT !.expiry = expiry, !.last_notified_on = Never, !.cycle = n] \in CertRow
  BY <1>1 DEF CertRow, n
<1> QED BY <1>2, <1>3 DEF CertRow, n

\* Every step keeps the types.
LEMMA TypeStep == ASSUME TypeOK, [Next]_vars PROVE TypeOK'
<1>1. ASSUME NEW s \in Scans, StartScan(s) PROVE TypeOK'
  <2> DEFINE rows == [c \in ListLive |-> certs[c]]
             k == [step |-> "next", today |-> day, rows |-> rows, todo |-> ListLive,
                   failed |-> {}, at |-> {}, due |-> {}]
  <2>1. ListLive \subseteq Certs BY DEF ListLive
  <2>2. rows \in [ListLive -> CertRow] BY <2>1 DEF TypeOK
  <2>3. rows \in Listings BY <2>1, <2>2 DEF Listings
  <2>4. k \in Progress BY <2>1, <2>3 DEF Progress, TypeOK
  <2>5. Fits(k) BY DEF Fits
  <2>6. scan' = [scan EXCEPT ![s] = k] BY <1>1 DEF StartScan
  <2> HIDE DEF k
  <2> QED BY <1>1, <2>4, <2>5, <2>6, ScanUpdate DEF StartScan, TypeOK
<1>2. ASSUME NEW s \in Scans, NEW c \in Certs, Skip(s, c) \/ ReadFails(s, c) PROVE TypeOK'
  <2>1. c \in DOMAIN scan[s].rows BY <1>2, ScanType DEF Skip, ReadFails, Fits
  <2> QED BY <1>2, <2>1, AdvanceType DEF Skip, ReadFails, TypeOK
<1>3. ASSUME NEW s \in Scans, NEW c \in Certs, Decide(s, c) PROVE TypeOK'
  <2> DEFINE due == DueMilestones(scan[s].rows[c], notified[c], scan[s].today)
             k == [scan[s] EXCEPT !.step = "send", !.at = {c}, !.due = due]
  <2>1. /\ scan[s] \in Progress /\ Fits(scan[s]) /\ c \in scan[s].todo
        /\ scan[s].rows[c] \in CertRow
    BY <1>3, ScanType DEF Decide, Fits
  <2>2. due \in SUBSET Thresholds
    <3>1. scan[s].today \in Int BY <2>1 DEF Progress, Days
    <3> QED BY <2>1, <3>1, DueType
  <2> HIDE DEF due
  <2>3. k \in Progress BY <2>1, <2>2 DEF Progress
  <2>4. Fits(k) BY <2>1 DEF Fits, Progress
  <2>5. scan' = [scan EXCEPT ![s] = k] BY <1>3 DEF Decide, due
  <2> HIDE DEF k
  <2> QED BY <1>3, <2>3, <2>4, <2>5, ScanUpdate DEF Decide, TypeOK
<1>4. ASSUME NEW s \in Scans, Send(s) PROVE TypeOK'
  <2>1. /\ scan[s] \in Progress /\ Fits(scan[s]) /\ scan[s].step = "send" /\ Scanning(s)
        /\ \A c \in DOMAIN scan[s].rows : c \in Certs /\ scan[s].rows[c] \in CertRow
    BY <1>4, ScanType DEF Send
  <2>2. PICK c \in scan[s].at : \E errs :
          /\ mail' = mail \/ mail' = [mail EXCEPT ![c] = Append(@, NewAlert(s, c, errs))]
          /\ AfterSend(s, c, errs)
    BY <1>4 DEF Send
  <2>3. c \in scan[s].todo /\ c \in DOMAIN scan[s].rows /\ c \in Certs
    BY <2>1, <2>2 DEF Fits
  <2>4. mail' \in [Certs -> Seq(Alert)]
    <3>1. ASSUME NEW errs PROVE NewAlert(s, c, errs) \in Alert
      BY <2>1, <2>3 DEF NewAlert, Alert, CertRow, Progress, TypeOK
    <3>2. mail \in [Certs -> Seq(Alert)] BY DEF TypeOK
    <3>3. ASSUME NEW errs PROVE Append(mail[c], NewAlert(s, c, errs)) \in Seq(Alert)
      BY <2>3, <3>1, <3>2
    <3> QED BY <2>2, <2>3, <3>2, <3>3
  <2>5. scan' \in [Scans -> {Idle} \cup Progress]
        /\ \A x \in Scans : Scanning(x)' => Fits(scan'[x])
    <3>1. CASE scan' = [scan EXCEPT ![s].step = "record"]
      <4> DEFINE k == [scan[s] EXCEPT !.step = "record"]
      <4>1. k \in Progress /\ Fits(k) BY <2>1 DEF Progress, Fits
      <4>2. scan' = [scan EXCEPT ![s] = k] BY <3>1 DEF TypeOK
      <4> QED BY <4>1, <4>2, ScanUpdate
    <3>2. CASE Advance(s, c, {c}) BY <2>1, <2>3, <3>2, AdvanceType
    <3> QED BY <2>2, <3>1, <3>2 DEF AfterSend
  <2> QED BY <1>4, <2>4, <2>5 DEF Send, TypeOK
<1>5. ASSUME NEW s \in Scans, Record(s) \/ RecordFails(s) PROVE TypeOK'
  <2>1. /\ scan[s] \in Progress /\ Fits(scan[s]) /\ scan[s].step = "record" /\ Scanning(s)
        /\ DOMAIN scan[s].rows \subseteq Certs
    BY <1>5, ScanType DEF Record, RecordFails
  <2>2. PICK c \in scan[s].at :
          \/ /\ notified' = [notified EXCEPT ![c] = @ \cup scan[s].due]
             /\ certs' = [certs EXCEPT ![c].last_notified_on = scan[s].today]
             /\ Advance(s, c, {})
          \/ UNCHANGED <<certs, notified>> /\ Advance(s, c, {c})
    BY <1>5 DEF Record, RecordFails
  <2>3. c \in Certs /\ c \in DOMAIN scan[s].rows BY <2>1, <2>2 DEF Fits
  <2>4. certs' \in [Certs -> CertRow] /\ notified' \in [Certs -> SUBSET Thresholds]
    <3>1. certs[c] \in CertRow BY <2>3 DEF TypeOK
    <3>2. [certs[c] EXCEPT !.last_notified_on = scan[s].today] \in CertRow
      BY <2>1, <3>1 DEF CertRow, Progress
    <3>3. scan[s].due \in SUBSET Thresholds BY <2>1 DEF Progress
    <3>4. CASE UNCHANGED <<certs, notified>> BY <3>4 DEF TypeOK
    <3>5. CASE /\ notified' = [notified EXCEPT ![c] = @ \cup scan[s].due]
               /\ certs' = [certs EXCEPT ![c].last_notified_on = scan[s].today]
      <4>1. certs \in [Certs -> CertRow] /\ notified \in [Certs -> SUBSET Thresholds]
        BY DEF TypeOK
      <4>2. certs' = [certs EXCEPT ![c] = [certs[c] EXCEPT !.last_notified_on = scan[s].today]]
        BY <3>5
      <4> QED BY <2>3, <3>2, <3>3, <3>5, <4>1, <4>2
    <3> QED BY <2>2, <3>4, <3>5
  <2>5. {} \in SUBSET DOMAIN scan[s].rows /\ {c} \in SUBSET DOMAIN scan[s].rows BY <2>3
  <2> QED BY <1>5, <2>1, <2>2, <2>4, <2>5, AdvanceType DEF Record, RecordFails, TypeOK
<1>6. ASSUME NEW s \in Scans, Finish(s) PROVE TypeOK'
  <2>1. InOrder(s) \subseteq Certs BY <1>6, ScanType DEF InOrder, Finish
  <2> QED BY <1>6, <2>1, ScanUpdate DEF Finish, TypeOK
<1>7. ASSUME NEW s \in Scans, Cancel(s) PROVE TypeOK'
  BY <1>7, ScanUpdate DEF Cancel, TypeOK
<1>8. ASSUME NEW c \in Certs, NEW expiry \in Expiries, NEW milestones \in MilestoneSets,
             NEW channels \in ChannelSets, Edit(c, expiry, milestones, channels)
      PROVE  TypeOK'
  <2> DEFINE row == [certs[c] EXCEPT !.reminder_days = milestones, !.channels = channels]
  <2>1. row \in CertRow /\ row.cycle = certs[c].cycle BY DEF TypeOK, CertRow
  <2> HIDE DEF row
  <2>2. row.cycle < MaxCycle => NewCycle(row, expiry) \in CertRow
    BY <2>1, NewCycleType
  <2>3. certs' \in [Certs -> CertRow] /\ notified' \in [Certs -> SUBSET Thresholds]
    BY <1>8, <2>1, <2>2 DEF Edit, TypeOK, row
  <2> QED BY <1>8, <2>3 DEF Edit, TypeOK, Scanning
<1>9. ASSUME NEW c \in Certs, NEW status \in {"rotated", "deleted"},
             Retire(c, status) \/ Restore(c)
      PROVE  TypeOK'
  <2>1. \A x \in {"live", "rotated", "deleted"} : [certs[c] EXCEPT !.status = x] \in CertRow
    BY DEF TypeOK, CertRow
  <2> QED BY <1>9, <2>1 DEF Retire, Restore, TypeOK, Scanning
<1>10. CASE NextDay
  BY <1>10, DatesAssumption DEF NextDay, TypeOK, Scanning, Days
<1>11. CASE Crash
  BY <1>11 DEF Crash, TypeOK, Scanning
<1>12. CASE UNCHANGED vars
  BY <1>12 DEF vars, TypeOK, Scanning
<1> QED BY <1>1, <1>2, <1>3, <1>4, <1>5, <1>6, <1>7, <1>8, <1>9, <1>10, <1>11, <1>12
     DEF Next, ScanStep, ScanFault, OwnerStep

\* Rows, scans and alerts stay well-formed for any number of scans that overlap, and
\* whatever owners do meanwhile.
THEOREM TypeCorrect == Spec => []TypeOK
<1>1. Init => TypeOK
  BY DatesAssumption, MaxCycleAssumption DEF Init, TypeOK, Scanning, Days
<1>2. TypeOK /\ [Next]_vars => TypeOK' BY TypeStep
<1> QED BY <1>1, <1>2, PTL DEF Spec

-----------------------------------------------------------------------------
(* What a step may do *)

\* A scan moves by its own steps only, unless the process dies.
LEMMA ScanMoves ==
  ASSUME TypeOK, [Next]_vars, NEW s \in Scans
  PROVE  scan'[s] = scan[s] \/ StartScan(s) \/ ScanStep(s) \/ ScanFault(s) \/ Crash
<1>1. ASSUME NEW x \in Scans, StartScan(x) \/ ScanStep(x) \/ ScanFault(x), x # s
      PROVE  scan'[s] = scan[s]
  <2>1. \E k : scan' = [scan EXCEPT ![x] = k]
    BY <1>1 DEF StartScan, ScanStep, ScanFault, Skip, Decide, ReadFails, Send, AfterSend,
                Record, RecordFails, Finish, Cancel, Advance
  <2> QED BY <1>1, <2>1 DEF TypeOK
<1>2. ASSUME NEW c \in Certs, OwnerStep(c) PROVE scan' = scan
  BY <1>2 DEF OwnerStep, Edit, Retire, Restore
<1>3. NextDay \/ UNCHANGED vars => scan' = scan BY DEF NextDay, vars
<1> QED BY <1>1, <1>2, <1>3 DEF Next

\* A scan that has chosen to alert for an item, and one that has sent the alert.
Chosen(k, c, due) == [k EXCEPT !.step = "send", !.at = {c}, !.due = due]
Sent(k) == [k EXCEPT !.step = "record"]

\* What choosing an item changes of a scan,
LEMMA ChosenStage ==
  ASSUME NEW k \in Progress, NEW c, NEW due, NEW n, n = Chosen(k, c, due)
  PROVE  /\ n.step = "send" /\ n.at = {c} /\ n.due = due
         /\ n.rows = k.rows /\ n.today = k.today /\ n.todo = k.todo /\ n.failed = k.failed
BY DEF Progress, Chosen

\* what sending does,
LEMMA SentStage ==
  ASSUME NEW k \in Progress, NEW n, n = Sent(k)
  PROVE  /\ n.step = "record" /\ n.at = k.at /\ n.due = k.due
         /\ n.rows = k.rows /\ n.today = k.today /\ n.todo = k.todo /\ n.failed = k.failed
BY DEF Progress, Sent

\* and what being done with the item does.
LEMMA PastStage ==
  ASSUME NEW k \in Progress, NEW c, NEW failed, NEW n, n = Past(k, c, failed)
  PROVE  /\ n.step = "next" /\ n.at = {} /\ n.rows = k.rows /\ n.today = k.today
         /\ n.todo = k.todo \ {c} /\ n.failed = k.failed \cup failed
BY DEF Progress, Past

\* A scan decides on an item, has sent its alert, or is done with it: it failed, was
\* passed over, or is recorded.
LEMMA ScanAdvances ==
  ASSUME TypeOK, [Next]_vars, NEW s \in Scans, Scanning(s)', ~StartScan(s)
  PROVE  /\ Scanning(s)
         /\ \/ scan'[s] = scan[s]
            \/ \E c \in scan[s].todo :
                 \/ /\ Decide(s, c)
                    /\ scan'[s] = Chosen(scan[s], c,
                         DueMilestones(scan[s].rows[c], notified[c], scan[s].today))
                 \/ Send(s) /\ scan[s].at = {c} /\ scan'[s] = Sent(scan[s])
                 \/ scan'[s] = Past(scan[s], c, {c})
                 \/ /\ Skip(s, c) \/ (Record(s) /\ scan[s].at = {c})
                    /\ scan'[s] = Past(scan[s], c, {})
<1>1. CASE scan'[s] = scan[s] BY <1>1 DEF Scanning
<1>2. CASE ScanStep(s) \/ ScanFault(s)
  <2>1. Scanning(s) /\ Fits(scan[s]) /\ s \in DOMAIN scan
    <3>1. Scanning(s)
      BY <1>2 DEF ScanStep, ScanFault, Skip, Decide, ReadFails, Send,
                  Record, RecordFails, Finish, Cancel
    <3> QED BY <3>1, ScanType DEF TypeOK
  <2>2. \A c, f : Advance(s, c, f) => scan'[s] = Past(scan[s], c, f) BY <2>1 DEF Advance
  <2>3. ~Finish(s) /\ ~Cancel(s) BY <2>1 DEF Finish, Cancel, Scanning
  <2>4. CASE Send(s)
    <3>1. PICK c \in scan[s].at : \E errs : AfterSend(s, c, errs) BY <2>4 DEF Send
    <3>2. c \in scan[s].todo /\ scan[s].at = {c} BY <2>1, <2>4, <3>1 DEF Send, Fits
    <3>3. CASE Advance(s, c, {c}) BY <2>1, <2>2, <3>2, <3>3
    <3>4. CASE scan' = [scan EXCEPT ![s].step = "record"]
      <4>1. scan'[s] = Sent(scan[s]) BY <2>1, <3>4 DEF Sent
      <4> QED BY <2>4, <3>2, <4>1, <2>1
    <3> QED BY <2>1, <3>1, <3>3, <3>4 DEF AfterSend
  <2>5. CASE Record(s) \/ RecordFails(s)
    <3>1. PICK c \in scan[s].at : (Record(s) /\ Advance(s, c, {})) \/ Advance(s, c, {c})
      BY <2>5 DEF Record, RecordFails
    <3>2. c \in scan[s].todo /\ scan[s].at = {c}
      BY <2>1, <2>5, <3>1 DEF Record, RecordFails, Fits
    <3> QED BY <2>1, <2>2, <3>1, <3>2
  <2>6. ASSUME NEW c \in Certs, Skip(s, c) \/ ReadFails(s, c)
        PROVE  /\ c \in scan[s].todo
               /\ \/ Skip(s, c) /\ scan'[s] = Past(scan[s], c, {})
                  \/ scan'[s] = Past(scan[s], c, {c})
    BY <2>2, <2>6 DEF Skip, ReadFails
  <2>7. ASSUME NEW c \in Certs, Decide(s, c)
        PROVE  /\ c \in scan[s].todo
               /\ scan'[s] = Chosen(scan[s], c,
                    DueMilestones(scan[s].rows[c], notified[c], scan[s].today))
    BY <2>1, <2>7 DEF Decide, Chosen
  <2> QED BY <1>2, <2>1, <2>3, <2>4, <2>5, <2>6, <2>7 DEF ScanStep, ScanFault
<1>3. ~Crash BY DEF Crash, Scanning
<1> QED BY <1>1, <1>2, <1>3, ScanMoves

\* A scan keeps its day and its copy of the rows until it ends, and leaves no item it
\* is done with to be done again.
LEMMA ListingKept ==
  ASSUME TypeOK, [Next]_vars, NEW s \in Scans, Scanning(s)', ~StartScan(s)
  PROVE  /\ Scanning(s) /\ scan'[s].rows = scan[s].rows /\ scan'[s].today = scan[s].today
         /\ scan'[s].todo \subseteq scan[s].todo /\ scan[s].failed \subseteq scan'[s].failed
<1>1. Scanning(s) BY ScanAdvances
<1>2. scan[s] \in Progress BY <1>1, ScanType
<1>3. CASE scan'[s] = scan[s] BY <1>1, <1>3
<1>4. CASE \E c, due : scan'[s] = Chosen(scan[s], c, due) BY <1>1, <1>2, <1>4, ChosenStage
<1>5. CASE scan'[s] = Sent(scan[s]) BY <1>1, <1>2, <1>5, SentStage
<1>6. CASE \E c, f : scan'[s] = Past(scan[s], c, f) BY <1>1, <1>2, <1>6, PastStage
<1> QED BY <1>3, <1>4, <1>5, <1>6, ScanAdvances

\* An item's row, as far as a reminder depends on it, changes by an alert recorded for it,
\* or by the start of a new cycle.
LEMMA RowMoves ==
  ASSUME TypeOK, [Next]_vars, NEW c \in Certs
  PROVE  \/ /\ certs'[c].cycle = certs[c].cycle /\ certs'[c].expiry = certs[c].expiry
            /\ certs'[c].last_notified_on = certs[c].last_notified_on
            /\ notified'[c] = notified[c]
         \/ /\ certs'[c].cycle = certs[c].cycle /\ certs'[c].expiry = certs[c].expiry
            /\ mail' = mail
            /\ \E s \in Scans :
                 /\ Record(s) /\ c \in scan[s].at
                 /\ certs'[c].last_notified_on = scan[s].today
                 /\ notified'[c] = notified[c] \cup scan[s].due
         \/ /\ certs'[c].cycle = certs[c].cycle + 1 /\ certs'[c].last_notified_on = Never
            /\ notified'[c] = {} /\ UNCHANGED <<scan, mail, day>>
<1> DEFINE Same == /\ certs'[c].cycle = certs[c].cycle /\ certs'[c].expiry = certs[c].expiry
                   /\ certs'[c].last_notified_on = certs[c].last_notified_on
                   /\ notified'[c] = notified[c]
<1>1. ASSUME NEW s \in Scans, Record(s), c \in scan[s].at
      PROVE  /\ certs'[c].cycle = certs[c].cycle /\ certs'[c].expiry = certs[c].expiry
             /\ certs'[c].last_notified_on = scan[s].today
             /\ notified'[c] = notified[c] \cup scan[s].due /\ mail' = mail
  <2>1. scan[s].at = {c} BY <1>1, ScanType DEF Record, Fits
  <2> QED BY <1>1, <2>1 DEF Record, TypeOK, CertRow
<1>2. ASSUME NEW s \in Scans, Record(s), c \notin scan[s].at PROVE Same
  BY <1>2 DEF Record, TypeOK
<1>3. ASSUME NEW x \in Certs, NEW expiry \in Expiries, NEW milestones \in MilestoneSets,
             NEW channels \in ChannelSets, Edit(x, expiry, milestones, channels)
      PROVE  Same \/ (/\ certs'[c].cycle = certs[c].cycle + 1
                      /\ certs'[c].last_notified_on = Never
                      /\ notified'[c] = {} /\ UNCHANGED <<scan, mail, day>>)
  <2> DEFINE row == [certs[x] EXCEPT !.reminder_days = milestones, !.channels = channels]
  <2>1. /\ row \in CertRow /\ row.cycle = certs[x].cycle /\ row.expiry = certs[x].expiry
        /\ row.last_notified_on = certs[x].last_notified_on
    BY DEF TypeOK, CertRow
  <2>2. CASE x # c BY <1>3, <2>2 DEF Edit, TypeOK
  <2>3. CASE x = c /\ certs' = [certs EXCEPT ![x] = row] /\ UNCHANGED notified
    BY <2>1, <2>3 DEF TypeOK
  <2>4. CASE x = c /\ row.cycle < MaxCycle /\ certs' = [certs EXCEPT ![x] = NewCycle(row, expiry)]
             /\ notified' = [notified EXCEPT ![x] = {}]
    <3> HIDE DEF row
    <3>1. /\ NewCycle(row, expiry).cycle = row.cycle + 1
          /\ NewCycle(row, expiry).last_notified_on = Never
      BY <2>1, <2>4, NewCycleType
    <3>2. UNCHANGED <<scan, mail, day>> BY <1>3 DEF Edit
    <3> QED BY <2>1, <2>4, <3>1, <3>2 DEF TypeOK
  <2> QED BY <1>3, <2>2, <2>3, <2>4 DEF Edit
<1>4. ASSUME NEW x \in Certs, (\E status \in {"rotated", "deleted"} : Retire(x, status)) \/ Restore(x)
      PROVE  Same
  <2>1. PICK status : certs' = [certs EXCEPT ![x].status = status] /\ UNCHANGED notified
    BY <1>4 DEF Retire, Restore
  <2>2. certs[c] \in CertRow BY DEF TypeOK
  <2>3. certs'[c] = certs[c] \/ certs'[c] = [certs[c] EXCEPT !.status = status]
    BY <2>1 DEF TypeOK
  <2> QED BY <2>1, <2>2, <2>3 DEF CertRow
<1>5. ASSUME UNCHANGED <<certs, notified>> PROVE Same BY <1>5
<1>6. ASSUME NEW s \in Scans, StartScan(s) \/ ScanStep(s) \/ ScanFault(s), ~Record(s)
      PROVE  UNCHANGED <<certs, notified>>
  BY <1>6 DEF StartScan, ScanStep, ScanFault, Skip, Decide, ReadFails, Send, RecordFails,
              Finish, Cancel
<1>7. NextDay \/ Crash \/ UNCHANGED vars => UNCHANGED <<certs, notified>>
  BY DEF NextDay, Crash, vars
<1> HIDE DEF Same
<1>8. CASE Same BY <1>8 DEF Same
<1> QED BY <1>1, <1>2, <1>3, <1>4, <1>5, <1>6, <1>7, <1>8 DEF Next, ScanStep, OwnerStep

\* Mail is only ever added to, by sends.
LEMMA MailMoves ==
  ASSUME TypeOK, [Next]_vars, NEW c \in Certs
  PROVE  \/ mail'[c] = mail[c]
         \/ \E s \in Scans : \E errs : /\ Send(s) /\ c \in scan[s].at
                                      /\ mail'[c] = Append(mail[c], NewAlert(s, c, errs))
<1>1. ASSUME NEW s \in Scans, Send(s)
      PROVE  \/ mail'[c] = mail[c]
             \/ c \in scan[s].at /\ \E errs : mail'[c] = Append(mail[c], NewAlert(s, c, errs))
  BY <1>1 DEF Send, TypeOK
<1>2. ASSUME NEW s \in Scans, StartScan(s) \/ ScanStep(s) \/ ScanFault(s), ~Send(s)
      PROVE  mail' = mail
  BY <1>2 DEF StartScan, ScanStep, ScanFault, Skip, Decide, ReadFails, Record, RecordFails,
              Finish, Cancel
<1>3. (\E x \in Certs : OwnerStep(x)) \/ NextDay \/ Crash \/ UNCHANGED vars => mail' = mail
  BY DEF OwnerStep, Edit, Retire, Restore, NextDay, Crash, vars
<1> QED BY <1>1, <1>2, <1>3 DEF Next

\* Alerts of a cycle stay alerts of it, and a new one is added to them.
LEMMA AlertsKept ==
  ASSUME TypeOK, [Next]_vars, NEW c \in Certs, certs'[c].cycle = certs[c].cycle
  PROVE  Alerts(c) \subseteq Alerts(c)'
<1>1. CASE mail'[c] = mail[c] BY <1>1 DEF Alerts
<1>2. ASSUME NEW a, mail'[c] = Append(mail[c], a) PROVE Alerts(c) \subseteq Alerts(c)'
  <2>1. mail[c] \in Seq(Alert) BY DEF TypeOK
  <2>2. \A i \in DOMAIN mail[c] : i \in DOMAIN mail'[c] /\ mail'[c][i] = mail[c][i]
    BY <1>2, <2>1
  <2> QED BY <2>2 DEF Alerts
<1> QED BY <1>1, <1>2, MailMoves

\* The alert of a send is one of its item's.
LEMMA AlertAdded ==
  ASSUME TypeOK, NEW c \in Certs, NEW a, mail'[c] = Append(mail[c], a), a.cycle = certs'[c].cycle
  PROVE  a \in Alerts(c)'
<1>1. mail[c] \in Seq(Alert) BY DEF TypeOK
<1>2. Len(mail[c]) + 1 \in DOMAIN mail'[c] /\ mail'[c][Len(mail[c]) + 1] = a
  BY <1>1
<1> QED BY <1>2 DEF Alerts

-----------------------------------------------------------------------------
(* What is recorded has been announced: any number of scans, any failures *)

\* While expiry dates stay, a scan's copy is of the present cycle.
OwnCycle ==
  \A s \in Scans : Scanning(s) => \A c \in DOMAIN scan[s].rows :
    scan[s].rows[c].cycle = certs[c].cycle /\ scan[s].rows[c].expiry = certs[c].expiry

\* An alert goes somewhere,
HasChannel ==
  \A s \in Scans : Scanning(s) /\ scan[s].step = "send" =>
    \A c \in scan[s].at : Reachable(scan[s].rows[c]) # {}

\* and when it is to be recorded it has gone there, to every channel.
IsBooked(a, k) == a.booked = k.today /\ a.consumed = k.due /\ a.whole
SentBeforeRecorded ==
  \A s \in Scans : Scanning(s) /\ scan[s].step = "record" =>
    \A c \in scan[s].at : \E a \in Alerts(c) : IsBooked(a, scan[s])

\* The clock of an item is the day that one of its alerts is booked under.
LastMeansAlerted ==
  \A c \in Certs : certs[c].last_notified_on # Never =>
    \E a \in Alerts(c) : a.booked = certs[c].last_notified_on

CalmInv ==
  /\ TypeOK /\ OwnCycle /\ HasChannel /\ SentBeforeRecorded
  /\ LastMeansAlerted /\ RecordedMeansAlerted

\* While a scan is in progress, cycles go on.
LEMMA CalmCycle ==
  ASSUME TypeOK, [Next]_vars, [Next /\ ExpiryStaysDuringScans]_vars, NEW c \in Certs,
         NEW s \in Scans, Scanning(s)
  PROVE  certs'[c].cycle = certs[c].cycle /\ certs'[c].expiry = certs[c].expiry
<1>1. certs'[c].cycle = certs[c].cycle
  BY DEF ExpiryStaysDuringScans, vars
<1>2. certs[c].cycle \in Nat BY MaxCycleAssumption DEF TypeOK, CertRow
<1> QED BY <1>1, <1>2, RowMoves

\* A copy stays of its item's cycle: listing takes the present one, and it stays.
LEMMA OwnCycleStep ==
  ASSUME TypeOK, OwnCycle, [Next]_vars, [Next /\ ExpiryStaysDuringScans]_vars PROVE OwnCycle'
<1> SUFFICES ASSUME NEW s \in Scans, Scanning(s)', NEW c \in DOMAIN scan'[s].rows
             PROVE  /\ scan'[s].rows[c].cycle = certs'[c].cycle
                    /\ scan'[s].rows[c].expiry = certs'[c].expiry
  BY DEF OwnCycle
<1>1. CASE StartScan(s)
  BY <1>1 DEF StartScan, ListLive, TypeOK
<1>2. CASE ~StartScan(s)
  <2>1. Scanning(s) /\ scan'[s].rows = scan[s].rows BY <1>2, ListingKept
  <2>2. c \in Certs BY <2>1, ScanType
  <2> QED BY <2>1, <2>2, CalmCycle DEF OwnCycle
<1> QED BY <1>1, <1>2

\* Decide lets no item pass that nobody can be told about.
LEMMA HasChannelStep == ASSUME TypeOK, HasChannel, [Next]_vars PROVE HasChannel'
<1> SUFFICES ASSUME NEW s \in Scans, Scanning(s)', scan'[s].step = "send", NEW c \in scan'[s].at
             PROVE  Reachable(scan'[s].rows[c]) # {}
  BY DEF HasChannel
<1>1. ~StartScan(s) BY DEF StartScan, TypeOK
<1>2. Scanning(s) /\ scan'[s].rows = scan[s].rows BY <1>1, ListingKept
<1>3. scan[s] \in Progress BY <1>2, ScanType
<1>4. CASE scan'[s] = scan[s] BY <1>2, <1>4 DEF HasChannel
<1>5. CASE scan'[s] # scan[s]
  <2>1. scan'[s] # Sent(scan[s]) /\ \A x, f : scan'[s] # Past(scan[s], x, f)
    BY <1>3, SentStage, PastStage
  <2>2. PICK x \in scan[s].todo : \E due : Decide(s, x) /\ scan'[s] = Chosen(scan[s], x, due)
    BY <1>1, <1>5, <2>1, ScanAdvances
  <2>3. c = x BY <1>3, <2>2, ChosenStage
  <2> QED BY <1>2, <2>2, <2>3 DEF Decide
<1> QED BY <1>4, <1>5

\* A scan is about to record when every channel has taken its alert.
LEMMA SentOff ==
  ASSUME TypeOK, HasChannel, [Next]_vars, NEW s \in Scans,
         Scanning(s)', scan'[s].step = "record", scan'[s] # scan[s]
  PROVE  /\ Send(s) /\ scan'[s] = Sent(scan[s])
         /\ \A c \in scan[s].at : mail'[c] = Append(mail[c], NewAlert(s, c, {}))
<1>1. ~StartScan(s) BY DEF StartScan, TypeOK
<1>2. Scanning(s) BY <1>1, ListingKept
<1>3. scan[s] \in Progress /\ Fits(scan[s]) BY <1>2, ScanType
<1>4. Send(s) /\ scan'[s] = Sent(scan[s])
  <2>1. /\ \A x, due : scan'[s] # Chosen(scan[s], x, due)
        /\ \A x, f : scan'[s] # Past(scan[s], x, f)
    BY <1>3, ChosenStage, PastStage
  <2> QED BY <1>1, <2>1, ScanAdvances
<1>5. PICK c \in scan[s].at : \E delivered, errs \in SUBSET Reachable(scan[s].rows[c]) :
         /\ delivered \cup errs = Reachable(scan[s].rows[c])
         /\ mail' = IF delivered = {} THEN mail
                    ELSE [mail EXCEPT ![c] = Append(@, NewAlert(s, c, errs))]
         /\ AfterSend(s, c, errs)
  BY <1>4 DEF Send
<1>6. scan[s].at = {c} /\ c \in Certs
  <2>1. DOMAIN scan[s].rows \subseteq Certs BY <1>2, ScanType
  <2> QED BY <1>3, <1>4, <1>5, <2>1 DEF Send, Fits
<1>7. ~Advance(s, c, {c})
  <2>1. Past(scan[s], c, {c}).step = "next" BY <1>3, PastStage
  <2> QED BY <2>1 DEF Advance, TypeOK
<1>8. mail' = IF Reachable(scan[s].rows[c]) = {} THEN mail
               ELSE [mail EXCEPT ![c] = Append(@, NewAlert(s, c, {}))]
  BY <1>5, <1>7 DEF AfterSend
<1>9. Reachable(scan[s].rows[c]) # {} BY <1>2, <1>4, <1>5 DEF HasChannel, Send
<1>10. mail' = [mail EXCEPT ![c] = Append(@, NewAlert(s, c, {}))] BY <1>8, <1>9
<1> QED BY <1>4, <1>6, <1>10 DEF TypeOK

\* A scan comes to record by sending to every channel, so that the alert is in the mail.
LEMMA SentBeforeRecordedStep ==
  ASSUME TypeOK, OwnCycle, HasChannel, SentBeforeRecorded,
         [Next]_vars, [Next /\ ExpiryStaysDuringScans]_vars
  PROVE  SentBeforeRecorded'
<1> SUFFICES ASSUME NEW s \in Scans, Scanning(s)', scan'[s].step = "record",
                    NEW c \in scan'[s].at
             PROVE  \E a \in Alerts(c)' : IsBooked(a, scan'[s])
  BY DEF SentBeforeRecorded
<1>1. CASE scan'[s] = scan[s]
  <2>1. Scanning(s) /\ c \in scan[s].at BY <1>1 DEF Scanning
  <2>2. c \in DOMAIN scan[s].rows /\ c \in Certs BY <1>1, <2>1, ScanType DEF Fits
  <2>3. Alerts(c) \subseteq Alerts(c)' BY <2>1, <2>2, CalmCycle, AlertsKept
  <2>4. \E a \in Alerts(c) : IsBooked(a, scan[s])
    BY <1>1, <2>1 DEF SentBeforeRecorded
  <2> QED BY <1>1, <2>3, <2>4
<1>2. CASE scan'[s] # scan[s]
  <2>1. /\ Send(s) /\ scan'[s] = Sent(scan[s])
        /\ \A x \in scan[s].at : mail'[x] = Append(mail[x], NewAlert(s, x, {}))
    BY <1>2, SentOff
  <2>2. scan[s] \in Progress /\ Scanning(s) /\ Fits(scan[s]) /\ DOMAIN scan[s].rows \subseteq Certs
    BY <2>1, ScanType DEF Send
  <2>3. /\ c \in scan[s].at /\ scan'[s].today = scan[s].today /\ scan'[s].due = scan[s].due
    BY <2>1, <2>2, SentStage
  <2>4. c \in DOMAIN scan[s].rows /\ c \in Certs BY <2>1, <2>2, <2>3 DEF Send, Fits
  <2>5. NewAlert(s, c, {}).cycle = certs'[c].cycle
    BY <2>1, <2>2, <2>4 DEF NewAlert, OwnCycle, Send
  <2>6. NewAlert(s, c, {}) \in Alerts(c)' BY <2>1, <2>3, <2>4, <2>5, AlertAdded
  <2> QED BY <2>3, <2>6 DEF NewAlert, IsBooked
<1> QED BY <1>1, <1>2

\* The two facts about the recorded state hold by what RowMoves allows.
LEMMA RecordedStep ==
  ASSUME TypeOK, SentBeforeRecorded, LastMeansAlerted, RecordedMeansAlerted, [Next]_vars
  PROVE  LastMeansAlerted' /\ RecordedMeansAlerted'
<1>1. ASSUME NEW c \in Certs, certs'[c].last_notified_on # Never
      PROVE  \E a \in Alerts(c)' : a.booked = certs'[c].last_notified_on
  <2>1. CASE /\ certs'[c].cycle = certs[c].cycle
             /\ certs'[c].last_notified_on = certs[c].last_notified_on
    BY <1>1, <2>1, AlertsKept DEF LastMeansAlerted
  <2>2. CASE /\ certs'[c].cycle = certs[c].cycle
             /\ \E s \in Scans : /\ Record(s) /\ c \in scan[s].at
                                 /\ certs'[c].last_notified_on = scan[s].today
    BY <2>2, AlertsKept DEF SentBeforeRecorded, IsBooked, Record
  <2>3. CASE certs'[c].last_notified_on = Never BY <1>1, <2>3
  <2> QED BY <2>1, <2>2, <2>3, RowMoves
<1>2. ASSUME NEW c \in Certs, NEW t \in notified'[c]
      PROVE  \E a \in Alerts(c)' : t \in a.consumed /\ a.whole
  <2>1. CASE certs'[c].cycle = certs[c].cycle /\ notified'[c] = notified[c]
    BY <1>2, <2>1, AlertsKept DEF RecordedMeansAlerted
  <2>2. CASE /\ certs'[c].cycle = certs[c].cycle
             /\ \E s \in Scans : /\ Record(s) /\ c \in scan[s].at
                                 /\ notified'[c] = notified[c] \cup scan[s].due
    <3>1. PICK s \in Scans : /\ Record(s) /\ c \in scan[s].at
                             /\ notified'[c] = notified[c] \cup scan[s].due
      BY <2>2
    <3>2. CASE t \in notified[c] BY <2>2, <3>2, AlertsKept DEF RecordedMeansAlerted
    <3>3. CASE t \in scan[s].due
      BY <2>2, <3>1, <3>3, AlertsKept DEF SentBeforeRecorded, IsBooked, Record
    <3> QED BY <1>2, <3>1, <3>2, <3>3
  <2>3. CASE notified'[c] = {} BY <1>2, <2>3
  <2> QED BY <2>1, <2>2, <2>3, RowMoves
<1> QED BY <1>1, <1>2 DEF LastMeansAlerted, RecordedMeansAlerted

\* All of this together, for as long as expiry dates stay during scans.
LEMMA CalmInvariant == CalmSpec => []CalmInv
<1>1. Init => CalmInv
  <2>1. Init => TypeOK
    BY DatesAssumption, MaxCycleAssumption DEF Init, TypeOK, Scanning, Days
  <2> QED BY <2>1 DEF Init, CalmInv, OwnCycle, HasChannel, SentBeforeRecorded, LastMeansAlerted,
                      RecordedMeansAlerted, Scanning
<1>2. CalmInv /\ [Next /\ ExpiryStaysDuringScans]_vars => CalmInv'
  <2> SUFFICES ASSUME CalmInv, [Next /\ ExpiryStaysDuringScans]_vars PROVE CalmInv'
    OBVIOUS
  <2>1. [Next]_vars OBVIOUS
  <2> QED BY <2>1, TypeStep, OwnCycleStep, HasChannelStep, SentBeforeRecordedStep, RecordedStep
          DEF CalmInv
<1> QED BY <1>1, <1>2, PTL DEF CalmSpec

\* A milestone is recorded only if an alert of the present cycle announced it (RunOnce sends
\* before it records): for any number of scans that overlap and all kinds of failure, as long
\* as expiry dates stay during scans.
THEOREM RecordsAreTrue == CalmSpec => []RecordedMeansAlerted
<1>1. CalmInv => RecordedMeansAlerted BY DEF CalmInv
<1> QED BY <1>1, CalmInvariant, PTL

-----------------------------------------------------------------------------
(* What one scan at a time leaves behind: any failures, and edits at any moment *)

OneScan == \A s, x \in Scans : s = x

\* The copy and the row are of the same cycle.
SameCycle(s, c) == scan[s].rows[c].cycle = certs[c].cycle

\* A scan is of today or an earlier day, its rows of the present cycle or an earlier one.
Behind ==
  \A s \in Scans : Scanning(s) =>
    /\ scan[s].today <= day
    /\ \A c \in DOMAIN scan[s].rows : scan[s].rows[c].cycle <= certs[c].cycle

\* An item that the scan has yet to do still has the clock it was listed with,
Untouched ==
  \A s \in Scans : Scanning(s) => \A c \in scan[s].todo :
    SameCycle(s, c) => scan[s].rows[c].last_notified_on = certs[c].last_notified_on

\* what it is alerting for is due,
DueIsCurrent ==
  \A s \in Scans : Scanning(s) => \A c \in scan[s].at : SameCycle(s, c) =>
    scan[s].due = DueMilestones(scan[s].rows[c], notified[c], scan[s].today)

\* and what it is done with is not due again, as far as it can tell.
AsHandled(row, last) == [row EXCEPT !.last_notified_on = last]
Handled ==
  \A s \in Scans : Scanning(s) /\ scan[s].today = day =>
    \A c \in DOMAIN scan[s].rows \ (scan[s].failed \cup scan[s].todo) :
      SameCycle(s, c) /\ Reachable(scan[s].rows[c]) # {} =>
        ~AlertDue(Rules, AsHandled(scan[s].rows[c], certs[c].last_notified_on), notified[c], day)

\* An alert is booked under the day it goes out on or an earlier one.
SentSinceBooked == \A c \in Certs : \A i \in DOMAIN mail[c] : mail[c][i].booked <= mail[c][i].day

\* A scan that runs past midnight records days that are over, so nothing is in order then.
PastMidnight == \A s \in Scans : Scanning(s) /\ scan[s].today # day => settled = {}

ScanInv ==
  /\ TypeOK /\ Behind /\ Untouched /\ DueIsCurrent /\ Handled /\ PastMidnight
  /\ SentSinceBooked /\ NothingLeftBehind

\* Days and cycles only go up.
LEMMA TimeGoesOn ==
  ASSUME TypeOK, [Next]_vars
  PROVE  /\ day \in Nat /\ day' \in Nat /\ day <= day'
         /\ \A c \in Certs : /\ certs[c].cycle \in Nat /\ certs'[c].cycle \in Nat
                            /\ certs[c].cycle <= certs'[c].cycle
<1>1. day \in Nat BY DatesAssumption DEF TypeOK, Days
<1>2. day' = day \/ day' = day + 1
  BY DEF Next, StartScan, ScanStep, ScanFault, OwnerStep, Skip, Decide, ReadFails, Send, Record,
         RecordFails, Finish, Cancel, Edit, Retire, Restore, NextDay, Crash, vars
<1>3. \A c \in Certs : certs[c].cycle \in Nat BY MaxCycleAssumption DEF TypeOK, CertRow
<1>4. \A c \in Certs : certs'[c].cycle = certs[c].cycle \/ certs'[c].cycle = certs[c].cycle + 1
  BY RowMoves
<1> QED BY <1>1, <1>2, <1>3, <1>4

\* An item of the scan's own cycle keeps its records, but for the scan's own.
LEMMA OwnRow ==
  ASSUME OneScan, TypeOK, Behind, [Next]_vars, NEW s \in Scans, Scanning(s)', ~StartScan(s),
         NEW c \in DOMAIN scan'[s].rows, SameCycle(s, c)'
  PROVE  /\ c \in Certs /\ SameCycle(s, c)
         /\ \/ /\ certs'[c].last_notified_on = certs[c].last_notified_on
               /\ notified'[c] = notified[c]
            \/ /\ Record(s) /\ scan[s].at = {c} /\ scan'[s] = Past(scan[s], c, {})
               /\ certs'[c].last_notified_on = scan[s].today
               /\ notified'[c] = notified[c] \cup scan[s].due
<1>1. Scanning(s) /\ scan'[s].rows = scan[s].rows BY ListingKept
<1>2. c \in Certs /\ scan[s].rows[c] \in CertRow BY <1>1, ScanType
<1>3. scan[s].rows[c].cycle <= certs[c].cycle BY <1>1 DEF Behind
<1>4. certs'[c].cycle = certs[c].cycle BY <1>1, <1>2, <1>3, TimeGoesOn DEF SameCycle
<1>5. ASSUME Record(s), c \in scan[s].at
      PROVE  scan[s].at = {c} /\ scan'[s] = Past(scan[s], c, {})
  <2>1. scan[s].at = {c} BY <1>1, <1>5, ScanType DEF Record, Fits
  <2> QED BY <1>5, <2>1 DEF Record, Advance, TypeOK
<1>6. \A x \in Scans : x = s BY DEF OneScan
<1>7. certs[c].cycle # certs[c].cycle + 1 BY <1>2, TimeGoesOn
<1> QED BY <1>1, <1>2, <1>4, <1>5, <1>6, <1>7, RowMoves DEF SameCycle

\* A listing is of now, and only its item moves on.
LEMMA BehindStep == ASSUME TypeOK, Behind, [Next]_vars PROVE Behind'
<1> SUFFICES ASSUME NEW s \in Scans, Scanning(s)'
             PROVE  /\ scan'[s].today <= day'
                    /\ \A c \in DOMAIN scan'[s].rows : scan'[s].rows[c].cycle <= certs'[c].cycle
  BY DEF Behind
<1>1. CASE StartScan(s)
  <2>1. /\ scan'[s].today = day /\ scan'[s].rows = [c \in ListLive |-> certs[c]]
        /\ UNCHANGED <<day, certs>>
    BY <1>1 DEF StartScan, TypeOK
  <2> QED BY <2>1, TimeGoesOn DEF ListLive
<1>2. CASE ~StartScan(s)
  <2>1. /\ Scanning(s) /\ scan'[s].rows = scan[s].rows /\ scan'[s].today = scan[s].today
    BY <1>2, ListingKept
  <2>2. scan[s].today \in Nat /\ DOMAIN scan[s].rows \subseteq Certs
        /\ \A c \in DOMAIN scan[s].rows : scan[s].rows[c].cycle \in Nat
    BY <2>1, ScanType, DatesAssumption, MaxCycleAssumption DEF Progress, Days, CertRow
  <2> QED BY <2>1, <2>2, TimeGoesOn DEF Behind
<1> QED BY <1>1, <1>2

\* A scan sends today what it books under its own day.
LEMMA SentSinceBookedStep ==
  ASSUME TypeOK, Behind, SentSinceBooked, [Next]_vars PROVE SentSinceBooked'
<1> SUFFICES ASSUME NEW c \in Certs, NEW i \in DOMAIN mail'[c]
             PROVE  mail'[c][i].booked <= mail'[c][i].day
  BY DEF SentSinceBooked
<1>1. CASE mail'[c] = mail[c] BY <1>1 DEF SentSinceBooked
<1>2. ASSUME NEW s \in Scans, NEW errs, Send(s), mail'[c] = Append(mail[c], NewAlert(s, c, errs))
      PROVE  mail'[c][i].booked <= mail'[c][i].day
  <2>1. mail[c] \in Seq(Alert) BY DEF TypeOK
  <2>2. \/ i \in DOMAIN mail[c] /\ mail'[c][i] = mail[c][i]
        \/ mail'[c][i] = NewAlert(s, c, errs)
    BY <1>2, <2>1
  <2>3. NewAlert(s, c, errs).booked <= NewAlert(s, c, errs).day
    BY <1>2 DEF Send, Behind, NewAlert
  <2> QED BY <2>2, <2>3 DEF SentSinceBooked
<1> QED BY <1>1, <1>2, MailMoves

\* Only the scan itself sets the clock of an item it has yet to do.
LEMMA UntouchedStep ==
  ASSUME OneScan, TypeOK, Behind, Untouched, [Next]_vars PROVE Untouched'
<1> SUFFICES ASSUME NEW s \in Scans, Scanning(s)', NEW c \in scan'[s].todo, SameCycle(s, c)'
             PROVE  scan'[s].rows[c].last_notified_on = certs'[c].last_notified_on
  BY DEF Untouched
<1>1. CASE StartScan(s)
  BY <1>1 DEF StartScan, TypeOK
<1>2. CASE ~StartScan(s)
  <2>1. /\ Scanning(s) /\ scan'[s].rows = scan[s].rows /\ c \in scan[s].todo
    BY <1>2, ListingKept
  <2>2. scan[s] \in Progress /\ c \in DOMAIN scan[s].rows BY <2>1, ScanType DEF Fits
  <2>3. scan'[s] # Past(scan[s], c, {}) BY <2>2, PastStage
  <2> QED BY <1>2, <2>1, <2>2, <2>3, OwnRow DEF Untouched
<1> QED BY <1>1, <1>2

\* What Decide found due stays so until Record: nobody else records.
LEMMA DueIsCurrentStep ==
  ASSUME OneScan, TypeOK, Behind, DueIsCurrent, [Next]_vars PROVE DueIsCurrent'
<1> SUFFICES ASSUME NEW s \in Scans, Scanning(s)', NEW c \in scan'[s].at, SameCycle(s, c)'
             PROVE  scan'[s].due
                      = DueMilestones(scan'[s].rows[c], notified'[c], scan'[s].today)
  BY DEF DueIsCurrent
<1>1. ~StartScan(s) BY DEF StartScan, TypeOK
<1>2. /\ Scanning(s) /\ scan'[s].rows = scan[s].rows /\ scan'[s].today = scan[s].today
  BY <1>1, ListingKept
<1>3. scan[s] \in Progress /\ Fits(scan[s]) BY <1>2, ScanType
<1>4. \A x, f : scan'[s] # Past(scan[s], x, f) BY <1>3, PastStage
<1>5. CASE scan'[s] = scan[s] \/ scan'[s] = Sent(scan[s])
  <2>1. c \in scan[s].at /\ scan'[s].due = scan[s].due BY <1>3, <1>5, SentStage
  <2>2. c \in DOMAIN scan[s].rows BY <1>3, <2>1 DEF Fits
  <2>3. SameCycle(s, c) /\ notified'[c] = notified[c] BY <1>1, <1>2, <1>4, <2>2, OwnRow
  <2> QED BY <1>2, <2>1, <2>3 DEF DueIsCurrent
<1>6. ASSUME NEW x, Decide(s, x),
             scan'[s] = Chosen(scan[s], x,
               DueMilestones(scan[s].rows[x], notified[x], scan[s].today))
      PROVE  scan'[s].due = DueMilestones(scan'[s].rows[c], notified'[c], scan'[s].today)
  <2>1. /\ c = x
        /\ scan'[s].due = DueMilestones(scan[s].rows[x], notified[x], scan[s].today)
    BY <1>3, <1>6, ChosenStage
  <2>2. notified' = notified BY <1>6 DEF Decide
  <2> QED BY <1>2, <2>1, <2>2
<1> QED BY <1>1, <1>4, <1>5, <1>6, ScanAdvances

\* An item is done with when nothing was due, or when what was due is recorded.
LEMMA HandledStep ==
  ASSUME OneScan, TypeOK, Behind, Untouched, DueIsCurrent, Handled, [Next]_vars PROVE Handled'
<1> SUFFICES ASSUME NEW s \in Scans, Scanning(s)', scan'[s].today = day',
                    NEW c \in DOMAIN scan'[s].rows, c \notin scan'[s].failed,
                    c \notin scan'[s].todo, SameCycle(s, c)',
                    Reachable(scan'[s].rows[c]) # {}
             PROVE  ~AlertDue(Rules, AsHandled(scan'[s].rows[c], certs'[c].last_notified_on),
                              notified'[c], day')
  BY DEF Handled
<1>1. ~StartScan(s) BY DEF StartScan, TypeOK
<1>2. /\ Scanning(s) /\ scan'[s].rows = scan[s].rows /\ scan'[s].today = scan[s].today
      /\ scan'[s].todo \subseteq scan[s].todo /\ scan[s].failed \subseteq scan'[s].failed
  BY <1>1, ListingKept
<1>3. /\ scan[s] \in Progress /\ Fits(scan[s]) /\ c \in DOMAIN scan[s].rows
      /\ scan[s].rows[c] \in CertRow
  BY <1>2, ScanType
<1>4. scan[s].today = day /\ day' = day
  <2>1. scan[s].today <= day BY <1>2 DEF Behind
  <2>2. scan[s].today \in Nat BY <1>3, DatesAssumption DEF Progress, Days
  <2> QED BY <1>2, <2>1, <2>2, TimeGoesOn
<1>5. SameCycle(s, c) BY <1>1, OwnRow
<1>6. CASE c \notin scan[s].todo
  <2>1. c \notin scan[s].at BY <1>3, <1>6 DEF Fits
  <2>2. certs'[c].last_notified_on = certs[c].last_notified_on /\ notified'[c] = notified[c]
    BY <1>1, <2>1, OwnRow
  <2> QED BY <1>2, <1>3, <1>4, <1>5, <1>6, <2>2 DEF Handled
<1>7. CASE c \in scan[s].todo
  <2>1. ASSUME NEW x \in scan[s].todo, scan'[s] = Past(scan[s], x, {x}) PROVE FALSE
    <3>1. scan'[s].todo = scan[s].todo \ {x} /\ scan'[s].failed = scan[s].failed \cup {x}
      BY <1>3, <2>1, PastStage
    <3> QED BY <1>7, <3>1
  <2>2. scan'[s] # scan[s] /\ scan'[s] # Sent(scan[s]) /\ \A x, due : scan'[s] # Chosen(scan[s], x, due)
    BY <1>3, <1>7, SentStage, ChosenStage
  <2>3. PICK x \in scan[s].todo : /\ Skip(s, x) \/ (Record(s) /\ scan[s].at = {x})
                                 /\ scan'[s] = Past(scan[s], x, {})
    BY <1>1, <2>1, <2>2, ScanAdvances
  <2>4. x = c
    <3>1. scan'[s].todo = scan[s].todo \ {x} BY <1>3, <2>3, PastStage
    <3> QED BY <1>7, <3>1
  <2>5. CASE Skip(s, c)
    <3>1. UNCHANGED <<certs, notified>> /\ ~DueNow(s, c) BY <1>2, <2>5 DEF Skip
    <3>2. scan[s].rows[c].last_notified_on = certs[c].last_notified_on
      BY <1>2, <1>5, <1>7 DEF Untouched
    <3>3. AsHandled(scan[s].rows[c], certs[c].last_notified_on) = scan[s].rows[c]
      BY <1>3, <3>2 DEF AsHandled, CertRow
    <3> QED BY <1>2, <1>4, <3>1, <3>3 DEF DueNow
  <2>6. CASE Record(s) /\ scan[s].at = {c} /\ ~Skip(s, c)
    <3>1. /\ certs'[c].last_notified_on = scan[s].today
          /\ notified'[c] = notified[c] \cup scan[s].due
      <4>1. c \in Certs /\ certs[c] \in CertRow
        <5>1. c \in Certs BY <1>2, <1>3, ScanType
        <5> QED BY <5>1 DEF TypeOK
      <4>2. /\ certs' = [certs EXCEPT ![c].last_notified_on = scan[s].today]
            /\ notified' = [notified EXCEPT ![c] = @ \cup scan[s].due]
        BY <2>6 DEF Record
      <4> QED BY <4>1, <4>2 DEF TypeOK, CertRow
    <3>2. scan[s].due = DueMilestones(scan[s].rows[c], notified[c], day)
      BY <1>2, <1>4, <1>5, <2>6 DEF DueIsCurrent
    <3>3. DueMilestones(scan[s].rows[c], notified'[c], day) = {}
      BY <3>1, <3>2, DueConsumed
    <3>4. day \in Days BY DEF TypeOK
    <3> QED BY <1>2, <1>3, <1>4, <3>1, <3>3, <3>4, AlertedToday DEF AsHandled
  <2> QED BY <2>3, <2>4, <2>5, <2>6
<1> QED BY <1>6, <1>7

\* Midnight takes everything out of order, and an old scan puts nothing back.
LEMMA PastMidnightStep ==
  ASSUME OneScan, TypeOK, Behind, PastMidnight, [Next]_vars PROVE PastMidnight'
<1> SUFFICES ASSUME NEW s \in Scans, Scanning(s)', scan'[s].today # day' PROVE settled' = {}
  BY DEF PastMidnight
<1>1. ~StartScan(s) BY DEF StartScan, TypeOK
<1>2. Scanning(s) /\ scan'[s].today = scan[s].today BY <1>1, ListingKept
<1>3. \A x \in Scans : x = s BY DEF OneScan
<1>4. ~Finish(s) BY DEF Finish, Scanning, TypeOK
<1>5. CASE NextDay BY <1>5 DEF NextDay
<1>6. CASE ~NextDay
  <2>1. day' = day /\ settled' \subseteq settled
    BY <1>3, <1>4, <1>6 DEF Next, StartScan, ScanStep, ScanFault, OwnerStep, Skip, Decide,
       ReadFails, Send, Record, RecordFails, Cancel, Edit, Retire, Restore, Crash, vars
  <2> QED BY <1>2, <2>1 DEF PastMidnight
<1> QED BY <1>5, <1>6

\* What is in order stays so until its owner or midnight intervenes; only a scan of today
\* that ends puts more in order.
LEMMA SettledMoves ==
  ASSUME TypeOK, [Next]_vars, NEW c \in settled'
  PROVE  \/ /\ c \in settled /\ day' = day
            /\ \/ certs'[c] = certs[c] /\ notified'[c] = notified[c]
               \/ \E s \in Scans :
                    /\ Record(s)
                    /\ certs'[c] = AsHandled(certs[c], scan[s].today)
                    /\ notified[c] \subseteq notified'[c]
         \/ \E s \in Scans : /\ Finish(s) /\ scan[s].today = day /\ c \in InOrder(s)
                             /\ UNCHANGED <<day, certs, notified>>
<1> DEFINE Stays == c \in settled /\ day' = day /\ certs'[c] = certs[c] /\ notified'[c] = notified[c]
<1>1. ASSUME NEW s \in Scans, StartScan(s) \/ ScanStep(s) \/ ScanFault(s), ~Record(s), ~Finish(s)
      PROVE  Stays
  BY <1>1 DEF StartScan, ScanStep, ScanFault, Skip, Decide, ReadFails, Send, RecordFails, Cancel
<1>2. ASSUME NEW s \in Scans, Record(s)
      PROVE  /\ c \in settled /\ day' = day
             /\ \/ certs'[c] = certs[c] /\ notified'[c] = notified[c]
                \/ /\ certs'[c] = AsHandled(certs[c], scan[s].today)
                   /\ notified[c] \subseteq notified'[c]
  <2>1. PICK x \in scan[s].at :
          /\ notified' = [notified EXCEPT ![x] = @ \cup scan[s].due]
          /\ certs' = [certs EXCEPT ![x].last_notified_on = scan[s].today]
    BY <1>2 DEF Record
  <2>2. c \in Certs /\ c \in settled /\ day' = day BY <1>2 DEF Record, TypeOK
  <2> QED BY <2>1, <2>2 DEF TypeOK, AsHandled
<1>3. ASSUME NEW s \in Scans, Finish(s)
      PROVE  Stays \/ (/\ scan[s].today = day /\ c \in InOrder(s)
                       /\ UNCHANGED <<day, certs, notified>>)
  BY <1>3 DEF Finish
<1>4. ASSUME NEW x \in Certs, OwnerStep(x) PROVE Stays
  <2>1. settled' = settled \ {x} /\ day' = day
    BY <1>4 DEF OwnerStep, Edit, Retire, Restore
  <2>2. \E row, set : certs' = [certs EXCEPT ![x] = row]
                      /\ (notified' = notified \/ notified' = [notified EXCEPT ![x] = set])
    BY <1>4 DEF OwnerStep, Edit, Retire, Restore
  <2> QED BY <2>1, <2>2 DEF TypeOK
<1>5. ~NextDay BY DEF NextDay
<1>6. Crash \/ UNCHANGED vars => Stays BY DEF Crash, vars
<1> HIDE DEF Stays
<1>7. CASE Stays BY <1>7 DEF Stays
<1> QED BY <1>1, <1>2, <1>3, <1>4, <1>5, <1>6, <1>7 DEF Next, ScanStep

\* Finish leaves in order what is not due, and recording more makes nothing due.
LEMMA NothingLeftBehindStep ==
  ASSUME OneScan, ScanInv, [Next]_vars PROVE NothingLeftBehind'
<1> USE DEF ScanInv
<1> SUFFICES ASSUME NEW c \in settled' PROVE ~AlertDue(Rules, certs'[c], notified'[c], day')
  BY DEF NothingLeftBehind
<1>1. CASE c \in settled /\ day' = day /\ certs'[c] = certs[c] /\ notified'[c] = notified[c]
  BY <1>1 DEF NothingLeftBehind
<1>2. ASSUME c \in settled, day' = day, NEW s \in Scans, Record(s),
             certs'[c] = AsHandled(certs[c], scan[s].today), notified[c] \subseteq notified'[c]
      PROVE  ~AlertDue(Rules, certs'[c], notified'[c], day')
  <2>1. scan[s].today = day BY <1>2 DEF PastMidnight, Record
  <2>2. certs[c] \in CertRow /\ day \in Days BY <1>2 DEF TypeOK
  <2>3. DueMilestones(certs[c], notified[c], day) = {}
    BY <1>2 DEF NothingLeftBehind, AlertDue
  <2>4. DueMilestones(certs[c], notified'[c], day) = {} BY <1>2, <2>3, DueShrinks
  <2> QED BY <1>2, <2>1, <2>2, <2>4, AlertedToday DEF AsHandled
<1>3. ASSUME NEW s \in Scans, Finish(s), scan[s].today = day, c \in InOrder(s),
             UNCHANGED <<day, certs, notified>>
      PROVE  ~AlertDue(Rules, certs'[c], notified'[c], day')
  <2>1. /\ c \in DOMAIN scan[s].rows /\ c \notin scan[s].failed /\ c \notin scan[s].todo
        /\ Reachable(scan[s].rows[c]) # {}
        /\ certs[c] = AsHandled(scan[s].rows[c], certs[c].last_notified_on)
    BY <1>3 DEF InOrder, Finish, AsHandled
  <2>2. scan[s].rows[c] \in CertRow BY <1>3, <2>1, ScanType DEF Finish
  <2>3. AsHandled(scan[s].rows[c], certs[c].last_notified_on).cycle = scan[s].rows[c].cycle
    BY <2>2 DEF AsHandled, CertRow
  <2>4. SameCycle(s, c) BY <2>1, <2>3 DEF SameCycle
  <2> QED BY <1>3, <2>1, <2>4 DEF Handled, Finish
<1> QED BY <1>1, <1>2, <1>3, SettledMoves

\* All of this together, whatever fails and whoever edits.
LEMMA ScanInvariant == ASSUME OneScan PROVE Spec => []ScanInv
<1>1. Init => ScanInv
  <2>1. Init => TypeOK
    BY DatesAssumption, MaxCycleAssumption DEF Init, TypeOK, Scanning, Days
  <2> QED BY <2>1 DEF Init, ScanInv, Behind, Untouched, DueIsCurrent, Handled, PastMidnight,
                      SentSinceBooked, NothingLeftBehind, Scanning
<1>2. ScanInv /\ [Next]_vars => ScanInv'
  <2> SUFFICES ASSUME ScanInv, [Next]_vars PROVE ScanInv' OBVIOUS
  <2>1. TypeOK' /\ Behind' /\ NothingLeftBehind'
    BY TypeStep, BehindStep, NothingLeftBehindStep DEF ScanInv
  <2>2. Untouched' /\ DueIsCurrent' /\ Handled' /\ PastMidnight' /\ SentSinceBooked'
    BY UntouchedStep, DueIsCurrentStep, HandledStep, PastMidnightStep, SentSinceBookedStep
       DEF ScanInv
  <2> QED BY <2>1, <2>2 DEF ScanInv
<1> QED BY <1>1, <1>2, PTL DEF Spec

\* A scan that got through leaves nothing due behind for the items it reached (RunOnce goes on
\* after an item's failure), whatever else fails and whatever owners edit during the scan: for
\* one scan at a time.
THEOREM NobodyIsLeftBehind == ASSUME OneScan PROVE Spec => []NothingLeftBehind
<1>1. ScanInv => NothingLeftBehind BY DEF ScanInv
<1> QED BY <1>1, ScanInvariant, PTL

\* CalmSpec has fewer behaviours than Spec.
LEMMA CalmIsSpec == CalmSpec => Spec
<1>1. [Next /\ ExpiryStaysDuringScans]_vars => [Next]_vars OBVIOUS
<1> QED BY <1>1, PTL DEF CalmSpec, Spec

\* An item that need not be alerted has been alerted within its rung's interval.
LEMMA QuietMeansAlerted ==
  ASSUME TypeOK, NothingLeftBehind, LastMeansAlerted, SentSinceBooked PROVE NoSilentGap
<1> SUFFICES ASSUME NEW c \in settled, IntervalFor(Rules, DaysUntil(certs[c].expiry, day)) > 0
             PROVE  \E a \in Alerts(c) :
                      day - a.day < IntervalFor(Rules, DaysUntil(certs[c].expiry, day))
  BY DEF NoSilentGap
<1> DEFINE interval == IntervalFor(Rules, DaysUntil(certs[c].expiry, day))
           last == certs[c].last_notified_on
<1>1. c \in Certs /\ certs[c] \in CertRow /\ day \in Nat
  BY DatesAssumption DEF TypeOK, Days
<1>2. interval \in Nat
  <2>1. certs[c].expiry \in Int BY <1>1, DatesAssumption DEF CertRow
  <2>2. DaysUntil(certs[c].expiry, day) \in Int BY <1>1, <2>1 DEF DaysUntil
  <2> QED BY <2>2, IntervalIsNat
<1>3. ~CadenceDue(last, day, interval) BY DEF NothingLeftBehind, AlertDue
<1> HIDE DEF interval, last
<1>4. last # Never /\ ~(day - last >= interval) BY <1>3 DEF CadenceDue
<1>5. last \in Nat BY <1>1, <1>4, DatesAssumption DEF last, CertRow, Days
<1>6. PICK a \in Alerts(c) : a.booked = last BY <1>1, <1>4 DEF LastMeansAlerted, last
<1>7. last <= a.day /\ a.day \in Nat
  <2>1. PICK i \in DOMAIN mail[c] : a = mail[c][i] BY DEF Alerts
  <2>2. mail[c] \in Seq(Alert) BY <1>1 DEF TypeOK
  <2>3. a \in Alert BY <2>1, <2>2
  <2> QED BY <1>1, <1>6, <2>1, <2>3, DatesAssumption DEF SentSinceBooked, Alert, Days
<1>8. day - a.day < interval BY <1>1, <1>2, <1>4, <1>5, <1>7
<1> QED BY <1>8 DEF interval

\* After a scan that got through, an item on the ladder has been alerted within the interval of
\* its rung (the escalation of cadenceDue): for one scan at a time, as long as expiry dates
\* stay during scans.
THEOREM GapsAreShort == ASSUME OneScan PROVE CalmSpec => []NoSilentGap
<1>1. ScanInv /\ CalmInv => NoSilentGap BY QuietMeansAlerted DEF ScanInv, CalmInv
<1> QED BY <1>1, ScanInvariant, CalmInvariant, CalmIsSpec, PTL

-----------------------------------------------------------------------------
(* Who is told twice: one scan at a time that may be cut short between items, no *)
(* other failure, and no new expiry date under way                                  *)

Undisturbed == Faults \subseteq {"cancel"}

\* The scan has alerted for the item and is about to record that.
InHand(s, c) == Scanning(s) /\ scan[s].step = "record" /\ c \in scan[s].at

\* A milestone is recorded, and the item's clock is at a day or later, now or by then.
Accounted(c, t) == t \in notified[c] \/ \E s \in Scans : InHand(s, c) /\ t \in scan[s].due
Noted(c, d) ==
  \/ certs[c].last_notified_on # Never /\ d <= certs[c].last_notified_on
  \/ \E s \in Scans : InHand(s, c) /\ d <= scan[s].today

\* No alert is of a cycle to come.
MailIsPast == \A c \in Certs : \A i \in DOMAIN mail[c] : mail[c][i].cycle <= certs[c].cycle

\* An alert accounts for the day it is booked under, for what it announced, and for every milestone of its
\* item that had passed.
CountsFor(c, a) ==
  /\ \A t \in a.consumed : Accounted(c, t)
  /\ Noted(c, a.booked)
  /\ IF DaysUntil(certs[c].expiry, a.booked) < 0
     THEN Accounted(c, expiredSentinel)
     ELSE \A t \in a.milestones : DaysUntil(certs[c].expiry, a.booked) <= t => Accounted(c, t)
AlertsCount == \A c \in Certs : \A a \in Alerts(c) : CountsFor(c, a)

\* No clock is ahead of today, or of a scan.
ClockBehind ==
  \A c \in Certs : certs[c].last_notified_on # Never =>
    /\ certs[c].last_notified_on <= day
    /\ \A s \in Scans : Scanning(s) => certs[c].last_notified_on <= scan[s].today

\* What a scan is about to alert for is due.
DueThen ==
  \A s \in Scans : Scanning(s) /\ scan[s].step = "send" => \A c \in scan[s].at : DueNow(s, c)

\* Within a cycle, a later alert is booked under a later day, unless it is for a milestone
\* the item did not have before.
LaterDayOrNew ==
  \A c \in Certs : \A i, j \in DOMAIN mail[c] :
    i < j /\ mail[c][i].cycle = mail[c][j].cycle
      => mail[c][i].booked < mail[c][j].booked \/ NewMilestone(mail[c][i], mail[c][j])

OnceInv ==
  /\ ScanInv /\ CalmInv /\ MailIsPast /\ AlertsCount /\ ClockBehind /\ DueThen
  /\ LaterDayOrNew /\ MilestonesFireOnce

\* What Record writes.
LEMMA RecordedRow ==
  ASSUME TypeOK, NEW s \in Scans, Record(s), NEW c \in scan[s].at
  PROVE  /\ c \in Certs /\ scan[s].at = {c} /\ scan'[s] = Past(scan[s], c, {})
         /\ certs'[c].last_notified_on = scan[s].today
         /\ notified'[c] = notified[c] \cup scan[s].due
<1>1. Scanning(s) /\ scan[s].step = "record" BY DEF Record
<1>2. c \in DOMAIN scan[s].rows /\ scan[s].at = {c} /\ DOMAIN scan[s].rows \subseteq Certs
  BY <1>1, ScanType DEF Fits
<1>3. c \in Certs /\ certs[c] \in CertRow BY <1>2 DEF TypeOK
<1>4. /\ certs' = [certs EXCEPT ![c].last_notified_on = scan[s].today]
      /\ notified' = [notified EXCEPT ![c] = @ \cup scan[s].due]
      /\ Advance(s, c, {})
  BY <1>2 DEF Record
<1> QED BY <1>2, <1>3, <1>4 DEF TypeOK, CertRow, Advance

\* Without failures what has been sent is recorded next,
LEMMA InHandMoves ==
  ASSUME Undisturbed, TypeOK, [Next]_vars, NEW s \in Scans, NEW c, InHand(s, c)
  PROVE  scan'[s] = scan[s] \/ Record(s)
<1>1. ~Crash /\ ~ScanFault(s) 
  BY DEF Undisturbed, Crash, ScanFault, ReadFails, RecordFails, Cancel, InHand
<1>2. ~StartScan(s) BY DEF StartScan, InHand
<1>3. ScanStep(s) => Record(s) BY DEF ScanStep, Skip, Decide, Send, Finish, InHand
<1> QED BY <1>1, <1>2, <1>3, ScanMoves

\* and what is sent is sent off.
LEMMA SendIsSent ==
  ASSUME Undisturbed, TypeOK, NEW s \in Scans, Send(s) PROVE scan'[s] = Sent(scan[s])
<1>1. "channel" \notin Faults BY DEF Undisturbed
<1>2. scan' = [scan EXCEPT ![s].step = "record"] BY <1>1 DEF Send, AfterSend
<1> QED BY <1>2 DEF TypeOK, Sent

\* Within a cycle nothing that is accounted for is forgotten.
LEMMA AccountsKept ==
  ASSUME OneScan, Undisturbed, TypeOK, ClockBehind, [Next]_vars, NEW c \in Certs,
         certs'[c].cycle = certs[c].cycle
  PROVE  /\ certs'[c].expiry = certs[c].expiry
         /\ \A t : Accounted(c, t) => Accounted(c, t)'
         /\ \A d \in Days : Noted(c, d) => Noted(c, d)'
<1>1. certs[c].cycle # certs[c].cycle + 1 BY TimeGoesOn
<1>2. /\ certs'[c].expiry = certs[c].expiry
      /\ \/ /\ certs'[c].last_notified_on = certs[c].last_notified_on
            /\ notified'[c] = notified[c]
         \/ \E s \in Scans : Record(s) /\ c \in scan[s].at
  BY <1>1, RowMoves
<1>3. ASSUME NEW s \in Scans, InHand(s, c)
      PROVE  (InHand(s, c)' /\ scan'[s] = scan[s]) \/ (Record(s) /\ c \in scan[s].at)
  BY <1>3, InHandMoves DEF InHand, Scanning
<1>4. ASSUME NEW s \in Scans, Record(s), c \in scan[s].at
      PROVE  /\ certs'[c].last_notified_on = scan[s].today /\ scan[s].today \in Days
             /\ notified'[c] = notified[c] \cup scan[s].due
             /\ certs[c].last_notified_on # Never => certs[c].last_notified_on <= scan[s].today
  <2>1. Scanning(s) BY <1>4 DEF Record
  <2>2. scan[s].today \in Days BY <2>1, ScanType DEF Progress
  <2> QED BY <1>4, <2>1, <2>2, RecordedRow DEF ClockBehind
<1>5. ASSUME NEW t, Accounted(c, t) PROVE Accounted(c, t)'
  <2>1. CASE t \in notified[c] BY <1>2, <1>4, <2>1 DEF Accounted
  <2>2. CASE \E s \in Scans : InHand(s, c) /\ t \in scan[s].due
    BY <1>3, <1>4, <2>2 DEF Accounted
  <2> QED BY <1>5, <2>1, <2>2 DEF Accounted
<1>6. ASSUME NEW d \in Days, Noted(c, d) PROVE Noted(c, d)'
  <2>1. d \in Nat /\ \A x \in Days : x \in Nat /\ x # Never BY DatesAssumption DEF Days
  <2>2. certs[c].last_notified_on \in Days \cup {Never} BY DEF TypeOK, CertRow
  <2>3. CASE certs[c].last_notified_on # Never /\ d <= certs[c].last_notified_on
    <3>1. ASSUME NEW s \in Scans, Record(s), c \in scan[s].at PROVE Noted(c, d)'
      <4>1. /\ certs'[c].last_notified_on = scan[s].today /\ scan[s].today \in Days
            /\ certs[c].last_notified_on <= scan[s].today
        BY <1>4, <2>3, <3>1
      <4>2. scan[s].today \in Nat /\ scan[s].today # Never /\ certs[c].last_notified_on \in Nat
        BY <2>1, <2>2, <2>3, <4>1
      <4>3. d <= scan[s].today BY <2>1, <2>3, <4>1, <4>2
      <4> QED BY <4>1, <4>2, <4>3 DEF Noted
    <3> QED BY <1>2, <2>3, <3>1 DEF Noted
  <2>4. ASSUME NEW s \in Scans, InHand(s, c), d <= scan[s].today PROVE Noted(c, d)'
    BY <1>3, <1>4, <2>1, <2>4 DEF Noted
  <2> QED BY <1>6, <2>3, <2>4 DEF Noted
<1> QED BY <1>2, <1>5, <1>6

\* The alerts of a cycle that goes on are the old ones and what is sent now; a new cycle
\* has none.
LEMMA AlertsMove ==
  ASSUME TypeOK, MailIsPast, [Next]_vars, NEW c \in Certs, NEW a \in Alerts(c)'
  PROVE  /\ certs'[c].cycle = certs[c].cycle
         /\ \/ a \in Alerts(c)
            \/ \E s \in Scans : \E errs : Send(s) /\ c \in scan[s].at /\ a = NewAlert(s, c, errs)
<1>1. PICK i \in DOMAIN mail'[c] : a = mail'[c][i] /\ a.cycle = certs'[c].cycle
  BY DEF Alerts
<1>2. certs'[c].cycle = certs[c].cycle
  <2>1. SUFFICES ASSUME mail' = mail, certs'[c].cycle = certs[c].cycle + 1 PROVE FALSE
    BY RowMoves
  <2>2. mail[c][i].cycle <= certs[c].cycle /\ mail[c][i].cycle = certs[c].cycle + 1
    BY <1>1, <2>1 DEF MailIsPast
  <2> QED BY <2>2, TimeGoesOn
<1>3. CASE mail'[c] = mail[c] BY <1>1, <1>2, <1>3 DEF Alerts
<1>4. ASSUME NEW s \in Scans, NEW errs, Send(s), c \in scan[s].at,
             mail'[c] = Append(mail[c], NewAlert(s, c, errs))
      PROVE  a \in Alerts(c) \/ a = NewAlert(s, c, errs)
  <2>1. mail[c] \in Seq(Alert) BY DEF TypeOK
  <2>2. \/ i \in DOMAIN mail[c] /\ mail'[c][i] = mail[c][i]
        \/ mail'[c][i] = NewAlert(s, c, errs)
    BY <1>1, <1>4, <2>1
  <2> QED BY <1>1, <1>2, <2>2 DEF Alerts
<1> QED BY <1>2, <1>3, <1>4, MailMoves

\* A scan that sends: what it knows of its item.
LEMMA Sending ==
  ASSUME ScanInv, CalmInv, DueThen, NEW s \in Scans, Send(s), NEW c \in scan[s].at
  PROVE  /\ c \in Certs /\ scan[s].rows[c] \in CertRow
         /\ scan[s].today \in Days /\ scan[s].step = "send"
         /\ scan[s].rows[c].cycle = certs[c].cycle /\ scan[s].rows[c].expiry = certs[c].expiry
         /\ scan[s].rows[c].last_notified_on = certs[c].last_notified_on
         /\ scan[s].due = DueMilestones(scan[s].rows[c], notified[c], scan[s].today)
         /\ DueNow(s, c) /\ UNCHANGED <<certs, notified, day>>
<1>1. TypeOK /\ Scanning(s) /\ scan[s].step = "send" /\ UNCHANGED <<certs, notified, day>>
  BY DEF Send, ScanInv
<1>2. scan[s] \in Progress /\ c \in scan[s].todo /\ c \in DOMAIN scan[s].rows
  BY <1>1, ScanType DEF Fits
<1>3. c \in Certs /\ scan[s].rows[c] \in CertRow /\ scan[s].today \in Days
  BY <1>1, <1>2, ScanType DEF Progress
<1>4. scan[s].rows[c].cycle = certs[c].cycle /\ scan[s].rows[c].expiry = certs[c].expiry
  BY <1>1, <1>2 DEF CalmInv, OwnCycle
<1>5. scan[s].rows[c].last_notified_on = certs[c].last_notified_on
  BY <1>1, <1>2, <1>4 DEF ScanInv, Untouched, SameCycle
<1>6. scan[s].due = DueMilestones(scan[s].rows[c], notified[c], scan[s].today)
  BY <1>1, <1>4 DEF ScanInv, DueIsCurrent, SameCycle
<1> QED BY <1>1, <1>3, <1>4, <1>5, <1>6 DEF DueThen

\* An alert counts from the moment it is sent: the scan has what it announced in hand.
LEMMA AlertsCountStep ==
  ASSUME OneScan, Undisturbed, OnceInv, [Next]_vars PROVE AlertsCount'
<1> USE DEF OnceInv
<1> SUFFICES ASSUME NEW c \in Certs, NEW a \in Alerts(c)' PROVE CountsFor(c, a)'
  BY DEF AlertsCount
<1>1. TypeOK BY DEF ScanInv
<1>2. certs'[c].cycle = certs[c].cycle BY <1>1, AlertsMove
<1>3. CASE a \in Alerts(c)
  <2>1. CountsFor(c, a) BY <1>3 DEF AlertsCount
  <2>2. a.booked \in Days
    <3>1. mail[c] \in Seq(Alert) BY <1>1 DEF TypeOK
    <3>2. PICK i \in DOMAIN mail[c] : a = mail[c][i] BY <1>3 DEF Alerts
    <3>3. mail[c][i] \in Alert BY <3>1
    <3> QED BY <3>2, <3>3 DEF Alert
  <2>3. /\ certs'[c].expiry = certs[c].expiry
        /\ \A t : Accounted(c, t) => Accounted(c, t)'
        /\ \A d \in Days : Noted(c, d) => Noted(c, d)'
    BY <1>1, <1>2, AccountsKept
  <2> QED BY <2>1, <2>2, <2>3 DEF CountsFor
<1>4. ASSUME NEW s \in Scans, NEW errs, Send(s), c \in scan[s].at, a = NewAlert(s, c, errs)
      PROVE  CountsFor(c, a)'
  <2>1. /\ scan[s].rows[c] \in CertRow /\ scan[s].today \in Days
        /\ scan[s].rows[c].expiry = certs[c].expiry
        /\ scan[s].due = DueMilestones(scan[s].rows[c], notified[c], scan[s].today)
        /\ UNCHANGED <<certs, notified, day>>
    BY <1>4, Sending
  <2>2. scan'[s] = Sent(scan[s]) /\ scan[s] \in Progress
    BY <1>1, <1>4, SendIsSent, ScanType DEF Send
  <2>3. /\ scan'[s].step = "record" /\ scan'[s].at = scan[s].at /\ scan'[s].due = scan[s].due
        /\ scan'[s].today = scan[s].today
    BY <2>2, SentStage
  <2>4. InHand(s, c)' BY <1>4, <2>3 DEF InHand, Scanning, Idle
  <2>5. /\ a.consumed = scan[s].due /\ a.booked = scan[s].today
        /\ a.milestones = scan[s].rows[c].reminder_days
    BY <1>4 DEF NewAlert
  <2>6. \A t : t \in notified[c] \cup scan[s].due => Accounted(c, t)'
    BY <2>1, <2>3, <2>4 DEF Accounted
  <2>7. Noted(c, a.booked)'
    <3>1. a.booked <= scan'[s].today BY <2>1, <2>3, <2>5, DatesAssumption DEF Days
    <3> QED BY <2>4, <3>1 DEF Noted
  <2> DEFINE days == DaysUntil(certs[c].expiry, a.booked)
  <2>8. scan[s].due = IF days < 0
                      THEN IF expiredSentinel \in notified[c] THEN {}
                           ELSE {expiredSentinel} \cup scan[s].rows[c].reminder_days
                      ELSE {t \in scan[s].rows[c].reminder_days : days <= t /\ t \notin notified[c]}
    BY <2>1, <2>5 DEF DueMilestones
  <2>9. CASE days < 0
    <3>1. expiredSentinel \in notified[c] \cup scan[s].due BY <2>8, <2>9
    <3> QED BY <2>1, <2>5, <2>6, <2>7, <2>9, <3>1 DEF CountsFor
  <2>10. CASE ~(days < 0)
    <3>1. \A t \in a.milestones : days <= t => t \in notified[c] \cup scan[s].due
      BY <2>5, <2>8, <2>10
    <3> QED BY <2>1, <2>5, <2>6, <2>7, <2>10, <3>1 DEF CountsFor
  <2> QED BY <2>9, <2>10
<1> QED BY <1>1, <1>3, <1>4, AlertsMove

\* An alert that is sent announces something new, and is booked under a later day or is for
\* a milestone the item did not have before.
LEMMA NewAlertIsNew ==
  ASSUME OneScan, ScanInv, CalmInv, AlertsCount, ClockBehind, DueThen,
         NEW s \in Scans, Send(s), NEW c \in scan[s].at, NEW a \in Alerts(c), NEW new,
         new.consumed = scan[s].due
  PROVE  /\ Announced(new) \cap Announced(a) = {}
         /\ a.booked < scan[s].today \/ NewMilestone(a, new)
<1> DEFINE row == scan[s].rows[c]
           due == scan[s].due
           today == scan[s].today
           days == DaysUntil(row.expiry, today)
<1>1. /\ c \in Certs /\ row \in CertRow /\ today \in Days /\ scan[s].step = "send"
      /\ row.expiry = certs[c].expiry /\ row.last_notified_on = certs[c].last_notified_on
      /\ due = DueMilestones(row, notified[c], today) /\ DueNow(s, c)
  BY Sending
<1>2. \A x \in Scans : ~InHand(x, c) BY <1>1 DEF OneScan, InHand
<1>3. CountsFor(c, a) BY <1>1 DEF AlertsCount
<1>4. a.consumed \subseteq notified[c] BY <1>2, <1>3 DEF CountsFor, Accounted
<1>5. certs[c].last_notified_on # Never /\ a.booked <= certs[c].last_notified_on
  BY <1>2, <1>3 DEF CountsFor, Noted
<1>6. due = IF days < 0
            THEN IF expiredSentinel \in notified[c] THEN {}
                 ELSE {expiredSentinel} \cup row.reminder_days
            ELSE {t \in row.reminder_days : days <= t /\ t \notin notified[c]}
  BY <1>1 DEF DueMilestones
<1>7. row.reminder_days \subseteq Nat BY <1>1, MilestonesAssumption DEF CertRow
<1>8. expiredSentinel \notin row.reminder_days BY <1>7 DEF expiredSentinel
<1>9. new.consumed = due OBVIOUS
<1> HIDE DEF row, due, today, days
<1>10. Announced(a) \subseteq notified[c] BY <1>4 DEF Announced
<1>11. Announced(new) \cap notified[c] = {}
  <2>1. CASE expiredSentinel \in due
    <3>1. expiredSentinel \notin notified[c] BY <1>6, <1>8, <2>1
    <3> QED BY <1>9, <2>1, <3>1 DEF Announced
  <2>2. CASE expiredSentinel \notin due
    <3>1. due \cap notified[c] = {} BY <1>6, <2>2
    <3> QED BY <1>9, <2>2, <3>1 DEF Announced
  <2> QED BY <2>1, <2>2
<1>12. ASSUME a.booked = today PROVE due \ (a.milestones \cup {expiredSentinel}) # {}
  <2>1. due # {}
    <3>1. Scanning(s) BY DEF Send
    <3>2. certs[c].last_notified_on <= today BY <1>1, <1>5, <3>1 DEF ClockBehind, today
    <3>3. certs[c].last_notified_on \in Nat /\ today \in Nat
      <4>1. certs[c] \in CertRow BY <1>1 DEF ScanInv, TypeOK
      <4> QED BY <1>1, <1>5, <4>1, DatesAssumption DEF CertRow, Days
    <3>4. today - row.last_notified_on = 0 BY <1>1, <1>5, <1>12, <3>2, <3>3
    <3>5. IntervalFor(Rules, days) \in Nat
      <4>1. row.expiry \in Int BY <1>1, DatesAssumption DEF CertRow
      <4>2. days \in Int BY <3>3, <4>1 DEF days, DaysUntil
      <4> QED BY <4>2, IntervalIsNat
    <3>6. ~(IntervalFor(Rules, days) > 0
            /\ CadenceDue(row.last_notified_on, today, IntervalFor(Rules, days)))
      BY <1>1, <1>5, <3>4, <3>5 DEF CadenceDue
    <3>7. DueMilestones(row, notified[c], today) # {}
          \/ (IntervalFor(Rules, days) > 0
              /\ CadenceDue(row.last_notified_on, today, IntervalFor(Rules, days)))
      BY <1>1 DEF DueNow, AlertDue, row, today, days
    <3> QED BY <1>1, <3>6, <3>7
  <2>2. days = DaysUntil(certs[c].expiry, a.booked) BY <1>1, <1>12 DEF days
  <2>3. CASE days < 0
    <3>1. expiredSentinel \in notified[c] BY <1>2, <1>3, <2>2, <2>3 DEF CountsFor, Accounted
    <3> QED BY <1>6, <2>1, <2>3, <3>1
  <2>4. CASE ~(days < 0)
    <3>1. PICK t \in due : TRUE BY <2>1
    <3>2. t \in row.reminder_days /\ days <= t /\ t \notin notified[c] BY <1>6, <2>4, <3>1
    <3>3. t \notin a.milestones BY <1>2, <1>3, <2>2, <2>4, <3>2 DEF CountsFor, Accounted
    <3>4. t # expiredSentinel BY <1>8, <3>2
    <3> QED BY <3>1, <3>3, <3>4
  <2> QED BY <2>3, <2>4
<1>13. a.booked <= today /\ a.booked \in Nat /\ today \in Nat
  <2>1. PICK i \in DOMAIN mail[c] : a = mail[c][i] BY DEF Alerts
  <2>2. mail[c] \in Seq(Alert) BY <1>1 DEF ScanInv, TypeOK
  <2>3. a.booked \in Nat /\ today \in Nat
    <3>1. a \in Alert BY <2>1, <2>2
    <3> QED BY <1>1, <3>1, DatesAssumption DEF Alert, Days
  <2>4. certs[c].last_notified_on <= today BY <1>1, <1>5 DEF ClockBehind, Send, today
  <2>5. certs[c].last_notified_on \in Nat
    <3>1. certs[c] \in CertRow BY <1>1 DEF ScanInv, TypeOK
    <3> QED BY <1>5, <3>1, DatesAssumption DEF CertRow, Days
  <2> QED BY <1>5, <2>3, <2>4, <2>5
<1> QED BY <1>9, <1>10, <1>11, <1>12, <1>13 DEF today, NewMilestone

\* A step adds at most one alert, and that one is new.
LEMMA OnceStep ==
  ASSUME OneScan, OnceInv, [Next]_vars PROVE LaterDayOrNew' /\ MilestonesFireOnce'
<1> USE DEF OnceInv
<1> DEFINE Apart(a, b) ==
             /\ a.cycle = b.cycle => Announced(a) \cap Announced(b) = {}
             /\ a.cycle = b.cycle => a.booked < b.booked \/ NewMilestone(a, b)
<1>1. ASSUME NEW c \in Certs, NEW i \in DOMAIN mail[c], NEW j \in DOMAIN mail[c], i < j
      PROVE  Apart(mail[c][i], mail[c][j])
  <2>1. i \in Nat /\ j \in Nat /\ i # j
    <3>1. mail[c] \in Seq(Alert) BY DEF ScanInv, TypeOK
    <3> QED BY <1>1, <3>1
  <2> QED BY <1>1, <2>1 DEF LaterDayOrNew, MilestonesFireOnce
<1>2. ASSUME NEW c \in Certs, NEW i \in DOMAIN mail'[c], NEW j \in DOMAIN mail'[c], i < j
      PROVE  Apart(mail'[c][i], mail'[c][j])
  <2>1. TypeOK /\ mail[c] \in Seq(Alert) BY DEF ScanInv, TypeOK
  <2>2. CASE mail'[c] = mail[c] BY <1>1, <1>2, <2>2
  <2>3. ASSUME NEW s \in Scans, NEW errs, Send(s), c \in scan[s].at,
               mail'[c] = Append(mail[c], NewAlert(s, c, errs))
        PROVE  Apart(mail'[c][i], mail'[c][j])
    <3>1. /\ i \in DOMAIN mail[c] /\ mail'[c][i] = mail[c][i]
          /\ \/ j \in DOMAIN mail[c] /\ mail'[c][j] = mail[c][j]
             \/ mail'[c][j] = NewAlert(s, c, errs)
      BY <1>2, <2>1, <2>3
    <3>2. CASE j \in DOMAIN mail[c] /\ mail'[c][j] = mail[c][j] BY <1>1, <1>2, <3>1, <3>2
    <3>3. CASE mail'[c][j] = NewAlert(s, c, errs)
      <4> DEFINE new == NewAlert(s, c, errs)
      <4>1. /\ new.cycle = certs[c].cycle /\ new.booked = scan[s].today
            /\ new.consumed = scan[s].due
        BY <2>3, Sending DEF NewAlert
      <4> HIDE DEF new
      <4>2. CASE mail[c][i].cycle = certs[c].cycle
        <5>1. mail[c][i] \in Alerts(c) BY <3>1, <4>2 DEF Alerts
        <5>2. /\ Announced(new) \cap Announced(mail[c][i]) = {}
              /\ mail[c][i].booked < scan[s].today \/ NewMilestone(mail[c][i], new)
          BY <2>3, <4>1, <5>1, NewAlertIsNew
        <5> QED BY <3>1, <3>3, <4>1, <5>2 DEF new
      <4>3. CASE mail[c][i].cycle # certs[c].cycle BY <3>1, <3>3, <4>1, <4>3 DEF new
      <4> QED BY <4>2, <4>3
    <3> QED BY <3>1, <3>2, <3>3
  <2> QED BY <2>1, <2>2, <2>3, MailMoves
<1>3. LaterDayOrNew' BY <1>2 DEF LaterDayOrNew
<1>4. MilestonesFireOnce'
  <2> SUFFICES ASSUME NEW c \in Certs, NEW i \in DOMAIN mail'[c], NEW j \in DOMAIN mail'[c],
                      i # j, mail'[c][i].cycle = mail'[c][j].cycle
               PROVE  Announced(mail'[c][i]) \cap Announced(mail'[c][j]) = {}
    BY DEF MilestonesFireOnce
  <2>1. i < j \/ j < i
    <3>1. TypeOK' BY TypeStep DEF ScanInv
    <3>2. mail'[c] \in Seq(Alert) BY <3>1 DEF TypeOK
    <3> QED BY <3>2
  <2> QED BY <1>2, <2>1
<1> QED BY <1>3, <1>4

\* Alerts are of the present cycle when they are sent.
LEMMA MailIsPastStep ==
  ASSUME ScanInv, CalmInv, DueThen, MailIsPast, [Next]_vars PROVE MailIsPast'
<1> SUFFICES ASSUME NEW c \in Certs, NEW i \in DOMAIN mail'[c]
             PROVE  mail'[c][i].cycle <= certs'[c].cycle
  BY DEF MailIsPast
<1>1. TypeOK /\ mail[c] \in Seq(Alert) BY DEF ScanInv, TypeOK
<1>2. /\ certs[c].cycle \in Nat /\ certs'[c].cycle \in Nat /\ certs[c].cycle <= certs'[c].cycle
  BY <1>1, TimeGoesOn
<1>3. ASSUME i \in DOMAIN mail[c], mail'[c][i] = mail[c][i]
      PROVE  mail'[c][i].cycle <= certs'[c].cycle
  <2>1. mail[c][i].cycle \in Nat
    <3>1. mail[c][i] \in Alert BY <1>1, <1>3
    <3> QED BY <3>1, MaxCycleAssumption DEF Alert
  <2> QED BY <1>2, <1>3, <2>1 DEF MailIsPast
<1>4. ASSUME NEW s \in Scans, NEW errs, Send(s), c \in scan[s].at,
             mail'[c][i] = NewAlert(s, c, errs)
      PROVE  mail'[c][i].cycle <= certs'[c].cycle
  BY <1>2, <1>4, Sending DEF NewAlert
<1>5. ASSUME NEW s \in Scans, NEW errs, mail'[c] = Append(mail[c], NewAlert(s, c, errs))
      PROVE  \/ i \in DOMAIN mail[c] /\ mail'[c][i] = mail[c][i]
             \/ mail'[c][i] = NewAlert(s, c, errs)
  BY <1>1, <1>5
<1> QED BY <1>1, <1>3, <1>4, <1>5, MailMoves

\* Clocks are set to the day of the scan, which is today or earlier.
LEMMA ClockBehindStep ==
  ASSUME OneScan, ScanInv, ClockBehind, [Next]_vars PROVE ClockBehind'
<1> SUFFICES ASSUME NEW c \in Certs, certs'[c].last_notified_on # Never
             PROVE  /\ certs'[c].last_notified_on <= day'
                    /\ \A s \in Scans : Scanning(s)' => certs'[c].last_notified_on <= scan'[s].today
  BY DEF ClockBehind
<1> DEFINE last == certs'[c].last_notified_on
<1>1. TypeOK /\ TypeOK' BY TypeStep DEF ScanInv
<1>2. day \in Nat /\ day' \in Nat /\ day <= day' BY <1>1, TimeGoesOn
<1>3. last \in Nat
  <2>1. certs'[c] \in CertRow' BY <1>1 DEF TypeOK
  <2> QED BY <2>1, DatesAssumption DEF CertRow, Days
<1>4. CASE last = certs[c].last_notified_on
  <2>1. last <= day /\ last <= day' BY <1>2, <1>3, <1>4 DEF ClockBehind
  <2>2. ASSUME NEW s \in Scans, Scanning(s)' PROVE last <= scan'[s].today
    <3>1. CASE StartScan(s) BY <1>1, <2>1, <3>1 DEF StartScan, TypeOK
    <3>2. CASE ~StartScan(s)
      <4>1. Scanning(s) /\ scan'[s].today = scan[s].today BY <1>1, <2>2, <3>2, ListingKept
      <4> QED BY <1>4, <4>1 DEF ClockBehind
    <3> QED BY <3>1, <3>2
  <2> QED BY <2>1, <2>2
<1>5. ASSUME NEW x \in Scans, Record(x), c \in scan[x].at, last = scan[x].today
      PROVE  last <= day' /\ \A s \in Scans : Scanning(s)' => last <= scan'[s].today
  <2>1. Scanning(x) /\ day' = day BY <1>5 DEF Record
  <2>2. last <= day' BY <1>5, <2>1 DEF ScanInv, Behind
  <2>3. ASSUME NEW s \in Scans, Scanning(s)' PROVE last <= scan'[s].today
    <3>1. s = x BY DEF OneScan
    <3>2. ~StartScan(s) BY <2>1, <3>1 DEF StartScan
    <3>3. scan'[s].today = scan[s].today BY <1>1, <2>3, <3>2, ListingKept
    <3> QED BY <1>3, <1>5, <3>1, <3>3
  <2> QED BY <2>2, <2>3
<1> QED BY <1>1, <1>4, <1>5, RowMoves

\* What Decide found due is due until it is sent.
LEMMA DueThenStep ==
  ASSUME OneScan, ScanInv, CalmInv, DueThen, [Next]_vars, [Next /\ ExpiryStaysDuringScans]_vars
  PROVE  DueThen'
<1> SUFFICES ASSUME NEW s \in Scans, Scanning(s)', scan'[s].step = "send", NEW c \in scan'[s].at
             PROVE  AlertDue(Rules, scan'[s].rows[c], notified'[c], scan'[s].today)
  BY DEF DueThen, DueNow
<1>1. TypeOK /\ Behind BY DEF ScanInv
<1>2. ~StartScan(s) BY <1>1 DEF StartScan, TypeOK
<1>3. /\ Scanning(s) /\ scan'[s].rows = scan[s].rows /\ scan'[s].today = scan[s].today
  BY <1>1, <1>2, ListingKept
<1>4. scan[s] \in Progress /\ Fits(scan[s]) /\ DOMAIN scan[s].rows \subseteq Certs
  BY <1>1, <1>3, ScanType
<1>5. scan'[s] # Sent(scan[s]) /\ \A x, f : scan'[s] # Past(scan[s], x, f)
  BY <1>4, SentStage, PastStage
<1>6. CASE scan'[s] = scan[s]
  <2>1. c \in DOMAIN scan[s].rows BY <1>4, <1>6 DEF Fits
  <2>2. SameCycle(s, c)'
    <3>1. OwnCycle' BY <1>1, OwnCycleStep DEF CalmInv
    <3> QED BY <1>3, <2>1, <3>1 DEF OwnCycle, SameCycle
  <2>3. notified'[c] = notified[c] BY <1>1, <1>2, <1>3, <1>5, <2>1, <2>2, OwnRow
  <2> QED BY <1>3, <1>6, <2>3 DEF DueThen, DueNow
<1>7. CASE scan'[s] # scan[s]
  <2>1. PICK x \in scan[s].todo : Decide(s, x) /\ \E due : scan'[s] = Chosen(scan[s], x, due)
    BY <1>1, <1>2, <1>5, <1>7, ScanAdvances
  <2>2. c = x BY <1>4, <2>1, ChosenStage
  <2> QED BY <1>3, <2>1, <2>2 DEF Decide, DueNow
<1> QED BY <1>6, <1>7

\* All of this together.
LEMMA OnceInvariant == ASSUME OneScan, Undisturbed PROVE CalmSpec => []OnceInv
<1>1. Init => MailIsPast /\ AlertsCount /\ ClockBehind /\ DueThen /\ LaterDayOrNew /\ MilestonesFireOnce
  BY DEF Init, MailIsPast, AlertsCount, Alerts, ClockBehind, DueThen, LaterDayOrNew,
         MilestonesFireOnce, Scanning
<1> DEFINE Rest == /\ MailIsPast /\ AlertsCount /\ ClockBehind /\ DueThen
                   /\ LaterDayOrNew /\ MilestonesFireOnce
<1>2. ScanInv /\ CalmInv /\ Rest /\ [Next /\ ExpiryStaysDuringScans]_vars => Rest'
  <2> SUFFICES ASSUME ScanInv, CalmInv, Rest, [Next /\ ExpiryStaysDuringScans]_vars PROVE Rest'
    OBVIOUS
  <2>1. [Next]_vars /\ OnceInv BY DEF OnceInv
  <2> QED BY <2>1, AlertsCountStep, OnceStep, MailIsPastStep, ClockBehindStep, DueThenStep
<1>3. ScanInv /\ CalmInv /\ Rest => OnceInv BY DEF OnceInv
<1>4. Init => Rest BY <1>1
<1> HIDE DEF Rest
<1> QED BY <1>2, <1>3, <1>4, ScanInvariant, CalmInvariant, CalmIsSpec, PTL DEF CalmSpec

\* A later booking on one and the same day of sending: the earlier alert was overtaken by
\* midnight.
LEMMA LaterDayMeansMidnight ==
  ASSUME TypeOK, SentSinceBooked, LaterDayOrNew PROVE TwiceOnlyPastMidnight
<1> SUFFICES ASSUME NEW c \in Certs, NEW i \in DOMAIN mail[c], NEW j \in DOMAIN mail[c], i < j,
                    mail[c][i].cycle = mail[c][j].cycle, mail[c][i].day = mail[c][j].day,
                    mail[c][i].booked < mail[c][j].booked
             PROVE  mail[c][i].booked < mail[c][i].day
  BY DEF LaterDayOrNew, TwiceOnlyPastMidnight
<1>1. mail[c] \in Seq(Alert) BY DEF TypeOK
<1>2. mail[c][i] \in Alert /\ mail[c][j] \in Alert BY <1>1
<1>3. /\ mail[c][i].booked \in Nat /\ mail[c][i].day \in Nat
      /\ mail[c][j].booked \in Nat /\ mail[c][j].day \in Nat
  BY <1>2, DatesAssumption DEF Alert, Days
<1>4. mail[c][j].booked <= mail[c][j].day BY DEF SentSinceBooked
<1> QED BY <1>3, <1>4

\* "Never spammed twice in a day", as far as it goes: two alerts of one cycle go out on one
\* calendar day only if the second announces a milestone the item did not have at the first,
\* or if midnight came between the start of the first one's scan and its sending.  For one scan
\* at a time that only cancellation disturbs, as long as expiry dates stay during scans.
THEOREM SecondAlertsCrossMidnight ==
  ASSUME OneScan, Undisturbed PROVE CalmSpec => []TwiceOnlyPastMidnight
<1>1. OnceInv => TwiceOnlyPastMidnight BY LaterDayMeansMidnight DEF OnceInv, ScanInv
<1> QED BY <1>1, OnceInvariant, PTL

\* Under the same conditions no milestone of a cycle, and no expiry, is announced twice (the
\* sent set of dueMilestones), however milestones are edited.
THEOREM OneAlertPerMilestone ==
  ASSUME OneScan, Undisturbed PROVE CalmSpec => []MilestonesFireOnce
<1>1. OnceInv => MilestonesFireOnce BY DEF OnceInv
<1> QED BY <1>1, OnceInvariant, PTL

-----------------------------------------------------------------------------
(* The daily loop: what it inherits from the scan it starts *)

\* A step of the loop, of its clock or of the process is a step of a scan, of a day or of
\* the table, or leaves all of these alone.
LEMMA DailyStepIsAStep == ASSUME [DailyNext]_all PROVE [Next]_vars
<1>1. CASE Wake BY <1>1, LoopAssumption DEF Wake, Next
<1>2. CASE LoopStep BY <1>2, LoopAssumption DEF LoopStep, Next
<1>3. CASE LoopFault BY <1>3, LoopAssumption DEF LoopFault, Next
<1>4. CASE Owners BY <1>4 DEF Owners, Next
<1>5. CASE Tick BY <1>5 DEF Tick, Next
<1>6. CASE Die BY <1>6 DEF Die, Next
<1>7. CASE StartUp BY <1>7 DEF StartUp
<1>8. CASE Hang \/ UNCHANGED all BY <1>8 DEF Hang, all
<1> QED BY <1>1, <1>2, <1>3, <1>4, <1>5, <1>6, <1>7, <1>8 DEF DailyNext

\* The loop of Start does with its scans what RunOnce may do: whatever the clock, restarts
\* and owners do, its behaviours are behaviours of ReminderScan.
THEOREM DailyIsAScan == DailySpec => Spec
<1>1. DailyInit => Init BY DEF DailyInit
<1>2. [DailyNext]_all => [Next]_vars BY DailyStepIsAStep
<1> QED BY <1>1, <1>2, PTL DEF DailySpec, Spec

\* So a daily scan that got through leaves nothing due behind, also when it takes hours or runs past
\* midnight, clocks change, or the process died in the one before it: as long as nobody runs a
\* check by hand.
THEOREM DailyScanLeavesNobodyBehind ==
  ASSUME Scans = {loop} PROVE DailySpec => []NothingLeftBehind
<1>1. OneScan BY DEF OneScan
<1> QED BY <1>1, DailyIsAScan, NobodyIsLeftBehind, PTL

-----------------------------------------------------------------------------
(* The daily loop: its clock *)

\* The loop is between two scans, and its timer will fire at that hour, counted from
\* midnight.
Waiting == up /\ ~Scanning(loop)

Fires == hour + wait

\* Today's run is an hour early or late at most.
Earliest == IF length < Hours THEN runAt - 1 ELSE runAt
Latest == IF length > Hours THEN runAt + 1 ELSE runAt

ClockType ==
  /\ runAt \in 0..(Hours - 1)
  /\ length \in {Hours - 1, Hours, Hours + 1} /\ hour \in 0..(length - 1)
  /\ wait \in Int /\ up \in BOOLEAN
  /\ sofar \in [scans : 0..2, whole : BOOLEAN, usual : BOOLEAN]

\* On a day of the usual length the timer fires before midnight, or is set to the run of
\* the next day.  On another day it is not set to an hour beyond the next day.
TimerIsSet ==
  Waiting =>
    IF length = Hours THEN Fires \in hour..(Hours - 1) \/ (Fires = runAt + Hours /\ hour >= runAt)
    ELSE Fires \in Earliest..(length + Hours - 1)

\* On a usual day after a usual one the timer is set to today's run before it, and to
\* tomorrow's after it.
UsualDay ==
  sofar.usual =>
    /\ length = Hours
    /\ sofar.scans > 0 => hour >= runAt
    /\ Waiting => \/ Fires = runAt /\ hour <= runAt /\ sofar.scans = 0
                  \/ Fires = runAt + Hours /\ hour >= runAt

\* On any day, after one scan only a later reading of the run's time is left, and after two
\* none; but for a run in the first hour there is the 25th.
AnyDay ==
  /\ sofar.scans > 0 => /\ length # Hours => hour >= Earliest
                        /\ Waiting => Fires >= Latest
  /\ sofar.scans > 1 => /\ hour >= Latest
                        /\ Waiting => Fires >= length \/ (runAt = 0 /\ Fires = Hours)

\* A day that began with the loop waiting has had a scan, or will have one.
WholeDay ==
  sofar.whole => /\ up
                 /\ sofar.scans = 0 =>
                      ~Scanning(loop) /\ (runAt < Hours - 1 => Fires < length)

ClockInv == ClockType /\ TimerIsSet /\ UsualDay /\ AnyDay /\ WholeDay

\* The timer set after a scan of today, or when the process comes up.
LEMMA NewTimer ==
  ASSUME ClockType, UsualDay, AnyDay, NEW w \in nextRun
  PROVE  /\ w \in Int
         /\ IF length = Hours
            THEN hour + w \in hour..(Hours - 1) \/ (hour + w = runAt + Hours /\ hour >= runAt)
            ELSE hour + w \in Earliest..(length + Hours - 1)
         /\ sofar.usual => \/ hour + w = runAt /\ hour <= runAt /\ sofar.scans = 0
                           \/ hour + w = runAt + Hours /\ hour >= runAt
         /\ sofar.scans > 0 => hour + w >= Latest
         /\ sofar.scans > 1 => hour + w >= length \/ (runAt = 0 /\ hour + w = Hours)
<1>1. PICK run \in RunsToday : w = (IF run > hour THEN run ELSE run + Hours) - hour
  BY DEF nextRun
<1>2. /\ runAt \in Int /\ 0 <= runAt /\ runAt <= Hours - 1 /\ Hours \in Nat /\ Hours > 1
      /\ length \in Int /\ length \in {Hours - 1, Hours, Hours + 1}
      /\ hour \in Int /\ 0 <= hour /\ hour <= length - 1
      /\ sofar.scans \in 0..2
  BY HoursAssumption DEF ClockType
<1>3. run = runAt \/ run = runAt + (length - Hours)
  <2>1. PICK change \in {0, length - Hours} : run = runAt + change BY DEF RunsToday
  <2> QED BY <1>2, <2>1
<1>4. /\ Earliest = IF length < Hours THEN runAt - 1 ELSE runAt
      /\ Latest = IF length > Hours THEN runAt + 1 ELSE runAt
      /\ Earliest \in Int /\ Latest \in Int
  BY <1>2 DEF Earliest, Latest
<1>5. /\ run \in Int /\ Earliest <= run /\ run <= Latest
      /\ length = Hours => run = runAt
  BY <1>2, <1>3, <1>4
<1>6. w \in Int /\ ((hour + w = run /\ run > hour) \/ (hour + w = run + Hours /\ run <= hour))
  <2>1. CASE run > hour BY <1>1, <1>2, <1>5, <2>1
  <2>2. CASE ~(run > hour) BY <1>1, <1>2, <1>5, <2>2
  <2> QED BY <2>1, <2>2
<1>7. IF length = Hours
      THEN hour + w \in hour..(Hours - 1) \/ (hour + w = runAt + Hours /\ hour >= runAt)
      ELSE hour + w \in Earliest..(length + Hours - 1)
  BY <1>2, <1>4, <1>5, <1>6
<1>8. sofar.usual => \/ hour + w = runAt /\ hour <= runAt /\ sofar.scans = 0
                     \/ hour + w = runAt + Hours /\ hour >= runAt
  BY <1>2, <1>5, <1>6 DEF UsualDay
<1>9. sofar.scans > 0 => hour + w >= Latest
  BY <1>2, <1>4, <1>5, <1>6 DEF AnyDay
<1>10. sofar.scans > 1 => hour + w >= length \/ (runAt = 0 /\ hour + w = Hours)
  BY <1>2, <1>4, <1>5, <1>6 DEF AnyDay
<1> QED BY <1>6, <1>7, <1>8, <1>9, <1>10

\* Only a scan in progress goes on or fails.
LEMMA LoopScans ==
  ASSUME NEW s \in Scans, ScanStep(s) \/ ScanFault(s) PROVE Scanning(s)
BY DEF ScanStep, ScanFault, Skip, Decide, Send, Record, Finish, ReadFails, RecordFails, Cancel

\* The timer is reset while the day goes on.
LEMMA TimerReset ==
  ASSUME ClockInv, UNCHANGED <<runAt, hour, length>>, up' \in BOOLEAN,
         sofar' = sofar,
         wait' \in nextRun, sofar.whole => up' /\ sofar.scans # 0
  PROVE  ClockInv'
<1>1. ClockType /\ UsualDay /\ AnyDay BY DEF ClockInv
<1>2. /\ wait' \in Int
      /\ IF length = Hours
         THEN hour + wait' \in hour..(Hours - 1)
              \/ (hour + wait' = runAt + Hours /\ hour >= runAt)
         ELSE hour + wait' \in Earliest..(length + Hours - 1)
      /\ sofar.usual => \/ hour + wait' = runAt /\ hour <= runAt /\ sofar.scans = 0
                        \/ hour + wait' = runAt + Hours /\ hour >= runAt
      /\ sofar.scans > 0 => hour + wait' >= Latest
      /\ sofar.scans > 1 => hour + wait' >= length \/ (runAt = 0 /\ hour + wait' = Hours)
  BY <1>1, NewTimer
<1>3. Fires' = hour + wait' /\ Earliest' = Earliest /\ Latest' = Latest
  BY DEF Fires, Earliest, Latest
<1>4. ClockType' BY <1>1, <1>2 DEF ClockType
<1>5. TimerIsSet' BY <1>2, <1>3 DEF TimerIsSet
<1>6. UsualDay' BY <1>1, <1>2, <1>3 DEF UsualDay
<1>7. AnyDay' BY <1>1, <1>2, <1>3 DEF AnyDay
<1>8. WholeDay' BY DEF WholeDay
<1> QED BY <1>4, <1>5, <1>6, <1>7, <1>8 DEF ClockInv

\* The timer stands still while nobody waits for it.
LEMMA NobodyWaits ==
  ASSUME ClockInv, ~Waiting', UNCHANGED <<runAt, hour, length>>, up' \in BOOLEAN, wait' \in Int,
         sofar'.scans = sofar.scans, sofar'.usual = sofar.usual,
         sofar' \in [scans : 0..2, whole : BOOLEAN, usual : BOOLEAN],
         sofar'.whole => up' /\ sofar.scans # 0
  PROVE  ClockInv'
<1>1. ClockType /\ UsualDay /\ AnyDay BY DEF ClockInv
<1>2. Earliest' = Earliest /\ Latest' = Latest BY DEF Earliest, Latest
<1>3. ClockType' BY <1>1 DEF ClockType
<1>4. UsualDay' BY <1>1 DEF UsualDay
<1>5. AnyDay' BY <1>1, <1>2 DEF AnyDay
<1>6. WholeDay' BY DEF WholeDay
<1> QED BY <1>3, <1>4, <1>5, <1>6 DEF ClockInv, TimerIsSet

\* What holds when the timer fires.
LEMMA WakeTime ==
  ASSUME ClockInv, up, ~Scanning(loop), wait <= 0
  PROVE  /\ sofar.usual => hour = runAt /\ sofar.scans = 0
         /\ sofar.scans > 1 => hour = Hours /\ runAt = 0
         /\ length # Hours => hour >= Earliest
         /\ sofar.scans > 0 => hour >= Latest
<1>1. /\ runAt \in Int /\ 0 <= runAt /\ runAt <= Hours - 1 /\ Hours \in Nat /\ Hours > 1
      /\ length \in Int /\ length \in {Hours - 1, Hours, Hours + 1}
      /\ hour \in Int /\ 0 <= hour /\ hour <= length - 1 /\ wait \in Int
      /\ sofar.scans \in 0..2
  BY HoursAssumption DEF ClockInv, ClockType
<1>2. Waiting /\ Fires \in Int /\ Fires <= hour BY <1>1 DEF Waiting, Fires
<1>3. Earliest \in Int /\ Latest \in Int BY <1>1 DEF Earliest, Latest
<1>4. sofar.usual => hour = runAt /\ sofar.scans = 0
  BY <1>1, <1>2 DEF ClockInv, UsualDay
<1>5. sofar.scans > 1 => hour = Hours /\ runAt = 0
  BY <1>1, <1>2 DEF ClockInv, AnyDay
<1>6. length # Hours => hour >= Earliest
  BY <1>1, <1>2, <1>3 DEF ClockInv, TimerIsSet
<1>7. sofar.scans > 0 => hour >= Latest
  BY <1>1, <1>2, <1>3 DEF ClockInv, AnyDay
<1> QED BY <1>4, <1>5, <1>6, <1>7

\* The timer is set, fires, stands still or comes closer; at midnight a new day begins.
LEMMA ClockStep == ASSUME TypeOK, ClockInv, [DailyNext]_all PROVE ClockInv'
<1>0. /\ loop \in Scans /\ scan \in [Scans -> {Idle} \cup Progress]
      /\ up \in BOOLEAN /\ wait \in Int
      /\ sofar \in [scans : 0..2, whole : BOOLEAN, usual : BOOLEAN]
      /\ runAt \in Int /\ 0 <= runAt /\ runAt <= Hours - 1 /\ Hours \in Nat /\ Hours > 1
      /\ length \in Int /\ length \in {Hours - 1, Hours, Hours + 1}
      /\ hour \in Int /\ 0 <= hour /\ hour <= length - 1
  BY LoopAssumption, HoursAssumption DEF TypeOK, ClockInv, ClockType
<1>1. CASE Wake
  <2>1. /\ up /\ wait <= 0 /\ ~Scanning(loop) /\ wait' = 0 /\ StartScan(loop)
        /\ sofar' = [sofar EXCEPT !.scans = IF @ = 2 THEN 2 ELSE @ + 1]
        /\ UNCHANGED <<runAt, hour, length, up>>
    BY <1>1 DEF Wake, StartScan
  <2>2. ~Waiting'
    <3>1. scan'[loop] # Idle BY <1>0, <2>1 DEF StartScan, Idle
    <3> QED BY <3>1 DEF Waiting, Scanning
  <2>3. /\ sofar' \in [scans : 0..2, whole : BOOLEAN, usual : BOOLEAN]
        /\ sofar'.scans = (IF sofar.scans = 2 THEN 2 ELSE sofar.scans + 1)
        /\ sofar'.whole = sofar.whole /\ sofar'.usual = sofar.usual
    BY <1>0, <2>1
  <2>4. /\ sofar.usual => hour = runAt /\ sofar.scans = 0
        /\ length # Hours => hour >= Earliest
        /\ sofar.scans > 0 => hour >= Latest
    BY <2>1, WakeTime
  <2>5. Earliest' = Earliest /\ Latest' = Latest BY <2>1 DEF Earliest, Latest
  <2>6. ClockType' BY <1>0, <2>1, <2>3 DEF ClockInv, ClockType
  <2>7. UsualDay'
    <3>1. sofar.usual => length = Hours BY DEF ClockInv, UsualDay
    <3> QED BY <1>0, <2>1, <2>2, <2>3, <2>4, <3>1 DEF UsualDay
  <2>8. AnyDay'
    <3>1. sofar'.scans > 1 => sofar.scans > 0 BY <1>0, <2>3
    <3> QED BY <2>1, <2>2, <2>4, <2>5, <3>1 DEF AnyDay
  <2>9. WholeDay'
    <3>1. sofar'.scans # 0 BY <1>0, <2>3
    <3> QED BY <2>1, <2>3, <3>1 DEF ClockInv, WholeDay
  <2> QED BY <2>2, <2>6, <2>7, <2>8, <2>9 DEF ClockInv, TimerIsSet
<1>2. CASE LoopStep \/ LoopFault
  <2>1. /\ Scanning(loop) /\ UNCHANGED <<runAt, hour, length, up, sofar>>
        /\ wait' \in IF scan'[loop] = Idle THEN nextRun ELSE {wait}
    BY <1>0, <1>2, LoopScans DEF LoopStep, LoopFault, LoopGoesOn
  <2>2. sofar.whole => up /\ sofar.scans # 0 BY <2>1 DEF ClockInv, WholeDay
  <2>3. CASE scan'[loop] = Idle BY <1>0, <2>1, <2>2, <2>3, TimerReset
  <2>4. CASE scan'[loop] # Idle
    <3>1. ~Waiting' /\ wait' = wait BY <2>1, <2>4 DEF Waiting, Scanning
    <3> QED BY <1>0, <2>1, <2>2, <3>1, NobodyWaits
  <2> QED BY <2>3, <2>4
<1>3. CASE Owners \/ Hang \/ UNCHANGED all
  <2>1. UNCHANGED <<scan, runAt, hour, length, wait, up, sofar>>
    BY <1>3 DEF Owners, OwnerStep, Edit, Retire, Restore, Hang, all, vars, clock
  <2> QED BY <2>1
    DEF ClockInv, ClockType, TimerIsSet, UsualDay, AnyDay, WholeDay, Waiting, Fires, Scanning,
        Earliest, Latest
<1>4. CASE Tick
  <2>1. UNCHANGED <<runAt, up, scan>> BY <1>4 DEF Tick, NextDay, vars
  <2>2. Scanning(loop)' = Scanning(loop) BY <2>1 DEF Scanning
  <2>3. wait' \in Int /\ (Waiting => wait > 0 /\ wait' = wait - 1)
    BY <1>0, <1>4 DEF Tick, HourPasses, Waiting
  <2>4. Waiting' = Waiting BY <2>1, <2>2 DEF Waiting
  <2>5. CASE ~Midnight
    <3>1. hour' = hour + 1 /\ UNCHANGED <<length, sofar>> BY <1>4, <2>5 DEF Tick
    <3>2. hour + 1 # length BY <2>5 DEF Midnight
    <3>3. /\ Earliest' = Earliest /\ Latest' = Latest /\ Earliest \in Int /\ Latest \in Int
      BY <1>0, <2>1, <3>1 DEF Earliest, Latest
    <3>4. Waiting => Fires' = Fires /\ Fires \in Int /\ Fires >= hour'
      BY <1>0, <2>3, <3>1 DEF Fires
    <3>5. ClockType' BY <1>0, <2>1, <2>3, <3>1, <3>2 DEF ClockInv, ClockType
    <3>6. TimerIsSet' BY <1>0, <2>1, <2>4, <3>1, <3>3, <3>4 DEF ClockInv, TimerIsSet
    <3>7. UsualDay' BY <1>0, <2>1, <2>4, <3>1, <3>4 DEF ClockInv, UsualDay
    <3>8. AnyDay' BY <1>0, <2>1, <2>4, <3>1, <3>3, <3>4 DEF ClockInv, AnyDay
    <3>9. WholeDay'
      <4>1. sofar.whole => up /\ (sofar.scans = 0 => Waiting)
        BY DEF ClockInv, WholeDay, Waiting
      <4> QED BY <2>1, <2>2, <3>1, <3>4, <4>1 DEF ClockInv, WholeDay
    <3> QED BY <3>5, <3>6, <3>7, <3>8, <3>9 DEF ClockInv
  <2>6. CASE Midnight
    <3>1. /\ hour' = 0
          /\ length' \in {Hours + change : change \in IF length = Hours THEN Changes ELSE {0}}
          /\ sofar' = [scans |-> 0, whole |-> up /\ ~Scanning(loop),
                       usual |-> length = Hours /\ length' = Hours]
      BY <1>4, <2>6 DEF Tick, Midnight
    <3>2. /\ length' \in {Hours - 1, Hours, Hours + 1} /\ length' \in Int
          /\ length # Hours => length' = Hours
      BY <1>0, <3>1, ChangesAssumption
    <3>3. /\ sofar' \in [scans : 0..2, whole : BOOLEAN, usual : BOOLEAN]
          /\ sofar'.scans = 0 /\ (sofar'.whole <=> Waiting)
          /\ (sofar'.usual <=> length = Hours /\ length' = Hours)
      <4> DEFINE whole == up /\ ~Scanning(loop)
                 usual == length = Hours /\ length' = Hours
      <4>1. whole \in BOOLEAN /\ usual \in BOOLEAN /\ (whole <=> Waiting)
        BY <1>0, Zenon DEF Waiting
      <4>2. sofar' = [scans |-> 0, whole |-> whole, usual |-> usual] BY <3>1
      <4>3. usual <=> length = Hours /\ length' = Hours OBVIOUS
      <4> HIDE DEF whole, usual
      <4>4. /\ sofar' \in [scans : 0..2, whole : BOOLEAN, usual : BOOLEAN]
            /\ sofar'.scans = 0 /\ sofar'.whole = whole /\ sofar'.usual = usual
        BY <4>1, <4>2
      <4> QED BY <4>1, <4>3, <4>4, Zenon
    <3>4. Waiting => Fires' = Fires - length /\ Fires \in Int /\ Fires >= length
      <4>1. hour = length - 1 BY <1>0, <2>6 DEF Midnight
      <4> QED BY <1>0, <2>3, <3>1, <4>1 DEF Fires
    <3>5. Waiting => IF length = Hours THEN Fires' = runAt ELSE Fires' \in 0..(Hours - 1)
      BY <1>0, <3>4 DEF ClockInv, TimerIsSet
    <3>6. Waiting => Fires' \in Int BY <1>0, <3>4
    <3>7. Earliest' \in Int /\ Earliest' <= runAt /\ runAt <= length' + Hours - 1
      <4>1. Earliest' = IF length' < Hours THEN runAt - 1 ELSE runAt BY <2>1 DEF Earliest
      <4>2. CASE length' = Hours - 1 BY <1>0, <4>1, <4>2
      <4>3. CASE length' = Hours BY <1>0, <4>1, <4>3
      <4>4. CASE length' = Hours + 1 BY <1>0, <4>1, <4>4
      <4> QED BY <3>2, <4>2, <4>3, <4>4
    <3>8. ClockType'
      <4>1. runAt' \in 0..(Hours - 1) /\ up' \in BOOLEAN
        BY <1>0, <2>1 DEF ClockInv, ClockType
      <4>2. length' >= Hours - 1
        <5>1. length' = Hours - 1 \/ length' = Hours \/ length' = Hours + 1 BY <3>2
        <5> QED BY <1>0, <5>1
      <4>3. hour' = 0 /\ length' \in Int BY <3>1, <3>2
      <4>4. ASSUME NEW n \in Int, n >= Hours - 1 PROVE 0 \in 0..(n - 1)
        <5>1. n >= 1 BY <1>0, <4>4
        <5> QED BY <4>4, <5>1
      <4>5. hour' \in 0..(length' - 1) BY <4>2, <4>3, <4>4
      <4> QED BY <2>3, <3>2, <3>3, <4>1, <4>5 DEF ClockType
    <3>9. TimerIsSet'
      BY <1>0, <2>1, <2>4, <3>1, <3>2, <3>5, <3>6, <3>7 DEF TimerIsSet
    <3>10. UsualDay' BY <1>0, <2>1, <2>4, <3>1, <3>3, <3>5 DEF UsualDay
    <3>11. AnyDay' BY <3>3 DEF AnyDay
    <3>12. WholeDay'
      <4>1. Waiting /\ runAt < Hours - 1 => Fires' < length' BY <1>0, <3>2, <3>5, <3>6
      <4> QED BY <2>1, <2>2, <3>3, <4>1 DEF WholeDay, Waiting
    <3> QED BY <3>8, <3>9, <3>10, <3>11, <3>12 DEF ClockInv
  <2> QED BY <2>5, <2>6
<1>5. CASE Die
  <2>1. /\ up' = FALSE /\ wait' = 0 /\ sofar' = [sofar EXCEPT !.whole = FALSE]
        /\ UNCHANGED <<runAt, hour, length>>
    BY <1>5 DEF Die
  <2>2. /\ sofar' \in [scans : 0..2, whole : BOOLEAN, usual : BOOLEAN]
        /\ sofar'.scans = sofar.scans /\ sofar'.usual = sofar.usual
        /\ sofar'.whole = FALSE
    BY <1>0, <2>1
  <2>3. ~Waiting' BY <2>1 DEF Waiting
  <2>4. up' \in BOOLEAN BY <2>1, Zenon
  <2>5. ~sofar'.whole BY <2>2, Zenon
  <2>6. wait' \in Int BY <2>1
  <2> QED BY <2>1, <2>2, <2>3, <2>4, <2>5, <2>6, NobodyWaits
<1>6. CASE StartUp
  <2>1. ~up /\ up' = TRUE /\ wait' \in nextRun /\ UNCHANGED <<runAt, hour, length, sofar>>
    BY <1>6 DEF StartUp
  <2>2. ~sofar.whole BY <2>1 DEF ClockInv, WholeDay
  <2> QED BY <2>1, <2>2, TimerReset
<1> QED BY <1>1, <1>2, <1>3, <1>4, <1>5, <1>6 DEF DailyNext

\* The clock is well set when the process is first started, at whatever time.
LEMMA ClockInit == ASSUME DailyInit PROVE ClockInv
<1>1. /\ runAt \in 0..(Hours - 1) /\ hour \in 0..(length - 1)
      /\ length \in {Hours + change : change \in Changes}
      /\ up = TRUE /\ wait \in nextRun
      /\ sofar = [scans |-> 0, whole |-> FALSE, usual |-> FALSE]
  BY DEF DailyInit
<1>2. length \in {Hours - 1, Hours, Hours + 1} BY <1>1, HoursAssumption, ChangesAssumption
<1>3. sofar \in [scans : 0..2, whole : BOOLEAN, usual : BOOLEAN] BY <1>1
<1>4. sofar.scans = 0 /\ ~sofar.whole /\ ~sofar.usual BY <1>1
<1>5. wait \in Int
  <2>1. PICK run \in RunsToday : wait = (IF run > hour THEN run ELSE run + Hours) - hour
    BY <1>1 DEF nextRun
  <2>2. PICK change \in {0, length - Hours} : run = runAt + change BY DEF RunsToday
  <2> QED BY <1>1, <1>2, <2>1, <2>2, HoursAssumption
<1>6. ClockType BY <1>1, <1>2, <1>3, <1>5 DEF ClockType
<1>7. UsualDay /\ AnyDay BY <1>4 DEF UsualDay, AnyDay
<1>8. TimerIsSet BY <1>1, <1>6, <1>7, NewTimer DEF TimerIsSet, Fires
<1>9. WholeDay BY <1>4 DEF WholeDay
<1> QED BY <1>6, <1>7, <1>8, <1>9 DEF ClockInv

\* Timer and clock agree, whatever the length of days, of scans, and of the time between a
\* crash and the restart.
LEMMA ClockHolds == DailySpec => []ClockInv
<1>1. Spec => []TypeOK BY TypeCorrect
<1> QED BY <1>1, ClockInit, ClockStep, DailyIsAScan, PTL DEF DailySpec

\* On usual days the scan is at the configured hour and the only one; when clocks change there
\* are two at most, but for a run in the first hour of a day of 25.  This holds for every run time,
\* also with restarts and with scans that take hours or hang (nextRun, Start).
THEOREM DailyRunsAreDaily == DailySpec => ScansAreDaily
<1>1. ClockInv /\ [DailyNext]_all =>
        [Wake => IF sofar.usual THEN hour = runAt /\ sofar.scans = 0
                 ELSE sofar.scans <= 1 \/ (hour = Hours /\ runAt = 0)]_all
  <2> SUFFICES ASSUME ClockInv, Wake
               PROVE  IF sofar.usual THEN hour = runAt /\ sofar.scans = 0
                      ELSE sofar.scans <= 1 \/ (hour = Hours /\ runAt = 0)
    OBVIOUS
  <2>1. up /\ wait <= 0 /\ ~Scanning(loop) BY DEF Wake, StartScan
  <2>2. sofar.scans \in 0..2 BY DEF ClockInv, ClockType
  <2> QED BY <2>1, <2>2, WakeTime
<1> QED BY <1>1, ClockHolds, PTL DEF DailySpec, ScansAreDaily

\* A day that begins with the process up and idle, and in which it does not die, has a scan,
\* whatever the clocks do; unless the run is in the last hour of the day.
THEOREM NoDayWithoutScan == DailySpec => NoDayIsMissed
<1>1. ClockInv /\ [DailyNext]_all =>
        [Tick /\ Midnight /\ sofar.whole /\ runAt < Hours - 1 => sofar.scans > 0]_all
  <2> SUFFICES ASSUME ClockInv, Tick, Midnight, sofar.whole, runAt < Hours - 1
               PROVE  sofar.scans > 0
    OBVIOUS
  <2>1. sofar.scans \in 0..2 /\ wait \in Int /\ hour \in Int /\ length \in Int
    BY HoursAssumption DEF ClockInv, ClockType
  <2> SUFFICES ASSUME sofar.scans = 0 PROVE FALSE BY <2>1
  <2>2. up /\ ~Scanning(loop) /\ Fires < length BY DEF ClockInv, WholeDay
  <2>3. wait > 0 BY <2>2 DEF Tick, HourPasses
  <2> QED BY <2>1, <2>2, <2>3 DEF Fires, Midnight
<1> QED BY <1>1, ClockHolds, PTL DEF DailySpec, NoDayIsMissed
=============================================================================
