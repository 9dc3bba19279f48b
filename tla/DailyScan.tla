------------------------------ MODULE DailyScan ------------------------------
(***************************************************************************)
(* The daily loop of the scheduler (Start, nextRun) driving the reminder   *)
(* scan, through days of 23 and 25 hours, scans that take their time or    *)
(* hang in a call, and a process that dies and comes back.                 *)
(*                                                                         *)
(* Time passes in hours.  On the day on which clocks change, the local     *)
(* hour Shift is skipped or comes twice; hour counts the hours since local *)
(* midnight, whatever the clocks on the wall show.                         *)
(***************************************************************************)
EXTENDS ReminderScan

CONSTANTS
  loop,        \* the scan that the loop starts
  Hours,       \* hours of a usual day
  Shift,       \* the local hour that is skipped or repeated when clocks change
  Changes,     \* by how many hours a day may be longer than usual
  MaxDeaths    \* bound: how often the process dies

ASSUME LoopAssumption == loop \in Scans
ASSUME HoursAssumption == Hours \in Nat \ {0, 1} /\ Shift \in 0..(Hours - 1)
ASSUME ChangesAssumption == 0 \in Changes /\ Changes \subseteq {-1, 0, 1}

VARIABLES
  runAt,       \* SCHEDULER_RUN_AT, the local hour of the daily scan
  hour,        \* hours since midnight
  length,      \* hours of today
  wait,        \* hours until the loop's timer fires
  up,          \* the process is running
  hung,        \* the loop's scan is in a call that never returns
  sofar,       \* history of today: scans started, no restart or scan at midnight, no clock change
  deaths       \* how often the process has died

clock == <<runAt, hour, length, wait, up, hung, sofar, deaths>>
all == <<vars, clock>>

-----------------------------------------------------------------------------
(* The loop *)

\* When the run's local time is today: time.Date may take either reading of an
\* hour that is skipped or comes twice.
RunsToday ==
  {runAt + change : change \in (IF runAt <= Shift THEN {0} ELSE {})
                          \cup (IF runAt >= Shift THEN {length - Hours} ELSE {})}

NextRunFromNow == {Hours}                                  \* mutant

NextRunAddedTwice ==                                       \* mutant
  {(IF run > hour THEN run ELSE run + 2 * Hours) - hour : run \in RunsToday}

\* How long the loop waits: until today's run, or 24 hours after it.
nextRun == {(IF run > hour THEN run ELSE run + Hours) - hour : run \in RunsToday}

\* The timer fires.
Wake ==
  /\ up /\ wait <= 0
  /\ StartScan(loop)
  /\ wait' = 0
  /\ sofar' = [sofar EXCEPT !.scans = IF @ = 2 THEN 2 ELSE @ + 1]
  /\ UNCHANGED <<runAt, hour, length, up, hung, deaths>>

\* When its scan has ended, well or not, the loop looks for the next run.
LoopGoesOn ==
  /\ ~hung
  /\ wait' \in IF scan'[loop] = Idle THEN nextRun ELSE {wait}
  /\ UNCHANGED <<runAt, hour, length, up, hung, sofar, deaths>>

LoopStep == ScanStep(loop) /\ LoopGoesOn

LoopFault == ScanFault(loop) /\ LoopGoesOn

\* A call without a deadline: to the database or to the SMTP relay.  Only the Teams
\* client gives up by itself.
NoDeadline ==
  /\ Scanning(loop)
  /\ \/ scan[loop].step = "next" /\ scan[loop].todo # {}
     \/ scan[loop].step = "send" /\ \E c \in scan[loop].at : "email" \in Reachable(scan[loop].rows[c])
     \/ scan[loop].step = "record"

\* The other side never answers, and the loop with it stands still until the process dies.
Hang ==
  /\ ~hung /\ NoDeadline
  /\ hung' = TRUE
  /\ UNCHANGED <<runAt, hour, length, wait, up, sofar, deaths>> /\ UNCHANGED vars

-----------------------------------------------------------------------------
(* Meanwhile *)

Midnight == hour + 1 = length

\* The hour strikes any number of times during a scan, but not while the timer is due.
HourPasses ==
  \/ Scanning(loop) /\ UNCHANGED wait
  \/ ~Scanning(loop) /\ up /\ wait > 0 /\ wait' = wait - 1
  \/ ~up /\ UNCHANGED wait

\* Clocks do not change two days in a row; the last day of a run is followed by more
\* of the same.
Tick ==
  /\ HourPasses
  /\ \/ /\ ~Midnight
        /\ hour' = hour + 1
        /\ UNCHANGED <<length, sofar>> /\ UNCHANGED vars
     \/ /\ Midnight
        /\ hour' = 0
        /\ length' \in {Hours + change : change \in IF length = Hours THEN Changes ELSE {0}}
        /\ sofar' = [scans |-> 0, whole |-> up /\ ~Scanning(loop),
                     usual |-> length = Hours /\ length' = Hours]
        /\ NextDay \/ (day = LastDay /\ UNCHANGED vars)
  /\ UNCHANGED <<runAt, up, hung, deaths>>

Die ==
  /\ up /\ deaths < MaxDeaths
  /\ Crash
  /\ up' = FALSE /\ wait' = 0 /\ hung' = FALSE /\ deaths' = deaths + 1
  /\ sofar' = [sofar EXCEPT !.whole = FALSE]
  /\ UNCHANGED <<runAt, hour, length>>

\* The process is started again, at any time of the day.
StartUp ==
  /\ ~up
  /\ up' = TRUE /\ wait' \in nextRun
  /\ UNCHANGED <<runAt, hour, length, hung, sofar, deaths>> /\ UNCHANGED vars

Owners == (\E c \in Certs : OwnerStep(c)) /\ UNCHANGED clock

-----------------------------------------------------------------------------
(* Specification *)

\* The process is first started at any time of a day of any length.
DailyInit ==
  /\ Init
  /\ runAt \in 0..(Hours - 1)
  /\ length \in {Hours + change : change \in Changes}
  /\ hour \in 0..(length - 1)
  /\ up = TRUE /\ wait \in nextRun /\ hung = FALSE /\ deaths = 0
  /\ sofar = [scans |-> 0, whole |-> FALSE, usual |-> FALSE]

DailyNext == Wake \/ LoopStep \/ LoopFault \/ Hang \/ Owners \/ Tick \/ Die \/ StartUp

DailySpec == DailyInit /\ [][DailyNext]_all

\* Time passes, even if every scan is followed by another at once (SF); the loop
\* and its scan go on unless they hang, and the process is restarted (WF); no channel
\* answers with errors for good, nor does the database (SF).  Nothing keeps a call from
\* hanging.
FairDailySpec ==
  /\ DailySpec
  /\ SF_all(Tick) /\ WF_all(Wake) /\ WF_all(LoopStep) /\ WF_all(StartUp)
  /\ \A c \in Certs : /\ SF_all(Decide(loop, c) /\ LoopGoesOn)
                      /\ SF_all(SendSucceeds(loop, c) /\ LoopGoesOn)

-----------------------------------------------------------------------------
(* Properties *)

\* The loop scans at the configured hour and once a day ("runs the daily scan at the
\* configured time", Start), whatever restarts and long scans there are.  On the day on
\* which clocks change and the one after it, it scans twice at most; except in the 25th
\* hour of a day, when a run in the first hour is over for 24 hours and nextRun is not
\* after now: then scans follow each other until midnight.
ScansAreDaily ==
  [][Wake => IF sofar.usual THEN hour = runAt /\ sofar.scans = 0
             ELSE sofar.scans <= 1 \/ (hour = Hours /\ runAt = 0)]_all

\* No day goes by without a scan if the process is up and idle at its beginning and does
\* not die, also when clocks change; but a run in the last hour of the day is pushed
\* into the next one by a day of 23 hours.
NoDayIsMissed ==
  [][Tick /\ Midnight /\ sofar.whole /\ runAt < Hours - 1 => sofar.scans > 0]_all

\* An item on the ladder, with a channel, that has not been alerted in this cycle
\* eventually is, however often sending fails in between, unless it is retired or loses
\* its channels, or the loop hangs in a call to the database or the SMTP relay and is
\* not restarted.
DueIsAlerted ==
  \A c \in Certs :
    LET OnLadder == /\ certs[c].status = "live"
                    /\ Reachable(certs[c]) # {}
                    /\ IntervalFor(Rules, DaysUntil(certs[c].expiry, day)) > 0
    IN OnLadder /\ Alerts(c) = {} ~> ~OnLadder \/ Alerts(c) # {} \/ []hung
=============================================================================
