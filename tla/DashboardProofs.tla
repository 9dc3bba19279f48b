--------------------------- MODULE DashboardProofs ---------------------------
(***************************************************************************)
(* Dashboard for any number of handlers in flight, items and clicks.  A    *)
(* handler is in flight from its click to its last list; the flag it set   *)
(* is its own for all of that time, and the spinner has a load to wait     *)
(* for, or a screen that hides it.  The rows that were asked for last are  *)
(* what the page would ask for now, or are going to be asked for again.    *)
(***************************************************************************)
EXTENDS Dashboard, TLAPS

-----------------------------------------------------------------------------
(* The certificate form *)

\* Only the handlers that open a dialog touch it while it is the form's; what
\* arrives leaves a form in use alone.
LEMMA FormStep == ASSUME FormBelongsToItsDialog, [Next]_vars PROVE FormBelongsToItsDialog'
<1> USE DEF FormBelongsToItsDialog
<1>1. SUFFICES ASSUME Next, ~UNCHANGED <<dialog, form>> PROVE FormBelongsToItsDialog'
  BY DEF vars
<1>2. CASE openCreate BY <1>2 DEF openCreate
<1>3. ASSUME NEW c \in Items, openEdit(c) PROVE FormBelongsToItsDialog'
  BY <1>3 DEF openEdit
<1>4. ASSUME NEW kind \in DialogKinds, OpenDialog(kind) PROVE FormBelongsToItsDialog'
  BY <1>4 DEF OpenDialog
<1>5. CASE CloseDialog BY <1>5 DEF CloseDialog, Closed
<1>6. ASSUME NEW t \in Tasks, NEW c \in Items, openHistory(t, c)
      PROVE  FormBelongsToItsDialog'
  BY <1>6 DEF openHistory
<1>7. ASSUME NEW t \in Tasks, AnswerPassword(t) \/ Answer(t) PROVE FormBelongsToItsDialog'
  <2>1. form' = form /\ dialog' \in {dialog, Closed} BY <1>7 DEF AnswerPassword, Answer
  <2> QED BY <2>1 DEF Closed
<1>8. ASSUME NEW t \in Tasks, NEW l \in Lists \cup {"config"}, Arrive(t, l)
      PROVE  FormBelongsToItsDialog'
  <2>1. dialog' = dialog /\ (dialog.kind = "form" => form' = form)
    BY <1>8 DEF Arrive, FormIsFree
  <2> QED BY <2>1
<1>9. CASE Reload BY <1>9 DEF Reload, Closed
<1>10. ASSUME NEW t \in Tasks, NEW v \in Views, switchView(t, v) PROVE UNCHANGED <<dialog, form>>
  BY <1>10 DEF switchView
<1>11. ASSUME NEW t \in Tasks, NEW key \in Categories, setAuditCategory(t, key)
       PROVE  UNCHANGED <<dialog, form>>
  BY <1>11 DEF setAuditCategory
<1>12. ASSUME NEW t \in Tasks,
              \/ Serve(t) \/ AnswerBoot(t) \/ AnswerFirstPassword(t)
              \/ AnswerLogout(t) \/ AnswerReset(t)
       PROVE  UNCHANGED <<dialog, form>>
  BY <1>12 DEF Serve, AnswerBoot, AnswerFirstPassword, AnswerLogout, AnswerReset
<1>13. ASSUME NEW t \in Tasks, AnswerLogin(t) PROVE UNCHANGED <<dialog, form>>
  BY <1>13 DEF AnswerLogin
<1>14. ASSUME NEW t \in Tasks, NEW l \in Lists \cup {"config"}, ServeRead(t, l)
       PROVE  UNCHANGED <<dialog, form>>
  BY <1>14 DEF ServeRead
<1>15. ASSUME NEW t \in Tasks, NEW h \in Buttons, Click(t, h) PROVE UNCHANGED <<dialog, form>>
  BY <1>15 DEF Click
<1>16. CASE openForgot \/ closeForgot \/ SessionEnds
  BY <1>1, <1>16 DEF openForgot, closeForgot, SessionEnds
<1>17. ASSUME NEW t \in Tasks, toggleDeleted(t) PROVE UNCHANGED <<dialog, form>>
  BY <1>17 DEF toggleDeleted
<1>18. CASE Person
  BY <1>1, <1>18, <1>2, <1>3, <1>4, <1>5, <1>6, <1>10, <1>11, <1>15, <1>16, <1>17 DEF Person
<1>19. ASSUME NEW t \in Tasks, Step(t) PROVE FormBelongsToItsDialog'
  BY <1>1, <1>19, <1>7, <1>8, <1>12, <1>13, <1>14 DEF Step
<1> QED BY <1>1, <1>9, <1>16, <1>18, <1>19 DEF Next

\* Whatever is opened, and whatever arrives meanwhile, the form is saved to the
\* item whose values it holds.
THEOREM FormIsItsDialogs == Spec => []FormBelongsToItsDialog
<1>1. Init => FormBelongsToItsDialog
  <2>1. Init => dialog = Closed BY Zenon DEF Init
  <2> QED BY <2>1 DEF FormBelongsToItsDialog, Closed
<1> QED BY <1>1, FormStep, PTL DEF Spec

-----------------------------------------------------------------------------
(* Tasks *)

\* Every handler's flag is one of the flags, or none.
LEMMA HandlerFlags == \A h \in DOMAIN Handler : Handler[h].flag \in Flags \cup {"none"}
<1> DEFINE Records ==
      {doLogin, doLogout, requestReset, submitFirstPassword, submitPassword, submitForm,
       submitDeletion, approveDeletion, rejectDeletion, withdrawDeletion, restoreCert,
       testCert, runCheck, submitOwner, submitRenewal, approveRenewal, rejectRenewal,
       withdrawRenewal, submitUser, resetUserPassword}
<1>1. \A h \in DOMAIN Handler : Handler[h] \in Records BY DEF Handler
<1> DEFINE HasFlag(r) == r.flag \in Flags \cup {"none"}
<1>2. /\ HasFlag(doLogin) /\ HasFlag(doLogout) /\ HasFlag(requestReset)
      /\ HasFlag(submitFirstPassword) /\ HasFlag(submitPassword) /\ HasFlag(submitForm)
      /\ HasFlag(submitOwner) /\ HasFlag(submitUser) /\ HasFlag(resetUserPassword)
      /\ HasFlag(testCert)
  BY DEF Flags, doLogin, doLogout, requestReset, submitFirstPassword, submitPassword,
         submitForm, submitOwner, submitUser, resetUserPassword, testCert
<1>3. \A r \in {submitDeletion, approveDeletion, withdrawDeletion, restoreCert, runCheck,
              submitRenewal, approveRenewal, withdrawRenewal} :
        r.flag \in Flags \cup {"none"}
  BY DEF Flags, submitDeletion, approveDeletion, withdrawDeletion, restoreCert, runCheck,
         submitRenewal, approveRenewal, withdrawRenewal
<1>4. rejectRenewal.flag = approveRenewal.flag /\ rejectDeletion.flag = approveDeletion.flag
  BY DEF rejectRenewal, rejectDeletion, approveRenewal, approveDeletion
<1> QED BY <1>1, <1>2, <1>3, <1>4

\* Handlers that only load, the first load of the page, and no handler have no flag.
LEMMA LoadersHaveNoFlag == \A h \in Loaders : h \notin DOMAIN Handler
BY DEF Handler, Loaders

\* A task that waits for nothing yet.
LEMMA FreshTask ==
  /\ IsTask(Idle)
  /\ \A h \in DOMAIN Handler \cup Loaders :
       IsTask([Idle EXCEPT !.h = h]) /\ IsTask(Starting(h))
BY DEF IsTask, Idle, Starting, NoReads, Loaders, Steps, Sources, Read

\* What happens to a task's requests for lists changes neither which lists these
\* are nor anything else of the task.
LEMMA OvertakenTask ==
  ASSUME NEW k, IsTask(k), NEW ls
  PROVE  /\ IsTask(Overtaken(k, ls))
         /\ Overtaken(k, ls).h = k.h /\ Overtaken(k, ls).step = k.step
         /\ Overtaken(k, ls).more = k.more
         /\ DOMAIN Overtaken(k, ls).reads = DOMAIN k.reads
<1> DEFINE R == [l \in DOMAIN k.reads |-> [k.reads[l] EXCEPT !.older = @ \/ l \in ls]]
<1>1. R \in [DOMAIN k.reads -> Read] BY DEF IsTask, Read
<1>2. Overtaken(k, ls) = [k EXCEPT !.reads = R] BY DEF Overtaken
<1> HIDE DEF R
<1> QED BY <1>1, <1>2 DEF IsTask

\* Nor does a change of the database behind them.
LEMMA OutdatedTask ==
  ASSUME NEW k, IsTask(k), NEW marks \in [Lists -> SUBSET Reasons]
  PROVE  /\ IsTask(Outdated(k, marks))
         /\ Outdated(k, marks).h = k.h /\ Outdated(k, marks).step = k.step
         /\ Outdated(k, marks).more = k.more
         /\ DOMAIN Outdated(k, marks).reads = DOMAIN k.reads
<1> DEFINE R == [l \in DOMAIN k.reads |->
                   IF k.reads[l].got = "rows" /\ l \in Lists
                   THEN [k.reads[l] EXCEPT !.behind = @ \cup marks[l]] ELSE k.reads[l]]
<1>1. R \in [DOMAIN k.reads -> Read] BY DEF IsTask, Read
<1>2. Outdated(k, marks) = [k EXCEPT !.reads = R] BY DEF Outdated
<1> HIDE DEF R
<1> QED BY <1>1, <1>2 DEF IsTask

\* Nor does the end of the session they were sent in.
LEMMA EarlierTask ==
  ASSUME NEW k, IsTask(k)
  PROVE  /\ IsTask(OfEarlierSession(k))
         /\ OfEarlierSession(k).h = k.h /\ OfEarlierSession(k).step = k.step
         /\ OfEarlierSession(k).more = k.more
         /\ DOMAIN OfEarlierSession(k).reads = DOMAIN k.reads
<1> DEFINE R == [l \in DOMAIN k.reads |->
                   [k.reads[l] EXCEPT !.behind = @ \cup {"account"}]]
<1>1. R \in [DOMAIN k.reads -> Read] BY DEF IsTask, Read, Reasons
<1>2. OfEarlierSession(k) = [k EXCEPT !.past = k # Idle, !.reads = R] BY DEF OfEarlierSession
<1> HIDE DEF R
<1> QED BY <1>1, <1>2 DEF IsTask

\* What is asked for can be had.
LEMMA ReadType ==
  ASSUME auditCategory' \in Categories, dialog'.item \in Items \cup {NoItem}, NEW l
  PROVE  NewRead(l)' \in Read
BY DEF NewRead, Wanted, Read, Contents

\* A task goes on with the lists it requests, or ends and takes back its flag; the
\* others are as this step leaves them, but for requests that are overtaken.
Proceeded(t, all, ls, more) ==
  /\ DOMAIN tasks' = Tasks /\ \A x \in Tasks : IsTask(tasks'[x])
  /\ \A x \in Tasks \ {t} :
       /\ tasks'[x].h = all[x].h /\ tasks'[x].step = all[x].step
       /\ tasks'[x].more = all[x].more
       /\ DOMAIN tasks'[x].reads = DOMAIN all[x].reads
  /\ ls = {} => tasks'[t] = Idle /\ busy' = busy \ {FlagOf(all[t].h)}
  /\ ls # {} => /\ tasks'[t].h = all[t].h /\ tasks'[t].step = "reading"
                /\ tasks'[t].more = more /\ DOMAIN tasks'[t].reads = ls
                /\ busy' = busy
  /\ booting' = (booting /\ (ls = {} => all[t].h # "onMounted"))

LEMMA ProceedFacts ==
  ASSUME NEW t \in Tasks, NEW all, \A x \in Tasks : IsTask(all[x]),
         NEW ls \in SUBSET Sources, NEW more \in BOOLEAN, Proceed(t, all, ls, more),
         auditCategory' \in Categories, dialog'.item \in Items \cup {NoItem}
  PROVE  Proceeded(t, all, ls, more)
<1> DEFINE R == [l \in ls |-> NewRead(l)']
           Going == [all[t] EXCEPT !.step = "reading", !.more = more, !.reads = R]
<1>1. R \in [ls -> Read] BY ReadType
<1> HIDE DEF R
<1>2. /\ IsTask(Going) /\ Going.h = all[t].h /\ Going.step = "reading"
      /\ Going.more = more /\ DOMAIN Going.reads = ls
  BY <1>1 DEF IsTask, Steps
<1>3. tasks' = [x \in Tasks |-> IF x # t THEN Overtaken(all[x], ls)
                                ELSE IF ls = {} THEN Idle ELSE Going]
  BY DEF Proceed, R
<1> HIDE DEF Going
<1>4. \A x \in Tasks \ {t} :
        /\ IsTask(tasks'[x]) /\ tasks'[x].h = all[x].h /\ tasks'[x].step = all[x].step
        /\ tasks'[x].more = all[x].more /\ DOMAIN tasks'[x].reads = DOMAIN all[x].reads
  BY <1>3, OvertakenTask
<1>5. /\ ls = {} => tasks'[t] = Idle
      /\ ls # {} => tasks'[t] = Going
  BY <1>3
<1>6. IsTask(tasks'[t]) BY <1>2, <1>5, FreshTask
<1>7. /\ busy' = IF ls = {} THEN busy \ {FlagOf(all[t].h)} ELSE busy
      /\ booting' = (booting /\ (ls = {} => all[t].h # "onMounted"))
  BY DEF Proceed, FlagsLeft
<1> QED BY <1>2, <1>3, <1>4, <1>5, <1>6, <1>7 DEF Proceeded

-----------------------------------------------------------------------------
(* Types *)

\* A handler that only loads, from a task that is free.
LEMMA LoadFacts ==
  ASSUME TypeOK, NEW t \in Tasks, NEW h \in Loaders, NEW ls \in SUBSET Sources, Load(t, h, ls),
         auditCategory' \in Categories, dialog'.item \in Items \cup {NoItem}
  PROVE  /\ DOMAIN tasks' = Tasks /\ \A x \in Tasks : IsTask(tasks'[x])
         /\ tasks[t] = Idle
         /\ \A x \in Tasks \ {t} :
              /\ tasks'[x].h = tasks[x].h /\ tasks'[x].step = tasks[x].step
              /\ tasks'[x].more = tasks[x].more
              /\ DOMAIN tasks'[x].reads = DOMAIN tasks[x].reads
         /\ ls = {} => tasks'[t] = Idle
         /\ ls # {} => /\ tasks'[t].h = h /\ tasks'[t].step = "reading"
                       /\ DOMAIN tasks'[t].reads = ls
         /\ busy' = busy
         /\ booting' = (booting /\ (ls = {} => h # "onMounted"))
         /\ loading' = (loading \/ "certs" \in ls)
         /\ newest' \in [Lists -> BOOLEAN]
         /\ booting' \in BOOLEAN /\ loading' \in BOOLEAN
<1> DEFINE new == [Idle EXCEPT !.h = h]
           all == [tasks EXCEPT ![t] = new]
<1>1. IsTask(new) /\ new.h = h BY FreshTask DEF Idle
<1>2. FlagOf(h) = "none" BY LoadersHaveNoFlag DEF FlagOf
<1> HIDE DEF new
<1>3. /\ \A x \in Tasks : IsTask(all[x])
      /\ all[t] = new /\ \A x \in Tasks \ {t} : all[x] = tasks[x]
  BY <1>1 DEF TypeOK
<1>4. /\ tasks[t] = Idle /\ Requested(ls) /\ Proceed(t, all, ls, FALSE)
  BY DEF Load, new
<1> HIDE DEF all
<1>5. /\ loading' = (loading \/ "certs" \in ls)
      /\ newest' \in [Lists -> BOOLEAN]
  BY <1>4 DEF Requested, TypeOK
<1>6. Proceeded(t, all, ls, FALSE) BY <1>3, <1>4, ProceedFacts
<1>7. busy' = busy
  <2>1. busy \ {"none"} = busy BY DEF TypeOK, Flags
  <2> QED BY <2>1, <1>1, <1>2, <1>3, <1>6 DEF Proceeded
<1>8. booting' = (booting /\ (ls = {} => h # "onMounted"))
  BY <1>1, <1>3, <1>6 DEF Proceeded
<1>9. booting' \in BOOLEAN /\ loading' \in BOOLEAN BY <1>5, <1>8
<1> QED BY <1>1, <1>3, <1>4, <1>5, <1>6, <1>7, <1>8, <1>9 DEF Proceeded

\* The rest of the state keeps its types if the handler's own lines see to that.
LEMMA LoadType ==
  ASSUME TypeOK, NEW t \in Tasks, NEW h \in Loaders, NEW ls \in SUBSET Sources, Load(t, h, ls),
         UNCHANGED <<session, me, mustChange, panel, form>>,
         view' \in Views, showDeleted' \in BOOLEAN, auditCategory' \in Categories,
         shown' \in [Lists -> [of : Contents, behind : SUBSET Reasons]],
         dialog' \in [kind : DialogKinds \cup {"none"}, item : Items \cup {NoItem}]
  PROVE  TypeOK'
<1>1. dialog'.item \in Items \cup {NoItem} OBVIOUS
<1>2. /\ DOMAIN tasks' = Tasks /\ \A x \in Tasks : IsTask(tasks'[x])
      /\ busy' = busy /\ newest' \in [Lists -> BOOLEAN]
      /\ booting' \in BOOLEAN /\ loading' \in BOOLEAN
  BY <1>1, LoadFacts
<1> QED BY <1>2 DEF TypeOK

\* Whatever a person clicks leaves the state well-formed.
LEMMA PersonType == ASSUME TypeOK, Person PROVE TypeOK'
<1>1. CASE openCreate \/ CloseDialog
  BY <1>1 DEF openCreate, CloseDialog, UnchangedButDialog, TypeOK, Closed, DialogKinds
<1>2. ASSUME NEW c \in Items, openEdit(c) PROVE TypeOK'
  BY <1>2 DEF openEdit, UnchangedButDialog, TypeOK, DialogKinds
<1>3. ASSUME NEW kind \in DialogKinds, OpenDialog(kind) PROVE TypeOK'
  BY <1>3 DEF OpenDialog, UnchangedButDialog, TypeOK
<1>4. CASE openForgot \/ closeForgot
  BY <1>4 DEF openForgot, closeForgot, TypeOK, Panels
<1>5. ASSUME NEW t \in Tasks, NEW v \in Views, switchView(t, v) PROVE TypeOK'
  <2>1. CASE UNCHANGED <<booting, loading, busy, tasks, newest>>
    BY <1>5, <2>1 DEF switchView, TypeOK
  <2>2. CASE Load(t, "switchView", Loadable(TabLists(v)))
    <3>1. Loadable(TabLists(v)) \in SUBSET Sources /\ "switchView" \in Loaders
      BY DEF Loadable, Sources, Loaders
    <3> QED BY <1>5, <2>2, <3>1, LoadType DEF switchView, TypeOK
  <2> QED BY <1>5, <2>1, <2>2 DEF switchView
<1>6. ASSUME NEW t \in Tasks, toggleDeleted(t) PROVE TypeOK'
  <2>1. {"certs"} \in SUBSET Sources /\ "toggleDeleted" \in Loaders
    BY ListsAssumption DEF Sources, Loaders
  <2> QED BY <1>6, <2>1, LoadType DEF toggleDeleted, TypeOK
<1>7. ASSUME NEW t \in Tasks, NEW key \in Categories, setAuditCategory(t, key) PROVE TypeOK'
  <2>1. {"audit"} \in SUBSET Sources /\ "setAuditCategory" \in Loaders
    BY <1>7 DEF setAuditCategory, Sources, Loaders
  <2> QED BY <1>7, <2>1, LoadType DEF setAuditCategory, TypeOK
<1>8. ASSUME NEW t \in Tasks, NEW c \in Items, openHistory(t, c) PROVE TypeOK'
  <2>1. {"history"} \in SUBSET Sources /\ "openHistory" \in Loaders
    BY <1>8 DEF openHistory, Sources, Loaders
  <2>2. shown' \in [Lists -> [of : Contents, behind : SUBSET Reasons]]
    BY <1>8 DEF openHistory, TypeOK, Empty, Contents
  <2>3. dialog' \in [kind : DialogKinds \cup {"none"}, item : Items \cup {NoItem}]
    BY <1>8 DEF openHistory, DialogKinds
  <2> QED BY <1>8, <2>1, <2>2, <2>3, LoadType DEF openHistory, TypeOK
<1>9. ASSUME NEW t \in Tasks, NEW h \in Buttons, Click(t, h) PROVE TypeOK'
  <2>1. h \in DOMAIN Handler BY ButtonsAssumption
  <2>2. FlagSet(h) \subseteq Flags BY <2>1, HandlerFlags DEF FlagSet
  <2>3. IsTask(Starting(h)) BY <2>1, FreshTask
  <2> QED BY <1>9, <2>2, <2>3 DEF Click, TypeOK
<1> QED BY <1>1, <1>2, <1>3, <1>4, <1>5, <1>6, <1>7, <1>8, <1>9 DEF Person

\* The screen's own state: what is not about requests.
ScreenOK ==
  /\ session \in {NoSession} \cup [role : Roles, frozen : BOOLEAN]
  /\ me \in Roles \cup {NoOne} /\ mustChange \in BOOLEAN
  /\ view \in Views /\ showDeleted \in BOOLEAN /\ auditCategory \in Categories
  /\ shown \in [Lists -> [of : Contents, behind : SUBSET Reasons]]
  /\ panel \in Panels
  /\ dialog \in [kind : DialogKinds \cup {"none"}, item : Items \cup {NoItem}]
  /\ form \in [of : Items \cup {NoItem, Defaults}, editing : Items \cup {NoItem}]

\* The last part of an answer requests lists, or ends the task.
LEMMA ProceedType ==
  ASSUME TypeOK, NEW t \in Tasks, NEW all, \A x \in Tasks : IsTask(all[x]),
         NEW ls \in SUBSET Sources, NEW more \in BOOLEAN, Proceed(t, all, ls, more),
         ScreenOK', loading' \in BOOLEAN, newest' \in [Lists -> BOOLEAN]
  PROVE  TypeOK'
<1>1. auditCategory' \in Categories /\ dialog'.item \in Items \cup {NoItem} BY DEF ScreenOK
<1>2. DOMAIN tasks' = Tasks /\ \A x \in Tasks : IsTask(tasks'[x])
  BY <1>1, ProceedFacts DEF Proceeded
<1>3. busy' \subseteq Flags /\ booting' \in BOOLEAN
  BY DEF Proceed, FlagsLeft, TypeOK
<1> QED BY <1>2, <1>3 DEF TypeOK, ScreenOK

\* The part of an answer that all handlers share: it requests lists, or ends the task.
LEMMA AnswerType ==
  ASSUME TypeOK, NEW t \in Tasks, NEW all, \A x \in Tasks : IsTask(all[x]),
         NEW ls \in SUBSET Sources, NEW more \in BOOLEAN,
         Requested(ls), Proceed(t, all, ls, more), ScreenOK'
  PROVE  TypeOK'
<1>1. loading' \in BOOLEAN /\ newest' \in [Lists -> BOOLEAN] BY DEF Requested, TypeOK
<1> QED BY <1>1, ProceedType

\* No session has the types of a session, too, and no password to change.
LEMMA SessionType ==
  ASSUME TypeOK
  PROVE  /\ session.role \in Roles \cup {NoOne} /\ session.frozen \in BOOLEAN
         /\ [session EXCEPT !.frozen = FALSE]
              \in {NoSession} \cup [role : Roles, frozen : BOOLEAN]
<1>1. CASE session = NoSession
  <2>1. session.role = NoOne /\ session.frozen = FALSE BY <1>1 DEF NoSession
  <2>2. session \in [role : {NoOne}, frozen : {FALSE}] BY <1>1 DEF NoSession
  <2>3. [session EXCEPT !.frozen = FALSE] \in [role : {NoOne}, frozen : {FALSE}] BY <2>2
  <2>4. ASSUME NEW s \in [role : {NoOne}, frozen : {FALSE}] PROVE s = NoSession
    <3>1. s = [role |-> s.role, frozen |-> s.frozen] OBVIOUS
    <3>2. s.role = NoOne /\ s.frozen = FALSE OBVIOUS
    <3>3. s = [role |-> NoOne, frozen |-> FALSE] BY <3>1, <3>2, Zenon
    <3> QED BY <3>3 DEF NoSession
  <2> QED BY <2>1, <2>3, <2>4
<1>2. CASE session \in [role : Roles, frozen : BOOLEAN] BY <1>2
<1> QED BY <1>1, <1>2 DEF TypeOK

\* Whatever the server does or answers leaves the state well-formed.
LEMMA StepType == ASSUME TypeOK, NEW t \in Tasks, Step(t) PROVE TypeOK'
<1> USE DEF ScreenOK
<1>0. ScreenOK /\ \A x \in Tasks : IsTask(tasks[x]) BY DEF TypeOK
<1>a. {} \in SUBSET Sources /\ {"config"} \in SUBSET Sources BY DEF Sources
<1>b. session.role \in Roles \cup {NoOne} /\ session.frozen \in BOOLEAN BY SessionType
<1>1. ASSUME Serve(t) PROVE TypeOK'
  <2>1. /\ UNCHANGED <<booting, me, mustChange, view, showDeleted, auditCategory, loading,
                       panel, dialog, form, busy, newest>>
    BY <1>1 DEF Serve
  <2>2. PICK out \in Outcomes(t) :
          IF out # "ok" \/ tasks[t].h \notin DOMAIN Handler
          THEN /\ tasks' = [tasks EXCEPT ![t].step = out]
               /\ UNCHANGED <<session, shown>>
          ELSE \E side \in SUBSET Handler[tasks[t].h].side, heard \in BOOLEAN :
               LET changes == Handler[tasks[t].h].changes
                   change == IF heard THEN "change" ELSE "unheard"
                   marks == [l \in Lists |-> {change : x \in changes \cap {l}}
                                             \cup {"closing" : x \in side \cap {l}}]
                   all == [tasks EXCEPT ![t].step = IF heard THEN "ok" ELSE "lost"]
               IN /\ ~heard => "lost" \in Faults
                  /\ session' = SessionAfter(t)
                  /\ shown' = [l \in Lists |-> [shown[l] EXCEPT !.behind = @ \cup marks[l]]]
                  /\ tasks' = [x \in Tasks |-> Outdated(all[x], marks)]
    BY <1>1 DEF Serve
  <2>3. CASE out # "ok" \/ tasks[t].h \notin DOMAIN Handler
    <3>1. out \in Steps BY DEF Outcomes, Steps
    <3>2. IsTask([tasks[t] EXCEPT !.step = out]) BY <1>0, <3>1 DEF IsTask
    <3>3. /\ tasks' = [tasks EXCEPT ![t] = [tasks[t] EXCEPT !.step = out]]
          /\ UNCHANGED <<session, shown>>
      BY <2>2, <2>3
    <3> QED BY <2>1, <3>2, <3>3 DEF TypeOK
  <2>4. CASE ~(out # "ok" \/ tasks[t].h \notin DOMAIN Handler)
    <3>1. PICK side \in SUBSET Handler[tasks[t].h].side, heard \in BOOLEAN :
            LET changes == Handler[tasks[t].h].changes
                change == IF heard THEN "change" ELSE "unheard"
                marks == [l \in Lists |-> {change : x \in changes \cap {l}}
                                          \cup {"closing" : x \in side \cap {l}}]
                all == [tasks EXCEPT ![t].step = IF heard THEN "ok" ELSE "lost"]
            IN /\ session' = SessionAfter(t)
               /\ shown' = [l \in Lists |-> [shown[l] EXCEPT !.behind = @ \cup marks[l]]]
               /\ tasks' = [x \in Tasks |-> Outdated(all[x], marks)]
      BY <2>2, <2>4
    <3> DEFINE changes == Handler[tasks[t].h].changes
               change == IF heard THEN "change" ELSE "unheard"
               marks == [l \in Lists |-> {change : x \in changes \cap {l}}
                                         \cup {"closing" : x \in side \cap {l}}]
               told == [tasks[t] EXCEPT !.step = IF heard THEN "ok" ELSE "lost"]
               all == [tasks EXCEPT ![t] = told]
    <3>2. marks \in [Lists -> SUBSET Reasons] BY DEF Reasons
    <3>3. IsTask(told) BY <1>0 DEF IsTask, Steps
    <3>4. /\ session' = SessionAfter(t)
          /\ shown' = [l \in Lists |-> [shown[l] EXCEPT !.behind = @ \cup marks[l]]]
          /\ tasks' = [x \in Tasks |-> Outdated(all[x], marks)]
      BY <3>1
    <3> HIDE DEF marks, told
    <3>5. \A x \in Tasks : IsTask(all[x]) BY <1>0, <3>3 DEF TypeOK
    <3> HIDE DEF all
    <3>6. DOMAIN tasks' = Tasks /\ \A x \in Tasks : IsTask(tasks'[x])
      BY <3>2, <3>4, <3>5, OutdatedTask
    <3>7. shown' \in [Lists -> [of : Contents, behind : SUBSET Reasons]]
      BY <3>2, <3>4 DEF TypeOK
    <3>8. session' \in {NoSession} \cup [role : Roles, frozen : BOOLEAN]
      BY <3>4, SessionType DEF SessionAfter, TypeOK
    <3> QED BY <2>1, <3>6, <3>7, <3>8 DEF TypeOK
  <2> QED BY <2>3, <2>4
<1>2. ASSUME AnswerBoot(t) PROVE TypeOK'
  <2> DEFINE s == IF tasks[t].step = "ok" THEN session ELSE NoSession
             ls == IF s = NoSession THEN {} ELSE {"config"}
  <2>1. /\ me' = s.role /\ mustChange' = s.frozen
        /\ UNCHANGED <<session, view, showDeleted, auditCategory, shown, panel, dialog, form>>
        /\ Requested(ls)
        /\ Proceed(t, tasks, ls, ~s.frozen)
    BY <1>2 DEF AnswerBoot
  <2>2. NoSession.role = NoOne /\ NoSession.frozen = FALSE BY DEF NoSession
  <2>3. s.role \in Roles \cup {NoOne} /\ s.frozen \in BOOLEAN BY <1>b, <2>2
  <2>4. ls \in SUBSET Sources BY <1>a
  <2> HIDE DEF s, ls
  <2>5. ScreenOK' BY <1>0, <2>1, <2>3
  <2>6. (~s.frozen) \in BOOLEAN OBVIOUS
  <2> QED BY <1>0, <2>1, <2>4, <2>5, <2>6, AnswerType
<1>3. ASSUME AnswerLogin(t) PROVE TypeOK'
  <2>1. CASE /\ session' \in Accounts
             /\ me' = session'.role /\ mustChange' = session'.frozen
             /\ shown' = [l \in Lists |-> [shown[l] EXCEPT !.behind = @ \cup {"account"}]]
             /\ UNCHANGED <<view, showDeleted, auditCategory, panel, dialog, form>>
             /\ Requested({"config"})
             /\ Proceed(t, [x \in Tasks |-> IF x = t THEN tasks[t] ELSE OfEarlierSession(tasks[x])],
                        {"config"}, ~session'.frozen)
    <3> DEFINE all == [x \in Tasks |-> IF x = t THEN tasks[t] ELSE OfEarlierSession(tasks[x])]
    <3>1. \A x \in Tasks : IsTask(all[x]) BY <1>0, EarlierTask
    <3>2. session' \in [role : Roles, frozen : BOOLEAN]
      BY <2>1, AccountsAssumption DEF Roles
    <3>3. shown' \in [Lists -> [of : Contents, behind : SUBSET Reasons]]
      BY <1>0, <2>1 DEF Reasons
    <3>4. ScreenOK' BY <1>0, <2>1, <3>2, <3>3
    <3>5. (~session'.frozen) \in BOOLEAN OBVIOUS
    <3>6. Requested({"config"}) /\ Proceed(t, all, {"config"}, ~session'.frozen) BY <2>1
    <3> HIDE DEF all
    <3> QED BY <1>a, <3>1, <3>4, <3>5, <3>6, AnswerType
  <2>2. CASE /\ UNCHANGED <<session, me, mustChange, view, showDeleted, auditCategory, shown,
                            panel, dialog, form>>
             /\ Requested({}) /\ Proceed(t, tasks, {}, FALSE)
    <3>1. ScreenOK' BY <1>0, <2>2
    <3> QED BY <1>0, <1>a, <2>2, <3>1, AnswerType
  <2> QED BY <1>3, <2>1, <2>2 DEF AnswerLogin
<1>4. ASSUME AnswerFirstPassword(t) PROVE TypeOK'
  <2> DEFINE ls == IF tasks[t].step = "ok" THEN {"config"} ELSE {}
  <2>1. ScreenOK' BY <1>0, <1>4 DEF AnswerFirstPassword
  <2>2. Requested(ls) /\ Proceed(t, tasks, ls, TRUE) BY <1>4 DEF AnswerFirstPassword
  <2>3. ls \in SUBSET Sources BY <1>a
  <2> HIDE DEF ls
  <2> QED BY <1>0, <2>1, <2>2, <2>3, AnswerType
<1>5. ASSUME AnswerLogout(t) PROVE TypeOK'
  <2>1. shown' \in [Lists -> [of : Contents, behind : SUBSET Reasons]]
    BY <1>0, <1>5 DEF AnswerLogout, Empty, Contents
  <2>2. ScreenOK' BY <1>0, <1>5, <2>1 DEF AnswerLogout, Views
  <2> QED BY <1>0, <1>5, <1>a, <2>2, AnswerType DEF AnswerLogout
<1>6. ASSUME AnswerPassword(t) PROVE TypeOK'
  <2>1. ScreenOK' BY <1>0, <1>6 DEF AnswerPassword, Closed
  <2> QED BY <1>0, <1>6, <1>a, <2>1, AnswerType DEF AnswerPassword
<1>7. ASSUME AnswerReset(t) PROVE TypeOK'
  <2>1. ScreenOK' BY <1>0, <1>7 DEF AnswerReset, Panels
  <2> QED BY <1>0, <1>7, <1>a, <2>1, AnswerType DEF AnswerReset
<1>8. ASSUME Answer(t) PROVE TypeOK'
  <2> DEFINE ls == IF tasks[t].step = "ok" THEN Loadable(Handler[tasks[t].h].loads) ELSE {}
  <2>1. ScreenOK' BY <1>0, <1>8 DEF Answer, Closed
  <2>2. Requested(ls) /\ Proceed(t, tasks, ls, FALSE) BY <1>8 DEF Answer
  <2>3. ls \in SUBSET Sources BY DEF Loadable, Sources
  <2> HIDE DEF ls
  <2> QED BY <1>0, <2>1, <2>2, <2>3, AnswerType
<1>9. ASSUME NEW l \in Lists \cup {"config"}, ServeRead(t, l) PROVE TypeOK'
  <2>1. PICK got \in {"rows", "denied"} : tasks' = [tasks EXCEPT ![t].reads[l].got = got]
    BY <1>9 DEF ServeRead
  <2>2. l \in DOMAIN tasks[t].reads BY <1>9 DEF ServeRead
  <2> DEFINE read == [tasks[t].reads[l] EXCEPT !.got = got]
             reads == [tasks[t].reads EXCEPT ![l] = read]
             k == [tasks[t] EXCEPT !.reads = reads]
  <2>3. read \in Read BY <1>0, <2>1, <2>2 DEF IsTask, Read
  <2> HIDE DEF read
  <2>4. reads \in [DOMAIN tasks[t].reads -> Read] BY <1>0, <2>3 DEF IsTask
  <2> HIDE DEF reads
  <2>5. IsTask(k) BY <1>0, <2>4 DEF IsTask
  <2>6. tasks' = [tasks EXCEPT ![t] = k] BY <2>1 DEF k, reads, read
  <2> HIDE DEF k
  <2>7. DOMAIN tasks' = Tasks /\ \A x \in Tasks : IsTask(tasks'[x])
    BY <1>0, <2>5, <2>6 DEF TypeOK
  <2>8. UNCHANGED <<session, booting, me, mustChange, view, showDeleted, auditCategory,
                    shown, loading, panel, dialog, form, busy, newest>>
    BY <1>9 DEF ServeRead
  <2> QED BY <2>7, <2>8 DEF TypeOK
<1>10. ASSUME NEW l \in Lists \cup {"config"}, Arrive(t, l) PROVE TypeOK'
  <2> DEFINE r == tasks[t].reads[l]
             rest == DOMAIN tasks[t].reads \ {l}
             part == IF rest = {} THEN NextPart(t, l) ELSE {}
             ls == part \ (IF me' = "admin" THEN {} ELSE {"audit"})
  <2>1. r \in Read BY <1>0, <1>10 DEF Arrive, IsTask
  <2>2. /\ me' = IF r.got = "denied" THEN NoOne ELSE me
        /\ form' = form \/ form' = Blank
        /\ shown' = IF r.got = "rows" /\ l \in Lists
                    THEN [shown EXCEPT ![l] = [of |-> r.of, behind |-> r.behind]] ELSE shown
        /\ UNCHANGED <<session, mustChange, view, showDeleted, auditCategory, panel, dialog>>
    BY <1>10 DEF Arrive
  <2>3. /\ loading' = ((loading /\ l # "certs") \/ "certs" \in ls)
        /\ newest' = [k \in Lists |-> IF k \in ls THEN FALSE
                                      ELSE IF k = l /\ r.got = "rows" THEN ~r.older ELSE newest[k]]
    BY <1>10 DEF Arrive
  <2>4. IF rest # {}
        THEN /\ tasks' = [tasks EXCEPT ![t].reads = [k \in rest |-> @[k]]]
             /\ UNCHANGED <<busy, booting>>
        ELSE Proceed(t, tasks, ls, l = "config")
    BY <1>10 DEF Arrive
  <2>5. ls \in SUBSET Sources BY DEF NextPart, Sources
  <2> HIDE DEF r, ls
  <2>6. loading' \in BOOLEAN /\ newest' \in [Lists -> BOOLEAN]
    BY <2>1, <2>3 DEF Read, TypeOK
  <2>7. shown' \in [Lists -> [of : Contents, behind : SUBSET Reasons]]
    BY <1>0, <2>1, <2>2 DEF Read
  <2>8. ScreenOK' BY <1>0, <2>2, <2>7 DEF Blank
  <2>9. CASE rest # {}
    <3> DEFINE reads == [k \in rest |-> tasks[t].reads[k]]
               k == [tasks[t] EXCEPT !.reads = reads]
    <3>1. reads \in [rest -> Read] BY <1>0 DEF IsTask
    <3>2. rest \subseteq Sources BY <1>0 DEF IsTask
    <3> HIDE DEF reads
    <3>3. IsTask(k) BY <1>0, <3>1, <3>2 DEF IsTask
    <3>4. tasks' = [tasks EXCEPT ![t] = k] BY <2>4, <2>9 DEF k, reads
    <3> HIDE DEF k
    <3>5. DOMAIN tasks' = Tasks /\ \A x \in Tasks : IsTask(tasks'[x])
      BY <1>0, <3>3, <3>4 DEF TypeOK
    <3>6. UNCHANGED <<busy, booting>> BY <2>4, <2>9
    <3> QED BY <2>6, <2>8, <3>5, <3>6 DEF TypeOK
  <2>10. CASE rest = {}
    <3>1. Proceed(t, tasks, ls, l = "config") /\ (l = "config") \in BOOLEAN BY <2>4, <2>10
    <3> QED BY <1>0, <2>5, <2>6, <2>8, <3>1, ProceedType
  <2> QED BY <2>9, <2>10
<1> QED
  BY <1>1, <1>2, <1>3, <1>4, <1>5, <1>6, <1>7, <1>8, <1>9, <1>10 DEF Step

\* A page that has just been loaded, by Init or by Reload.
LEMMA FreshPage ==
  ASSUME NEW t \in Tasks
  PROVE  /\ DOMAIN Booting(t) = Tasks /\ \A x \in Tasks : IsTask(Booting(t)[x])
         /\ NoRows \in [Lists -> [of : Contents, behind : SUBSET Reasons]]
         /\ NoneNewest \in [Lists -> BOOLEAN]
         /\ Closed \in [kind : DialogKinds \cup {"none"}, item : Items \cup {NoItem}]
         /\ Blank \in [of : Items \cup {NoItem, Defaults}, editing : Items \cup {NoItem}]
         /\ "certs" \in Views /\ "sign in" \in Panels /\ Everything \in Categories
<1>1. IsTask(Idle) /\ IsTask(Starting("onMounted")) BY FreshTask DEF Loaders
<1>2. DOMAIN Booting(t) = Tasks /\ \A x \in Tasks : IsTask(Booting(t)[x])
  BY <1>1 DEF Booting
<1> QED
  BY <1>2, CategoriesAssumption
     DEF NoRows, Empty, Contents, NoneNewest, Closed, Blank, Views, Panels

\* Every step leaves the state well-formed.
LEMMA TypeStep == ASSUME TypeOK, [Next]_vars PROVE TypeOK'
<1>1. CASE Person BY <1>1, PersonType
<1>2. CASE \E t \in Tasks : Step(t) BY <1>2, StepType
<1>3. CASE SessionEnds BY <1>3 DEF SessionEnds, TypeOK
<1>4. CASE Reload
  <2>1. PICK t \in Tasks : tasks' = Booting(t) BY <1>4, Zenon DEF Reload
  <2>2. /\ booting' = TRUE /\ me' = NoOne /\ mustChange' = FALSE
        /\ view' = "certs" /\ showDeleted' = FALSE /\ auditCategory' = Everything
        /\ shown' = NoRows /\ newest' = NoneNewest /\ loading' = TRUE
        /\ panel' = "sign in" /\ dialog' = Closed /\ form' = Blank /\ busy' = {}
        /\ session' = session
    BY <1>4, Zenon DEF Reload
  <2> QED BY <2>1, <2>2, FreshPage DEF TypeOK
<1>5. CASE UNCHANGED vars BY <1>5 DEF vars, TypeOK
<1> QED BY <1>1, <1>2, <1>3, <1>4, <1>5 DEF Next

\* So is the page when it opens.
LEMMA InitType == ASSUME Init PROVE TypeOK
<1>1. PICK t \in Tasks : tasks = Booting(t) BY Zenon DEF Init
<1>2. session \in {NoSession} \cup [role : Roles, frozen : BOOLEAN]
  BY AccountsAssumption DEF Init, Roles
<1>3. /\ booting = TRUE /\ me = NoOne /\ mustChange = FALSE
      /\ view = "certs" /\ showDeleted = FALSE /\ auditCategory = Everything
      /\ shown = NoRows /\ newest = NoneNewest /\ loading = TRUE
      /\ panel = "sign in" /\ dialog = Closed /\ form = Blank /\ busy = {}
  BY Zenon DEF Init
<1> QED BY <1>1, <1>2, <1>3, FreshPage DEF TypeOK

\* The state is well-formed, however requests and answers overlap.
THEOREM TypeCorrect == Spec => []TypeOK
<1>1. Init => TypeOK BY InitType
<1> QED BY <1>1, TypeStep, PTL DEF Spec

-----------------------------------------------------------------------------
(* Flags, the first screen and the spinner *)

FlagsMatch == busy = {FlagOf(tasks[t].h) : t \in Tasks} \ {"none"}

BootIsRunning == booting => InFlight("onMounted") # {}

\* A task that will load the cards: it is at it, or loadAll has them next.
LoadsCerts(k) == "certs" \in DOMAIN k.reads \/ (DOMAIN k.reads = {"config"} /\ k.more)

SpinnerWaits ==
  loading /\ me # NoOne /\ ~mustChange => \E t \in Tasks : LoadsCerts(tasks[t])

OnlyReadersRead == \A t \in Tasks : tasks[t].step # "reading" => DOMAIN tasks[t].reads = {}

IInv ==
  /\ TypeOK
  /\ FlagsMatch /\ NoDoubleSubmit
  /\ BootIsRunning
  /\ SpinnerWaits
  /\ OnlyReadersRead

\* What matters of a task in the following.
Alike(j, k) ==
  j.h = k.h /\ j.step = k.step /\ j.more = k.more /\ DOMAIN j.reads = DOMAIN k.reads

\* A task keeps its flag, takes it back when it ends, or sets one that is not set.
LEMMA FlagStep ==
  ASSUME FlagsMatch, NoDoubleSubmit, NEW t \in Tasks,
         \A x \in Tasks \ {t} : tasks'[x].h = tasks[x].h,
         \/ tasks'[t].h = tasks[t].h /\ busy' = busy
         \/ FlagOf(tasks'[t].h) = "none" /\ busy' = busy \ {FlagOf(tasks[t].h)}
         \/ /\ FlagOf(tasks[t].h) = "none" /\ FlagOf(tasks'[t].h) \notin busy
            /\ busy' = busy \cup ({FlagOf(tasks'[t].h)} \ {"none"})
  PROVE  FlagsMatch' /\ NoDoubleSubmit'
<1> DEFINE F(x) == FlagOf(tasks[x].h)
           G(x) == FlagOf(tasks'[x].h)
<1>1. /\ busy = {F(x) : x \in Tasks} \ {"none"}
      /\ \A x, y \in Tasks : x # y /\ F(x) # "none" => F(x) # F(y)
  BY DEF FlagsMatch, NoDoubleSubmit
<1>2. \A x \in Tasks \ {t} : G(x) = F(x) OBVIOUS
<1>3. \/ G(t) = F(t) /\ busy' = busy
      \/ G(t) = "none" /\ busy' = busy \ {F(t)}
      \/ F(t) = "none" /\ G(t) \notin busy /\ busy' = busy \cup ({G(t)} \ {"none"})
  OBVIOUS
<1>4. FlagsMatch' <=> busy' = {G(x) : x \in Tasks} \ {"none"} BY DEF FlagsMatch
<1>5. NoDoubleSubmit' <=> \A x, y \in Tasks : x # y /\ G(x) # "none" => G(x) # G(y)
  BY DEF NoDoubleSubmit
<1> HIDE DEF F, G
<1> QED BY <1>1, <1>2, <1>3, <1>4, <1>5

\* Idle tasks and new ones load nothing.
LEMMA NothingLoading ==
  /\ Idle.h = "none" /\ Idle.step # "reading" /\ DOMAIN Idle.reads = {}
  /\ \A h : Starting(h).h = h /\ Starting(h).step # "reading" /\ DOMAIN Starting(h).reads = {}
  /\ FlagOf("none") = "none"
<1>1. "none" \notin DOMAIN Handler BY LoadersHaveNoFlag DEF Loaders
<1> QED BY <1>1 DEF Idle, Starting, NoReads, FlagOf

\* The last part of a handler, from a task in flight or a free one.
LEMMA ProceedInv ==
  ASSUME IInv, TypeOK', NEW t \in Tasks, NEW all, \A x \in Tasks : IsTask(all[x]),
         \A x \in Tasks \ {t} : Alike(all[x], tasks[x]),
         \/ all[t].h = tasks[t].h
         \/ tasks[t] = Idle /\ all[t].h \in Loaders,
         NEW ls \in SUBSET Sources, NEW more \in BOOLEAN, Proceed(t, all, ls, more),
         loading' /\ me' # NoOne /\ ~mustChange'
           => \/ "certs" \in ls \/ (ls = {"config"} /\ more)
              \/ \E x \in Tasks \ {t} : LoadsCerts(tasks[x])
  PROVE  IInv'
<1>0. auditCategory' \in Categories /\ dialog'.item \in Items \cup {NoItem} BY DEF TypeOK
<1>1. Proceeded(t, all, ls, more) BY <1>0, ProceedFacts
<1>2. /\ ls = {} => tasks'[t] = Idle /\ busy' = busy \ {FlagOf(all[t].h)}
      /\ ls # {} => /\ tasks'[t].h = all[t].h /\ tasks'[t].step = "reading"
                    /\ tasks'[t].more = more /\ DOMAIN tasks'[t].reads = ls
                    /\ busy' = busy
  BY <1>1 DEF Proceeded
<1>3. \A x \in Tasks \ {t} : Alike(tasks'[x], tasks[x]) BY <1>1 DEF Proceeded, Alike
<1>4. FlagsMatch' /\ NoDoubleSubmit'
  <2>1. \/ FlagOf(tasks[t].h) = "none" /\ FlagOf(all[t].h) = "none"
        \/ all[t].h = tasks[t].h
    BY NothingLoading, LoadersHaveNoFlag DEF FlagOf
  <2>2. "none" \notin busy /\ busy \ {"none"} = busy BY DEF IInv, FlagsMatch
  <2>3. CASE ls = {}
    <3>1. FlagOf(tasks'[t].h) = "none" BY <1>2, <2>3, NothingLoading
    <3>2. busy' = busy \ {FlagOf(tasks[t].h)} BY <1>2, <2>1, <2>2, <2>3
    <3> QED BY <1>3, <3>1, <3>2, FlagStep DEF IInv, Alike
  <2>4. CASE ls # {} /\ all[t].h = tasks[t].h
    BY <1>2, <1>3, <2>4, FlagStep DEF IInv, Alike
  <2>5. CASE ls # {} /\ FlagOf(tasks[t].h) = "none" /\ FlagOf(all[t].h) = "none"
    <3>1. busy' = busy \cup ({FlagOf(tasks'[t].h)} \ {"none"}) BY <1>2, <2>5
    <3> QED BY <1>2, <1>3, <2>2, <2>5, <3>1, FlagStep DEF IInv, Alike
  <2> QED BY <2>1, <2>3, <2>4, <2>5
<1>5. BootIsRunning'
  <2> SUFFICES ASSUME booting' PROVE \E x \in Tasks : tasks'[x].h = "onMounted"
    BY DEF BootIsRunning, InFlight
  <2>1. booting /\ (ls = {} => all[t].h # "onMounted") BY <1>1, Zenon DEF Proceeded
  <2>2. PICK x \in Tasks : tasks[x].h = "onMounted" BY <2>1 DEF IInv, BootIsRunning, InFlight
  <2>3. CASE x # t BY <1>3, <2>2, <2>3 DEF Alike
  <2>4. CASE x = t
    <3>1. all[t].h = "onMounted" BY <2>2, <2>4, NothingLoading
    <3> QED BY <1>2, <2>1, <3>1
  <2> QED BY <2>3, <2>4
<1>6. SpinnerWaits'
  <2> SUFFICES ASSUME loading', me' # NoOne, ~mustChange'
               PROVE  \E x \in Tasks : LoadsCerts(tasks'[x])
    BY DEF SpinnerWaits, LoadsCerts
  <2>1. CASE "certs" \in ls \/ (ls = {"config"} /\ more) BY <1>2, <2>1 DEF LoadsCerts
  <2>2. CASE \E x \in Tasks \ {t} : LoadsCerts(tasks[x])
    BY <1>3, <2>2 DEF LoadsCerts, Alike
  <2> QED BY <2>1, <2>2
<1>7. OnlyReadersRead'
  BY <1>2, <1>3, NothingLoading DEF IInv, OnlyReadersRead, Alike
<1> QED BY <1>4, <1>5, <1>6, <1>7 DEF IInv

\* An answer to a request, which loads nothing by itself.
LEMMA AnswerInv ==
  ASSUME IInv, TypeOK', NEW t \in Tasks, tasks[t].step # "reading",
         NEW all, \A x \in Tasks : IsTask(all[x]), \A x \in Tasks : Alike(all[x], tasks[x]),
         NEW ls \in SUBSET Sources, NEW more \in BOOLEAN, Requested(ls), Proceed(t, all, ls, more),
         \/ me' = NoOne \/ mustChange'
         \/ ls = {"config"} /\ more
         \/ me = me' /\ mustChange = mustChange'
  PROVE  IInv'
<1>1. ~LoadsCerts(tasks[t])
  <2>1. DOMAIN tasks[t].reads = {} BY DEF IInv, OnlyReadersRead
  <2> QED BY <2>1 DEF LoadsCerts
<1>2. loading' /\ me' # NoOne /\ ~mustChange'
        => \/ "certs" \in ls \/ (ls = {"config"} /\ more)
           \/ \E x \in Tasks \ {t} : LoadsCerts(tasks[x])
  <2> SUFFICES ASSUME loading', me' # NoOne, ~mustChange', ~(ls = {"config"} /\ more), "certs" \notin ls
               PROVE  \E x \in Tasks \ {t} : LoadsCerts(tasks[x])
    BY Zenon
  <2>a. me = me' /\ mustChange = mustChange' BY Zenon
  <2>b. loading BY Zenon DEF Requested
  <2>1. loading /\ me # NoOne /\ ~mustChange BY <2>a, <2>b, Zenon
  <2>2. PICK x \in Tasks : LoadsCerts(tasks[x]) BY <2>1 DEF IInv, SpinnerWaits
  <2> QED BY <1>1, <2>2
<1>3. all[t].h = tasks[t].h BY DEF Alike
<1> QED BY <1>2, <1>3, ProceedInv

\* Steps that leave the tasks alone.
LEMMA QuietInv ==
  ASSUME IInv, TypeOK', UNCHANGED <<booting, me, mustChange, loading, busy, tasks>>
  PROVE  IInv'
<1>1. FlagsMatch' /\ NoDoubleSubmit' BY DEF IInv, FlagsMatch, NoDoubleSubmit
<1>2. BootIsRunning' BY DEF IInv, BootIsRunning, InFlight
<1>3. SpinnerWaits' BY DEF IInv, SpinnerWaits, LoadsCerts
<1>4. OnlyReadersRead' BY DEF IInv, OnlyReadersRead
<1> QED BY <1>1, <1>2, <1>3, <1>4 DEF IInv

\* Steps in which no task starts, ends, or changes what it loads.
LEMMA AlikeInv ==
  ASSUME IInv, TypeOK', UNCHANGED <<booting, me, mustChange, loading, busy>>,
         NEW t \in Tasks,
         \A x \in Tasks : /\ tasks'[x].h = tasks[x].h /\ tasks'[x].more = tasks[x].more
                          /\ DOMAIN tasks'[x].reads = DOMAIN tasks[x].reads,
         \A x \in Tasks : tasks'[x].step = tasks[x].step \/ tasks[x].step # "reading"
  PROVE  IInv'
<1>1. FlagsMatch' /\ NoDoubleSubmit' BY FlagStep DEF IInv
<1>2. BootIsRunning' BY DEF IInv, BootIsRunning, InFlight
<1>3. SpinnerWaits' BY DEF IInv, SpinnerWaits, LoadsCerts
<1>4. OnlyReadersRead' BY DEF IInv, OnlyReadersRead
<1> QED BY <1>1, <1>2, <1>3, <1>4 DEF IInv

\* A handler that only loads.
LEMMA LoadInv ==
  ASSUME IInv, TypeOK', NEW t \in Tasks, NEW h \in Loaders, NEW ls \in SUBSET Sources,
         Load(t, h, ls), UNCHANGED <<me, mustChange>>
  PROVE  IInv'
<1> DEFINE new == [Idle EXCEPT !.h = h]
           all == [tasks EXCEPT ![t] = new]
<1>1. tasks[t] = Idle /\ Requested(ls) /\ Proceed(t, all, ls, FALSE) BY DEF Load
<1>2. IsTask(new) /\ new.h = h BY FreshTask DEF Idle
<1> HIDE DEF new
<1>3. /\ \A x \in Tasks : IsTask(all[x])
      /\ all[t] = new /\ \A x \in Tasks \ {t} : all[x] = tasks[x]
  BY <1>2 DEF IInv, TypeOK
<1> HIDE DEF all
<1>4. \A x \in Tasks \ {t} : Alike(all[x], tasks[x]) BY <1>3 DEF Alike
<1>5. ~LoadsCerts(tasks[t]) BY <1>1, NothingLoading DEF LoadsCerts
<1>6. loading' /\ me' # NoOne /\ ~mustChange'
        => "certs" \in ls \/ \E x \in Tasks \ {t} : LoadsCerts(tasks[x])
  <2> SUFFICES ASSUME loading', me' # NoOne, ~mustChange', "certs" \notin ls
               PROVE  \E x \in Tasks \ {t} : LoadsCerts(tasks[x])
    BY Zenon
  <2>1. loading BY <1>1, Zenon DEF Requested
  <2>2. PICK x \in Tasks : LoadsCerts(tasks[x]) BY <2>1 DEF IInv, SpinnerWaits
  <2> QED BY <1>5, <2>2
<1>7. tasks[t] = Idle /\ all[t].h \in Loaders BY <1>1, <1>2, <1>3
<1> QED BY <1>1, <1>3, <1>4, <1>6, <1>7, ProceedInv

\* Whatever a person clicks leaves flags and tasks in agreement.
LEMMA PersonInv == ASSUME IInv, TypeOK', Person PROVE IInv'
<1>1. ASSUME \/ openCreate \/ CloseDialog \/ openForgot \/ closeForgot
             \/ \E c \in Items : openEdit(c)
             \/ \E kind \in DialogKinds : OpenDialog(kind)
      PROVE  IInv'
  <2>1. UNCHANGED <<booting, me, mustChange, loading, busy, tasks>>
    BY <1>1 DEF openCreate, CloseDialog, openForgot, closeForgot, openEdit, OpenDialog,
                UnchangedButDialog
  <2> QED BY <2>1, QuietInv
<1>2. ASSUME NEW t \in Tasks, NEW v \in Views, switchView(t, v) PROVE IInv'
  <2>1. CASE UNCHANGED <<booting, loading, busy, tasks, newest>>
    BY <1>2, <2>1, QuietInv DEF switchView
  <2>2. CASE Load(t, "switchView", Loadable(TabLists(v)))
    <3>1. Loadable(TabLists(v)) \in SUBSET Sources /\ "switchView" \in Loaders
      BY DEF Loadable, Sources, Loaders
    <3> QED BY <1>2, <2>2, <3>1, LoadInv DEF switchView
  <2> QED BY <1>2, <2>1, <2>2 DEF switchView
<1>3. ASSUME NEW t \in Tasks, toggleDeleted(t) PROVE IInv'
  <2>1. {"certs"} \in SUBSET Sources /\ "toggleDeleted" \in Loaders
    BY ListsAssumption DEF Sources, Loaders
  <2> QED BY <1>3, <2>1, LoadInv DEF toggleDeleted
<1>4. ASSUME NEW t \in Tasks, NEW key \in Categories, setAuditCategory(t, key) PROVE IInv'
  <2>1. {"audit"} \in SUBSET Sources /\ "setAuditCategory" \in Loaders
    BY <1>4 DEF setAuditCategory, Sources, Loaders
  <2> QED BY <1>4, <2>1, LoadInv DEF setAuditCategory
<1>5. ASSUME NEW t \in Tasks, NEW c \in Items, openHistory(t, c) PROVE IInv'
  <2>1. {"history"} \in SUBSET Sources /\ "openHistory" \in Loaders
    BY <1>5 DEF openHistory, Sources, Loaders
  <2> QED BY <1>5, <2>1, LoadInv DEF openHistory
<1>6. ASSUME NEW t \in Tasks, NEW h \in Buttons, Click(t, h) PROVE IInv'
  <2>1. /\ tasks[t] = Idle /\ Handler[h].flag \notin busy
        /\ busy' = busy \cup FlagSet(h)
        /\ tasks' = [tasks EXCEPT ![t] = Starting(h)]
        /\ UNCHANGED <<booting, me, mustChange, loading>>
    BY <1>6 DEF Click, Clickable
  <2>2. /\ tasks'[t] = Starting(h) /\ \A x \in Tasks \ {t} : tasks'[x] = tasks[x]
    BY <2>1 DEF IInv, TypeOK
  <2>3. FlagOf(h) = Handler[h].flag /\ FlagSet(h) = {FlagOf(h)} \ {"none"}
    BY ButtonsAssumption DEF FlagOf, FlagSet
  <2>4. FlagsMatch' /\ NoDoubleSubmit'
    <3>1. FlagOf(tasks[t].h) = "none" BY <2>1, NothingLoading
    <3>2. FlagOf(tasks'[t].h) = FlagOf(h) BY <2>2, NothingLoading
    <3> QED BY <2>1, <2>2, <2>3, <3>1, <3>2, FlagStep DEF IInv
  <2>5. BootIsRunning'
    BY <2>1, <2>2, NothingLoading DEF IInv, BootIsRunning, InFlight
  <2>6. SpinnerWaits'
    <3>1. ~LoadsCerts(tasks[t]) BY <2>1, NothingLoading DEF LoadsCerts
    <3> QED BY <2>1, <2>2, <3>1 DEF IInv, SpinnerWaits, LoadsCerts
  <2>7. OnlyReadersRead' BY <2>2, NothingLoading DEF IInv, OnlyReadersRead
  <2> QED BY <2>4, <2>5, <2>6, <2>7 DEF IInv
<1> QED BY <1>1, <1>2, <1>3, <1>4, <1>5, <1>6 DEF Person

\* So does whatever the server does or answers.
LEMMA StepInv == ASSUME IInv, TypeOK', NEW t \in Tasks, Step(t) PROVE IInv'
<1>0. TypeOK /\ \A x \in Tasks : IsTask(tasks[x]) BY DEF IInv, TypeOK
<1>a. {} \in SUBSET Sources /\ {"config"} \in SUBSET Sources BY DEF Sources
<1>b. \A x \in Tasks : Alike(tasks[x], tasks[x]) BY DEF Alike
<1>c. Answered(t) => tasks[t].step # "reading" BY DEF Answered, Failed
<1>1. ASSUME Serve(t) PROVE IInv'
  <2>1. UNCHANGED <<booting, me, mustChange, loading, busy>> /\ tasks[t].step = "sent"
    BY <1>1 DEF Serve
  <2>2. \/ \E out \in Outcomes(t) : tasks' = [tasks EXCEPT ![t].step = out]
        \/ \E marks \in [Lists -> SUBSET Reasons], heard \in BOOLEAN :
             tasks' = [x \in Tasks |->
               Outdated([tasks EXCEPT ![t].step = IF heard THEN "ok" ELSE "lost"][x], marks)]
    <3>1. PICK out \in Outcomes(t) :
            IF out # "ok" \/ tasks[t].h \notin DOMAIN Handler
            THEN /\ tasks' = [tasks EXCEPT ![t].step = out]
                 /\ UNCHANGED <<session, shown>>
            ELSE \E side \in SUBSET Handler[tasks[t].h].side, heard \in BOOLEAN :
                 LET changes == Handler[tasks[t].h].changes
                     change == IF heard THEN "change" ELSE "unheard"
                     marks == [l \in Lists |-> {change : x \in changes \cap {l}}
                                               \cup {"closing" : x \in side \cap {l}}]
                     all == [tasks EXCEPT ![t].step = IF heard THEN "ok" ELSE "lost"]
                 IN /\ ~heard => "lost" \in Faults
                    /\ session' = SessionAfter(t)
                    /\ shown' = [l \in Lists |-> [shown[l] EXCEPT !.behind = @ \cup marks[l]]]
                    /\ tasks' = [x \in Tasks |-> Outdated(all[x], marks)]
      BY <1>1 DEF Serve
    <3>2. CASE out # "ok" \/ tasks[t].h \notin DOMAIN Handler BY <3>1, <3>2
    <3>3. CASE ~(out # "ok" \/ tasks[t].h \notin DOMAIN Handler)
      <4>1. PICK side \in SUBSET Handler[tasks[t].h].side, heard \in BOOLEAN :
              LET changes == Handler[tasks[t].h].changes
                  change == IF heard THEN "change" ELSE "unheard"
                  marks == [l \in Lists |-> {change : x \in changes \cap {l}}
                                            \cup {"closing" : x \in side \cap {l}}]
                  all == [tasks EXCEPT ![t].step = IF heard THEN "ok" ELSE "lost"]
              IN tasks' = [x \in Tasks |-> Outdated(all[x], marks)]
        BY <3>1, <3>3
      <4> DEFINE changes == Handler[tasks[t].h].changes
                 change == IF heard THEN "change" ELSE "unheard"
                 marks == [l \in Lists |-> {change : x \in changes \cap {l}}
                                           \cup {"closing" : x \in side \cap {l}}]
      <4>2. marks \in [Lists -> SUBSET Reasons] BY DEF Reasons
      <4>3. tasks' = [x \in Tasks |->
              Outdated([tasks EXCEPT ![t].step = IF heard THEN "ok" ELSE "lost"][x], marks)]
        BY <4>1
      <4> HIDE DEF marks
      <4> QED BY <4>2, <4>3
    <3> QED BY <3>2, <3>3
  <2>3. CASE \E out \in Outcomes(t) : tasks' = [tasks EXCEPT ![t].step = out]
    <3>1. PICK out : tasks' = [tasks EXCEPT ![t].step = out] BY <2>3
    <3>2. \A x \in Tasks :
            /\ tasks'[x].h = tasks[x].h /\ tasks'[x].more = tasks[x].more
            /\ DOMAIN tasks'[x].reads = DOMAIN tasks[x].reads
            /\ tasks'[x].step = tasks[x].step \/ x = t
      BY <1>0, <3>1 DEF TypeOK, IsTask
    <3> QED BY <2>1, <3>2, AlikeInv
  <2>4. CASE \E marks \in [Lists -> SUBSET Reasons], heard \in BOOLEAN :
               tasks' = [x \in Tasks |->
                 Outdated([tasks EXCEPT ![t].step = IF heard THEN "ok" ELSE "lost"][x], marks)]
    <3>1. PICK marks \in [Lists -> SUBSET Reasons], heard \in BOOLEAN :
            tasks' = [x \in Tasks |->
              Outdated([tasks EXCEPT ![t].step = IF heard THEN "ok" ELSE "lost"][x], marks)]
      BY <2>4
    <3> DEFINE all == [tasks EXCEPT ![t].step = IF heard THEN "ok" ELSE "lost"]
    <3>2. \A x \in Tasks :
            /\ IsTask(all[x])
            /\ all[x].h = tasks[x].h /\ all[x].more = tasks[x].more
            /\ all[x].reads = tasks[x].reads
            /\ all[x].step = tasks[x].step \/ x = t
      BY <1>0 DEF TypeOK, IsTask, Steps
    <3>3. tasks' = [x \in Tasks |-> Outdated(all[x], marks)] BY <3>1
    <3> HIDE DEF all
    <3>4. \A x \in Tasks :
            /\ tasks'[x].h = tasks[x].h /\ tasks'[x].more = tasks[x].more
            /\ DOMAIN tasks'[x].reads = DOMAIN tasks[x].reads
            /\ tasks'[x].step = tasks[x].step \/ x = t
      BY <3>2, <3>3, OutdatedTask
    <3> QED BY <2>1, <3>4, AlikeInv
  <2> QED BY <2>2, <2>3, <2>4
<1>2. ASSUME AnswerBoot(t) PROVE IInv'
  <2> DEFINE s == IF tasks[t].step = "ok" THEN session ELSE NoSession
             ls == IF s = NoSession THEN {} ELSE {"config"}
  <2>1. /\ me' = s.role /\ mustChange' = s.frozen
        /\ Requested(ls) /\ Proceed(t, tasks, ls, ~s.frozen)
    BY <1>2 DEF AnswerBoot
  <2>2. tasks[t].step # "reading" BY <1>2, <1>c DEF AnswerBoot
  <2>3. me' = NoOne \/ mustChange' \/ (ls = {"config"} /\ ~s.frozen)
    BY <2>1 DEF NoSession
  <2>4. ls \in SUBSET Sources BY <1>a
  <2>5. (~s.frozen) \in BOOLEAN OBVIOUS
  <2> HIDE DEF s, ls
  <2> QED BY <1>0, <1>b, <2>1, <2>2, <2>3, <2>4, <2>5, AnswerInv
<1>3. ASSUME AnswerLogin(t) PROVE IInv'
  <2>1. tasks[t].step # "reading" BY <1>3 DEF AnswerLogin, Failed
  <2>2. CASE /\ me' = session'.role /\ mustChange' = session'.frozen
             /\ Requested({"config"})
             /\ Proceed(t, [x \in Tasks |-> IF x = t THEN tasks[t] ELSE OfEarlierSession(tasks[x])],
                        {"config"}, ~session'.frozen)
    <3> DEFINE all == [x \in Tasks |-> IF x = t THEN tasks[t] ELSE OfEarlierSession(tasks[x])]
    <3>1. \A x \in Tasks : IsTask(all[x]) /\ Alike(all[x], tasks[x])
      BY <1>0, EarlierTask DEF Alike
    <3>2. Requested({"config"}) /\ Proceed(t, all, {"config"}, ~session'.frozen) BY <2>2
    <3>3. (~session'.frozen) \in BOOLEAN OBVIOUS
    <3>4. mustChange' \/ ({"config"} = {"config"} /\ ~session'.frozen) BY <2>2
    <3> HIDE DEF all
    <3> QED BY <1>a, <2>1, <3>1, <3>2, <3>3, <3>4, AnswerInv
  <2>3. CASE UNCHANGED <<me, mustChange>> /\ Requested({}) /\ Proceed(t, tasks, {}, FALSE)
    BY <1>0, <1>a, <1>b, <2>1, <2>3, AnswerInv
  <2> QED BY <1>3, <2>2, <2>3 DEF AnswerLogin
<1>4. ASSUME AnswerFirstPassword(t) PROVE IInv'
  <2> DEFINE ls == IF tasks[t].step = "ok" THEN {"config"} ELSE {}
  <2>1. /\ mustChange' = (mustChange /\ Failed(t))
        /\ me' = IF tasks[t].step = "denied" THEN NoOne ELSE me
        /\ Requested(ls) /\ Proceed(t, tasks, ls, TRUE)
        /\ Answered(t)
    BY <1>4 DEF AnswerFirstPassword
  <2>2. me' = NoOne \/ (ls = {"config"} /\ TRUE) \/ (me' = me /\ mustChange' = mustChange)
    BY <1>0, <2>1 DEF Answered, TypeOK
  <2>3. ls \in SUBSET Sources BY <1>a
  <2> HIDE DEF ls
  <2> QED BY <1>0, <1>b, <1>c, <2>1, <2>2, <2>3, AnswerInv
<1>5. ASSUME AnswerLogout(t) PROVE IInv'
  <2>1. me' = NoOne /\ Answered(t) /\ Requested({}) /\ Proceed(t, tasks, {}, FALSE)
    BY <1>5 DEF AnswerLogout
  <2> QED BY <1>0, <1>a, <1>b, <1>c, <2>1, AnswerInv
<1>6. ASSUME AnswerPassword(t) \/ AnswerReset(t) PROVE IInv'
  <2>1. /\ me' = me /\ mustChange' = mustChange
        /\ Answered(t) /\ Requested({}) /\ Proceed(t, tasks, {}, FALSE)
    BY <1>6 DEF AnswerPassword, AnswerReset
  <2> QED BY <1>0, <1>a, <1>b, <1>c, <2>1, AnswerInv
<1>7. ASSUME Answer(t) PROVE IInv'
  <2> DEFINE ls == IF tasks[t].step = "ok" THEN Loadable(Handler[tasks[t].h].loads) ELSE {}
  <2>1. /\ me' = NoOne \/ me' = me
        /\ mustChange' = mustChange
        /\ Requested(ls) /\ Proceed(t, tasks, ls, FALSE)
        /\ Answered(t)
    BY <1>7 DEF Answer
  <2>2. ls \in SUBSET Sources BY DEF Loadable, Sources
  <2> HIDE DEF ls
  <2> QED BY <1>0, <1>b, <1>c, <2>1, <2>2, AnswerInv
<1>8. ASSUME NEW l \in Lists \cup {"config"}, ServeRead(t, l) PROVE IInv'
  <2>1. PICK got : tasks' = [tasks EXCEPT ![t].reads[l].got = got] BY <1>8 DEF ServeRead
  <2>2. \A x \in Tasks :
          /\ tasks'[x].h = tasks[x].h /\ tasks'[x].more = tasks[x].more
          /\ DOMAIN tasks'[x].reads = DOMAIN tasks[x].reads
          /\ tasks'[x].step = tasks[x].step
    BY <1>0, <2>1 DEF TypeOK, IsTask
  <2>3. UNCHANGED <<booting, me, mustChange, loading, busy>> BY <1>8 DEF ServeRead
  <2> QED BY <2>2, <2>3, AlikeInv
<1>9. ASSUME NEW l \in Lists \cup {"config"}, Arrive(t, l) PROVE IInv'
  <2> DEFINE r == tasks[t].reads[l]
             rest == DOMAIN tasks[t].reads \ {l}
             part == IF rest = {} THEN NextPart(t, l) ELSE {}
             ls == part \ (IF me' = "admin" THEN {} ELSE {"audit"})
  <2>1. /\ l \in DOMAIN tasks[t].reads
        /\ me' = NoOne \/ me' = me
        /\ mustChange' = mustChange
        /\ loading' = ((loading /\ l # "certs") \/ "certs" \in ls)
    BY <1>9 DEF Arrive
  <2>2. IF rest # {}
        THEN /\ tasks' = [tasks EXCEPT ![t].reads = [k \in rest |-> @[k]]]
             /\ UNCHANGED <<busy, booting>>
        ELSE Proceed(t, tasks, ls, l = "config")
    BY <1>9 DEF Arrive
  <2>3. ls \in SUBSET Sources BY DEF NextPart, Sources
  <2>4. tasks[t].step = "reading" BY <2>1 DEF IInv, OnlyReadersRead
  <2>5. ASSUME loading', me' # NoOne, ~mustChange', "certs" \notin ls
        PROVE  \/ "certs" \in rest
               \/ \E x \in Tasks \ {t} : LoadsCerts(tasks[x])
    <3>1. loading /\ l # "certs" BY <2>1, <2>5, Zenon
    <3>2. me # NoOne /\ ~mustChange BY <2>1, <2>5, Zenon
    <3>3. PICK x \in Tasks : LoadsCerts(tasks[x]) BY <3>1, <3>2 DEF IInv, SpinnerWaits
    <3>4. CASE x # t BY <3>3, <3>4
    <3>5. CASE x = t /\ "certs" \in DOMAIN tasks[t].reads BY <3>1, <3>5
    <3>6. CASE x = t /\ DOMAIN tasks[t].reads = {"config"} /\ tasks[t].more
      <4>1. l = "config" /\ rest = {} BY <2>1, <3>6
      <4>2. "certs" \in ls BY <3>6, <4>1, ListsAssumption DEF NextPart
      <4> QED BY <4>2, <2>5
    <3> QED BY <3>3, <3>4, <3>5, <3>6 DEF LoadsCerts
  <2>6. CASE rest = {}
    <3>1. Proceed(t, tasks, ls, l = "config") /\ (l = "config") \in BOOLEAN BY <2>2, <2>6
    <3>2. loading' /\ me' # NoOne /\ ~mustChange'
            => "certs" \in ls \/ \E x \in Tasks \ {t} : LoadsCerts(tasks[x])
      <4> HIDE DEF ls
      <4>1. rest = {} BY <2>6
      <4> HIDE DEF rest
      <4> QED BY <2>5, <4>1
    <3> HIDE DEF ls
    <3> QED BY <1>0, <1>b, <2>3, <3>1, <3>2, ProceedInv
  <2>7. CASE rest # {}
    <3>1. /\ tasks' = [tasks EXCEPT ![t].reads = [k \in rest |-> @[k]]]
          /\ UNCHANGED <<busy, booting>>
      BY <2>2, <2>7
    <3>2. /\ \A x \in Tasks : /\ tasks'[x].h = tasks[x].h /\ tasks'[x].step = tasks[x].step
                              /\ tasks'[x].more = tasks[x].more
          /\ DOMAIN tasks'[t].reads = rest
          /\ \A x \in Tasks \ {t} : tasks'[x] = tasks[x]
      BY <1>0, <3>1 DEF TypeOK, IsTask
    <3>3. "certs" \notin ls BY <2>7
    <3> HIDE DEF rest, ls
    <3>4. FlagsMatch' /\ NoDoubleSubmit' BY <3>1, <3>2, FlagStep DEF IInv
    <3>5. BootIsRunning' BY <3>1, <3>2 DEF IInv, BootIsRunning, InFlight
    <3>6. SpinnerWaits' BY <2>5, <3>2, <3>3 DEF SpinnerWaits, LoadsCerts
    <3>7. OnlyReadersRead' BY <2>4, <3>2 DEF IInv, OnlyReadersRead
    <3> QED BY <3>4, <3>5, <3>6, <3>7 DEF IInv
  <2> QED BY <2>6, <2>7
<1> QED
  BY <1>1, <1>2, <1>3, <1>4, <1>5, <1>6, <1>7, <1>8, <1>9 DEF Step

\* A page that has just been loaded has one task, which will decide on the screen.
LEMMA FreshInv ==
  ASSUME NEW t \in Tasks
  PROVE  /\ {FlagOf(Booting(t)[x].h) : x \in Tasks} \ {"none"} = {}
         /\ \A x \in Tasks : FlagOf(Booting(t)[x].h) = "none"
         /\ Booting(t)[t].h = "onMounted"
         /\ \A x \in Tasks : DOMAIN Booting(t)[x].reads = {}
<1>1. /\ \A x \in Tasks : Booting(t)[x] = Idle \/ Booting(t)[x] = Starting("onMounted")
      /\ Booting(t)[t] = Starting("onMounted")
  BY DEF Booting
<1>2. FlagOf("onMounted") = "none" BY LoadersHaveNoFlag DEF Loaders, FlagOf
<1>3. \A x \in Tasks : FlagOf(Booting(t)[x].h) = "none" /\ DOMAIN Booting(t)[x].reads = {}
  BY <1>1, <1>2, NothingLoading
<1> QED BY <1>1, <1>3, NothingLoading

\* Every step of the page.
LEMMA InvStep == ASSUME IInv, [Next]_vars PROVE IInv'
<1>0. TypeOK' BY TypeStep DEF IInv
<1>1. CASE Person BY <1>0, <1>1, PersonInv
<1>2. CASE \E t \in Tasks : Step(t) BY <1>0, <1>2, StepInv
<1>3. CASE SessionEnds BY <1>0, <1>3, QuietInv DEF SessionEnds
<1>4. CASE Reload
  <2>1. PICK t \in Tasks : tasks' = Booting(t) BY <1>4, Zenon DEF Reload
  <2>2. me' = NoOne /\ busy' = {} BY <1>4, Zenon DEF Reload
  <2> QED
    BY <1>0, <2>1, <2>2, FreshInv
       DEF IInv, FlagsMatch, NoDoubleSubmit, BootIsRunning, InFlight, SpinnerWaits,
           OnlyReadersRead
<1>5. CASE UNCHANGED vars BY <1>0, <1>5, QuietInv DEF vars
<1> QED BY <1>1, <1>2, <1>3, <1>4, <1>5 DEF Next

\* So they do when the page opens.
LEMMA InitInv == ASSUME Init PROVE IInv
<1>1. PICK t \in Tasks : tasks = Booting(t) BY Zenon DEF Init
<1>2. me = NoOne /\ busy = {} BY Zenon DEF Init
<1>3. TypeOK BY InitType
<1> QED
  BY <1>1, <1>2, <1>3, FreshInv
     DEF IInv, FlagsMatch, NoDoubleSubmit, BootIsRunning, InFlight, SpinnerWaits,
         OnlyReadersRead

\* Flags and tasks always agree.
LEMMA InvHolds == Spec => []IInv
<1>1. Init => IInv BY InitInv
<1> QED BY <1>1, InvStep, PTL DEF Spec

\* A flag is set exactly while the handler that set it is in flight, whatever way it
\* ends; the first screen and the spinner never wait for nothing.
THEOREM BusyIsInFlight == Spec => []BusyMeansInFlight
<1>1. IInv => BusyMeansInFlight
  <2> SUFFICES ASSUME IInv PROVE BusyMeansInFlight OBVIOUS
  <2>1. Settled => \A t \in Tasks : ~LoadsCerts(tasks[t])
    BY NothingLoading DEF Settled, LoadsCerts
  <2>2. Screen = "app" => me # NoOne /\ ~mustChange
    <3> SUFFICES ASSUME me = NoOne \/ mustChange PROVE Screen # "app" OBVIOUS
    <3> QED BY DEF Screen, IInv, TypeOK
  <2>3. Settled /\ Screen = "app" => ~loading
    BY <2>1, <2>2, Zenon DEF IInv, SpinnerWaits
  <2> QED BY <2>3, Zenon DEF IInv, FlagsMatch, BootIsRunning, BusyMeansInFlight
<1> QED BY <1>1, InvHolds, PTL

\* Whatever is closed, opened and clicked while a request is out, no second one with
\* its flag goes out.
THEOREM SubmittedOnce == Spec => []NoDoubleSubmit
<1>1. IInv => NoDoubleSubmit BY DEF IInv
<1> QED BY <1>1, InvHolds, PTL

-----------------------------------------------------------------------------
(* The rows on screen *)

\* A task that will request the list without being asked: loadAll has it next, or,
\* the audit log, when it is through with the other lists.
WillLoad(k, l) ==
  k.more /\ \/ l \in {"certs", "renewals", "deletions", "users"} /\ DOMAIN k.reads = {"config"}
            \/ l = "audit" /\ DOMAIN k.reads # {}

Coming(l) == \E t \in Tasks : WillLoad(tasks[t], l)

\* A task whose request has changed rows of the list, and whose answer will load it.
Due(k, l) == k.step = "ok" /\ k.h \in DOMAIN Handler /\ l \in Handler[k.h].changes

Promised(l) == \E t \in Tasks : Due(tasks[t], l)

\* The list belongs to what can be on screen.
Matters(l) ==
  IF l = "history" THEN dialog.kind = "history"
  ELSE me # NoOne /\ ~mustChange /\ (l = "audit" => isAdmin)

UpToDate(l, rows) ==
  /\ rows.of = Wanted(l)
  /\ rows.behind \subseteq Excused(l) \cup {x \in {"change"} : Promised(l)}

\* The task waits for rows of the list that nobody has asked for since.
IsLast(k, l) == l \in DOMAIN k.reads /\ ~k.reads[l].older

\* The rows of the last request for a list, shown or on their way, are what the
\* page would ask for now, but for changes the page will hear of; unless they are going to
\* be asked for again anyway.
Right(l) ==
  Matters(l) /\ ~Coming(l) =>
    /\ newest[l] => UpToDate(l, shown[l])
    /\ \A t \in Tasks : IsLast(tasks[t], l) => UpToDate(l, tasks[t].reads[l])

RowsAreRight == \A l \in Lists : Right(l)

\* Steps that leave no row of a list that counts but those they ask for.
Fresh(l) ==
  /\ ~newest'[l]
  /\ \A t \in Tasks : IsLast(tasks'[t], l) => tasks'[t].reads[l] = NewRead(l)'

\* Steps after which rows are no worse than other rows were.
Keeps(l, new, old) ==
  /\ new.of = old.of
  /\ new.behind \subseteq old.behind \cup Excused(l) \cup {x \in {"change"} : Promised(l)'}

Kept(l) ==
  /\ Matters(l) /\ ~Coming(l) /\ Wanted(l)' = Wanted(l) /\ (Promised(l) => Promised(l)')
  /\ newest'[l] => \/ newest[l] /\ Keeps(l, shown'[l], shown[l])
                   \/ \E t \in Tasks : /\ IsLast(tasks[t], l)
                                       /\ Keeps(l, shown'[l], tasks[t].reads[l])
  /\ \A t \in Tasks : IsLast(tasks'[t], l) =>
       IsLast(tasks[t], l) /\ Keeps(l, tasks'[t].reads[l], tasks[t].reads[l])

\* New rows are right by the time they are asked for.
LEMMA FreshIsRight == ASSUME NEW l \in Lists, Fresh(l) PROVE Right(l)'
<1>1. NewRead(l)'.of = Wanted(l)' /\ NewRead(l)'.behind = {} BY DEF NewRead
<1> QED BY <1>1 DEF Fresh, Right, UpToDate, IsLast

\* Old ones stay right.
LEMMA KeptIsRight == ASSUME NEW l \in Lists, Right(l), Kept(l) PROVE Right(l)'
<1> DEFINE OK(rows) == rows.of = Wanted(l)'
                       /\ rows.behind \subseteq Excused(l) \cup {x \in {"change"} : Promised(l)'}
<1>1. ASSUME NEW new, NEW old, UpToDate(l, old), Keeps(l, new, old) PROVE OK(new)
  BY <1>1 DEF UpToDate, Keeps, Kept
<1>2. newest[l] => UpToDate(l, shown[l]) BY DEF Right, Kept
<1>3. \A t \in Tasks : IsLast(tasks[t], l) => UpToDate(l, tasks[t].reads[l]) BY DEF Right, Kept
<1>4. newest'[l] => OK(shown'[l])
  <2> SUFFICES ASSUME newest'[l] PROVE OK(shown'[l]) OBVIOUS
  <2>1. CASE newest[l] /\ Keeps(l, shown'[l], shown[l]) BY <1>1, <1>2, <2>1
  <2>2. ASSUME NEW t \in Tasks, IsLast(tasks[t], l), Keeps(l, shown'[l], tasks[t].reads[l])
        PROVE  OK(shown'[l])
    BY <1>1, <1>3, <2>2
  <2> HIDE DEF OK
  <2> QED BY <2>1, <2>2 DEF Kept
<1>5. ASSUME NEW t \in Tasks, IsLast(tasks'[t], l) PROVE OK(tasks'[t].reads[l])
  <2>1. IsLast(tasks[t], l) /\ Keeps(l, tasks'[t].reads[l], tasks[t].reads[l])
    BY <1>5 DEF Kept
  <2> QED BY <1>1, <1>3, <2>1
<1>6. (newest[l] => UpToDate(l, shown[l]))' BY <1>4 DEF UpToDate, Excused
<1>7. (\A t \in Tasks : IsLast(tasks[t], l) => UpToDate(l, tasks[t].reads[l]))'
  BY <1>5 DEF UpToDate, Excused, IsLast
<1> QED BY <1>6, <1>7 DEF Right

\* What a step that overtakes the requests for some lists leaves of the others.
LEMMA OvertakenReads ==
  ASSUME NEW k, IsTask(k), NEW ls, NEW l, IsLast(Overtaken(k, ls), l)
  PROVE  /\ l \notin ls /\ IsLast(k, l)
         /\ Overtaken(k, ls).reads[l].of = k.reads[l].of
         /\ Overtaken(k, ls).reads[l].behind = k.reads[l].behind
<1> DEFINE R == [m \in DOMAIN k.reads |-> [k.reads[m] EXCEPT !.older = @ \/ m \in ls]]
<1>1. Overtaken(k, ls) = [k EXCEPT !.reads = R] BY DEF Overtaken
<1>2. Overtaken(k, ls).reads = R BY <1>1 DEF IsTask
<1>3. l \in DOMAIN k.reads /\ ~R[l].older BY <1>2 DEF IsLast
<1>4. k.reads[l] \in Read BY <1>3 DEF IsTask
<1>5. R[l] = [k.reads[l] EXCEPT !.older = @ \/ l \in ls] BY <1>3
<1>6. /\ R[l].older = (k.reads[l].older \/ l \in ls)
      /\ R[l].of = k.reads[l].of /\ R[l].behind = k.reads[l].behind
  BY <1>4, <1>5 DEF Read
<1> HIDE DEF R
<1> QED BY <1>2, <1>3, <1>6 DEF IsLast

\* After the last part of a handler, the rows asked for last are those it asks for, and
\* those that others have asked for in lists it does not ask for.
LEMMA ProceedReads ==
  ASSUME NEW t \in Tasks, NEW all, \A x \in Tasks : IsTask(all[x]), NEW ls \in SUBSET Sources,
         NEW more, Proceed(t, all, ls, more),
         NEW l \in Lists, NEW x \in Tasks, IsLast(tasks'[x], l)
  PROVE  \/ x = t /\ l \in ls /\ tasks'[x].reads[l] = NewRead(l)'
         \/ /\ x # t /\ l \notin ls /\ IsLast(all[x], l)
            /\ tasks'[x].reads[l].of = all[x].reads[l].of
            /\ tasks'[x].reads[l].behind = all[x].reads[l].behind
<1> DEFINE R == [m \in ls |-> NewRead(m)']
           Going == [all[t] EXCEPT !.step = "reading", !.more = more, !.reads = R]
<1>1. Going.reads = R BY DEF IsTask
<1> HIDE DEF Going
<1>2. tasks' = [y \in Tasks |-> IF y # t THEN Overtaken(all[y], ls)
                                ELSE IF ls = {} THEN Idle ELSE Going]
  BY DEF Proceed, Going
<1>3. CASE x # t
  <2>1. tasks'[x] = Overtaken(all[x], ls) BY <1>2, <1>3
  <2> QED BY <1>3, <2>1, OvertakenReads
<1>4. CASE x = t
  <2>1. ls # {} BY <1>2, <1>4, NothingLoading DEF IsLast
  <2>2. tasks'[x] = Going BY <1>2, <1>4, <2>1
  <2>3. l \in ls /\ tasks'[x].reads[l] = R[l] BY <1>1, <2>2 DEF IsLast
  <2> QED BY <1>4, <2>3
<1> QED BY <1>3, <1>4

\* What the page knows and has to come, if nothing is said of the rows.
RInv == IInv /\ RowsAreRight

\* Steps that leave the rows alone.
LEMMA QuietRows ==
  ASSUME RInv, UNCHANGED <<shown, newest>>, NEW l \in Lists,
         \A x \in Tasks :
           /\ tasks'[x].more = tasks[x].more
           /\ DOMAIN tasks'[x].reads = DOMAIN tasks[x].reads
           /\ l \in DOMAIN tasks[x].reads =>
                /\ tasks'[x].reads[l].of = tasks[x].reads[l].of
                /\ tasks'[x].reads[l].behind = tasks[x].reads[l].behind
                /\ tasks'[x].reads[l].older = tasks[x].reads[l].older
           /\ Due(tasks[x], l) => Due(tasks'[x], l),
         Matters(l)' => Matters(l) /\ Wanted(l)' = Wanted(l)
  PROVE  Right(l)'
<1>1. Coming(l)' <=> Coming(l) BY DEF Coming, WillLoad
<1>2. Promised(l) => Promised(l)' BY DEF Promised
<1>3. CASE Matters(l)' /\ ~Coming(l)'
  <2>1. \A x \in Tasks : IsLast(tasks'[x], l) =>
          IsLast(tasks[x], l) /\ Keeps(l, tasks'[x].reads[l], tasks[x].reads[l])
    BY DEF IsLast, Keeps
  <2>2. Keeps(l, shown'[l], shown[l]) BY DEF Keeps
  <2>3. Kept(l) BY <1>1, <1>2, <1>3, <2>1, <2>2 DEF Kept
  <2> QED BY <2>3, KeptIsRight DEF RInv, RowsAreRight
<1> QED BY <1>3 DEF Right

\* The last part of a handler that had asked for no list before.
LEMMA AnswerRows ==
  ASSUME RInv, NEW t \in Tasks, DOMAIN tasks[t].reads = {},
         NEW all, \A x \in Tasks : IsTask(all[x]),
         \A x \in Tasks \ {t} : Alike(all[x], tasks[x]),
         NEW ls \in SUBSET Sources, NEW more \in BOOLEAN, Requested(ls), Proceed(t, all, ls, more),
         auditCategory' \in Categories, dialog'.item \in Items \cup {NoItem}, NEW l \in Lists,
         l \notin ls /\ Matters(l)' /\ ~Coming(l)' =>
           /\ Matters(l) /\ Wanted(l)' = Wanted(l) /\ Keeps(l, shown'[l], shown[l])
           /\ Due(tasks[t], l) => Due(tasks'[t], l)
           /\ \A x \in Tasks \ {t} : IsLast(all[x], l) =>
                IsLast(tasks[x], l) /\ Keeps(l, all[x].reads[l], tasks[x].reads[l])
  PROVE  Right(l)'
<1>1. \A x \in Tasks : IsLast(tasks'[x], l) =>
        \/ x = t /\ l \in ls /\ tasks'[x].reads[l] = NewRead(l)'
        \/ /\ x # t /\ l \notin ls /\ IsLast(all[x], l)
           /\ tasks'[x].reads[l].of = all[x].reads[l].of
           /\ tasks'[x].reads[l].behind = all[x].reads[l].behind
  <2> TAKE x \in Tasks
  <2> HAVE IsLast(tasks'[x], l)
  <2> QED BY ProceedReads, SMTT(60)
<1>2. newest'[l] <=> (newest[l] /\ l \notin ls) BY DEF Requested
<1>3. CASE l \in ls
  <2>1. Fresh(l) BY <1>1, <1>2, <1>3 DEF Fresh
  <2> QED BY <2>1, FreshIsRight
<1>4. CASE l \notin ls /\ Matters(l)' /\ ~Coming(l)'
  <2>1. \A x \in Tasks \ {t} : Alike(tasks'[x], tasks[x])
    BY ProceedFacts DEF Proceeded, Alike
  <2>2. ~Coming(l)
    <3>1. \A x \in Tasks \ {t} : WillLoad(tasks'[x], l) <=> WillLoad(tasks[x], l)
      BY <2>1 DEF Alike, WillLoad
    <3>2. ~WillLoad(tasks[t], l) BY DEF WillLoad
    <3> QED BY <1>4, <3>1, <3>2 DEF Coming
  <2>3. Promised(l) => Promised(l)'
    <3>1. \A x \in Tasks \ {t} : Due(tasks'[x], l) <=> Due(tasks[x], l)
      BY <2>1 DEF Alike, Due
    <3> QED BY <1>4, <3>1 DEF Promised
  <2>4. \A x \in Tasks : IsLast(tasks'[x], l) =>
          IsLast(tasks[x], l) /\ Keeps(l, tasks'[x].reads[l], tasks[x].reads[l])
    BY <1>1, <1>4 DEF Keeps
  <2>5. Kept(l) BY <1>2, <1>4, <2>2, <2>3, <2>4 DEF Kept
  <2> QED BY <2>5, KeptIsRight DEF RInv, RowsAreRight
<1> QED BY <1>3, <1>4 DEF Right

\* A handler that only loads, from a task that is free.
LEMMA LoadRows ==
  ASSUME RInv, NEW t \in Tasks, NEW h \in Loaders, NEW ls \in SUBSET Sources, Load(t, h, ls),
         auditCategory' \in Categories, dialog'.item \in Items \cup {NoItem}, NEW l \in Lists,
         l \notin ls /\ Matters(l)' =>
           Matters(l) /\ Wanted(l)' = Wanted(l) /\ shown'[l] = shown[l]
  PROVE  Right(l)'
<1> DEFINE new == [Idle EXCEPT !.h = h]
           all == [tasks EXCEPT ![t] = new]
<1>1. IsTask(new) BY FreshTask
<1>2. tasks[t] = Idle /\ Requested(ls) /\ Proceed(t, all, ls, FALSE) BY DEF Load
<1> HIDE DEF new
<1>3. /\ \A x \in Tasks : IsTask(all[x])
      /\ \A x \in Tasks \ {t} : all[x] = tasks[x]
  BY <1>1 DEF RInv, IInv, TypeOK
<1> HIDE DEF all
<1>4. DOMAIN tasks[t].reads = {} BY <1>2, NothingLoading
<1>5. ~Due(tasks[t], l) BY <1>2 DEF Due, Idle
<1>6. \A x \in Tasks \ {t} :
        /\ Alike(all[x], tasks[x])
        /\ IsLast(all[x], l) =>
             IsLast(tasks[x], l) /\ Keeps(l, all[x].reads[l], tasks[x].reads[l])
  BY <1>3 DEF Alike, Keeps
<1>7. shown'[l] = shown[l] => Keeps(l, shown'[l], shown[l]) BY DEF Keeps
<1> QED BY <1>2, <1>3, <1>4, <1>5, <1>6, <1>7, AnswerRows

\* Whatever a person clicks: a list is asked for anew, or the screen goes on wanting the
\* same of it.
LEMMA PersonRows == ASSUME RInv, TypeOK', Person, NEW l \in Lists PROVE Right(l)'
<1>0. auditCategory' \in Categories /\ dialog'.item \in Items \cup {NoItem} BY DEF TypeOK
<1>a. "history" # "certs" /\ "history" # "audit" /\ "certs" # "audit" OBVIOUS
<1>b. ASSUME tasks' = tasks, UNCHANGED <<shown, newest, me, mustChange, showDeleted, auditCategory>>,
             dialog' = dialog \/ dialog'.kind # "history"
      PROVE  Right(l)'
  <2>1. Matters(l)' => Matters(l) /\ Wanted(l)' = Wanted(l)
    BY <1>b DEF Matters, Wanted, isAdmin
  <2> QED BY <1>b, <2>1, QuietRows
<1>1. ASSUME openCreate \/ CloseDialog \/ (\E c \in Items : openEdit(c))
             \/ (\E kind \in DialogKinds : OpenDialog(kind))
      PROVE  Right(l)'
  <2>1. /\ tasks' = tasks
        /\ UNCHANGED <<shown, newest, me, mustChange, showDeleted, auditCategory>>
    BY <1>1 DEF openCreate, CloseDialog, openEdit, OpenDialog, UnchangedButDialog
  <2>2. dialog'.kind # "history"
    BY <1>1 DEF openCreate, CloseDialog, openEdit, OpenDialog, Closed
  <2> QED BY <1>b, <2>1, <2>2
<1>2. CASE openForgot \/ closeForgot BY <1>b, <1>2 DEF openForgot, closeForgot
<1>3. ASSUME NEW t \in Tasks, NEW v \in Views, switchView(t, v) PROVE Right(l)'
  <2>1. UNCHANGED <<me, mustChange, showDeleted, auditCategory, shown, dialog>>
    BY <1>3 DEF switchView
  <2>2. Matters(l)' => Matters(l) /\ Wanted(l)' = Wanted(l) /\ shown'[l] = shown[l]
    BY <2>1 DEF Matters, Wanted, isAdmin
  <2>3. CASE UNCHANGED <<booting, loading, busy, tasks, newest>> BY <1>b, <2>1, <2>3
  <2>4. CASE Load(t, "switchView", Loadable(TabLists(v)))
    <3>1. Loadable(TabLists(v)) \in SUBSET Sources /\ "switchView" \in Loaders
      BY DEF Loadable, Sources, Loaders
    <3> QED BY <1>0, <2>2, <2>4, <3>1, LoadRows
  <2> QED BY <1>3, <2>3, <2>4 DEF switchView
<1>4. ASSUME NEW t \in Tasks, toggleDeleted(t) PROVE Right(l)'
  <2>1. {"certs"} \in SUBSET Sources /\ "toggleDeleted" \in Loaders
    BY ListsAssumption DEF Sources, Loaders
  <2>2. UNCHANGED <<me, mustChange, auditCategory, shown, dialog>> BY <1>4 DEF toggleDeleted
  <2>3. l \notin {"certs"} /\ Matters(l)' =>
          Matters(l) /\ Wanted(l)' = Wanted(l) /\ shown'[l] = shown[l]
    BY <2>2 DEF Matters, Wanted, isAdmin
  <2>4. Load(t, "toggleDeleted", {"certs"}) BY <1>4 DEF toggleDeleted
  <2> QED BY <1>0, <2>1, <2>3, <2>4, LoadRows
<1>5. ASSUME NEW t \in Tasks, NEW key \in Categories, setAuditCategory(t, key) PROVE Right(l)'
  <2>1. {"audit"} \in SUBSET Sources /\ "setAuditCategory" \in Loaders
    BY <1>5 DEF setAuditCategory, Sources, Loaders
  <2>2. UNCHANGED <<me, mustChange, showDeleted, shown, dialog>> BY <1>5 DEF setAuditCategory
  <2>3. l \notin {"audit"} /\ Matters(l)' =>
          Matters(l) /\ Wanted(l)' = Wanted(l) /\ shown'[l] = shown[l]
    BY <2>2 DEF Matters, Wanted, isAdmin
  <2>4. Load(t, "setAuditCategory", {"audit"}) BY <1>5 DEF setAuditCategory
  <2> QED BY <1>0, <2>1, <2>3, <2>4, LoadRows
<1>6. ASSUME NEW t \in Tasks, NEW c \in Items, openHistory(t, c) PROVE Right(l)'
  <2>1. {"history"} \in SUBSET Sources /\ "openHistory" \in Loaders
    BY <1>6 DEF openHistory, Sources, Loaders
  <2>2. UNCHANGED <<me, mustChange, showDeleted, auditCategory>>
        /\ (l # "history" => shown'[l] = shown[l])
    BY <1>6 DEF openHistory, RInv, IInv, TypeOK
  <2>3. l \notin {"history"} /\ Matters(l)' =>
          Matters(l) /\ Wanted(l)' = Wanted(l) /\ shown'[l] = shown[l]
    BY <2>2 DEF Matters, Wanted, isAdmin
  <2>4. Load(t, "openHistory", {"history"}) BY <1>6 DEF openHistory
  <2> QED BY <1>0, <2>1, <2>3, <2>4, LoadRows
<1>7. ASSUME NEW t \in Tasks, NEW h \in Buttons, Click(t, h) PROVE Right(l)'
  <2>1. /\ tasks[t] = Idle /\ tasks' = [tasks EXCEPT ![t] = Starting(h)]
        /\ UNCHANGED <<shown, newest, me, mustChange, showDeleted, auditCategory, dialog>>
    BY <1>7 DEF Click
  <2>2. /\ tasks'[t] = Starting(h) /\ \A x \in Tasks \ {t} : tasks'[x] = tasks[x]
    BY <2>1 DEF RInv, IInv, TypeOK
  <2>3. /\ Idle.more = FALSE /\ Starting(h).more = FALSE
        /\ DOMAIN Idle.reads = {} /\ DOMAIN Starting(h).reads = {} /\ ~Due(Idle, l)
    BY DEF Idle, Starting, NoReads, Due
  <2>4. Matters(l)' => Matters(l) /\ Wanted(l)' = Wanted(l)
    BY <2>1 DEF Matters, Wanted, isAdmin
  <2> QED BY <2>1, <2>2, <2>3, <2>4, QuietRows
<1> QED BY <1>1, <1>2, <1>3, <1>4, <1>5, <1>6, <1>7 DEF Person

\* The lists that the server changes are those that the handlers load afterwards; the audit
\* log and histories are not among them.
LEMMA ChangesAreLoaded ==
  /\ \A h \in DOMAIN Handler \ SessionHandlers :
       Handler[h].changes \subseteq Handler[h].loads
       /\ Handler[h].changes \subseteq {"certs", "renewals", "deletions", "users"}
  /\ \A h \in SessionHandlers :
       h \in DOMAIN Handler
       /\ Handler[h].changes \subseteq (IF h = "submitFirstPassword" THEN {"users"} ELSE {})
<1> DEFINE Listed(r) == /\ r.changes \subseteq r.loads
                        /\ r.changes \subseteq {"certs", "renewals", "deletions", "users"}
<1>1. /\ Listed(submitForm) /\ Listed(submitDeletion) /\ Listed(withdrawDeletion)
      /\ Listed(restoreCert) /\ Listed(testCert) /\ Listed(runCheck)
  BY DEF submitForm, submitDeletion, withdrawDeletion, restoreCert, testCert, runCheck
<1>2. /\ Listed(submitOwner) /\ Listed(submitRenewal) /\ Listed(withdrawRenewal)
      /\ Listed(submitUser) /\ Listed(resetUserPassword)
  BY DEF submitOwner, submitRenewal, withdrawRenewal, submitUser, resetUserPassword
<1>3. /\ Listed(approveRenewal) /\ Listed(rejectRenewal)
      /\ Listed(approveDeletion) /\ Listed(rejectDeletion)
  <2>1. Listed(approveRenewal) /\ Listed(approveDeletion) BY DEF approveRenewal, approveDeletion
  <2>2. /\ rejectRenewal.changes = approveRenewal.changes
        /\ rejectRenewal.loads = approveRenewal.loads
    BY DEF rejectRenewal, approveRenewal
  <2>3. /\ rejectDeletion.changes = approveDeletion.changes
        /\ rejectDeletion.loads = approveDeletion.loads
    BY DEF rejectDeletion, approveDeletion
  <2> QED BY <2>1, <2>2, <2>3
<1> HIDE DEF Listed
<1>4. \A h \in DOMAIN Handler \ SessionHandlers :
        Handler[h] \in {submitForm, submitDeletion, withdrawDeletion, restoreCert, testCert, runCheck,
                        submitOwner, submitRenewal, withdrawRenewal, submitUser,
                        resetUserPassword, approveRenewal, rejectRenewal, approveDeletion,
                        rejectDeletion}
  BY DEF Handler, SessionHandlers
<1>5. \A h \in DOMAIN Handler \ SessionHandlers : Listed(Handler[h])
  BY <1>1, <1>2, <1>3, <1>4
<1>6. \A h \in SessionHandlers :
       h \in DOMAIN Handler
       /\ Handler[h].changes \subseteq (IF h = "submitFirstPassword" THEN {"users"} ELSE {})
  <2>1. /\ doLogin.changes = {} /\ doLogout.changes = {} /\ requestReset.changes = {}
        /\ submitPassword.changes = {} /\ submitFirstPassword.changes = {"users"}
    BY DEF doLogin, doLogout, requestReset, submitFirstPassword, submitPassword
  <2>2. \A h \in SessionHandlers :
          /\ h \in DOMAIN Handler
          /\ \/ h = "submitFirstPassword" /\ Handler[h] = submitFirstPassword
             \/ Handler[h] \in {doLogin, doLogout, requestReset, submitPassword}
    BY DEF Handler, SessionHandlers
  <2> QED BY <2>1, <2>2
<1> QED BY <1>5, <1>6 DEF Listed

\* Rows that the server changes under the page are promised to be loaded again, or excused.
LEMMA ServeRows == ASSUME RInv, NEW t \in Tasks, Serve(t), NEW l \in Lists PROVE Right(l)'
<1>0. /\ DOMAIN tasks = Tasks /\ \A x \in Tasks : IsTask(tasks[x])
      /\ shown \in [Lists -> [of : Contents, behind : SUBSET Reasons]]
  BY DEF RInv, IInv, TypeOK
<1>1. /\ UNCHANGED <<me, mustChange, showDeleted, auditCategory, dialog, newest>>
      /\ tasks[t].step = "sent"
  BY DEF Serve
<1>2. Matters(l)' => Matters(l) /\ Wanted(l)' = Wanted(l)
  BY <1>1 DEF Matters, Wanted, isAdmin
<1>3. PICK out \in Outcomes(t) :
        IF out # "ok" \/ tasks[t].h \notin DOMAIN Handler
        THEN /\ tasks' = [tasks EXCEPT ![t].step = out]
             /\ UNCHANGED <<session, shown>>
        ELSE \E side \in SUBSET Handler[tasks[t].h].side, heard \in BOOLEAN :
             LET changes == Handler[tasks[t].h].changes
                 change == IF heard THEN "change" ELSE "unheard"
                 marks == [m \in Lists |-> {change : x \in changes \cap {m}}
                                           \cup {"closing" : x \in side \cap {m}}]
                 all == [tasks EXCEPT ![t].step = IF heard THEN "ok" ELSE "lost"]
             IN /\ ~heard => "lost" \in Faults
                /\ session' = SessionAfter(t)
                /\ shown' = [m \in Lists |-> [shown[m] EXCEPT !.behind = @ \cup marks[m]]]
                /\ tasks' = [x \in Tasks |-> Outdated(all[x], marks)]
  BY DEF Serve
<1>4. CASE out # "ok" \/ tasks[t].h \notin DOMAIN Handler
  <2>1. tasks' = [tasks EXCEPT ![t].step = out] /\ shown' = shown BY <1>3, <1>4
  <2>2. \A x \in Tasks :
          /\ tasks'[x].more = tasks[x].more /\ tasks'[x].reads = tasks[x].reads
          /\ x # t => tasks'[x] = tasks[x]
    BY <1>0, <2>1 DEF IsTask
  <2>3. ~Due(tasks[t], l) BY <1>1 DEF Due
  <2> QED BY <1>1, <1>2, <2>1, <2>2, <2>3, QuietRows
<1>5. CASE ~(out # "ok" \/ tasks[t].h \notin DOMAIN Handler)
  <2>1. PICK side \in SUBSET Handler[tasks[t].h].side, heard \in BOOLEAN :
          LET changes == Handler[tasks[t].h].changes
              change == IF heard THEN "change" ELSE "unheard"
              marks == [m \in Lists |-> {change : x \in changes \cap {m}}
                                        \cup {"closing" : x \in side \cap {m}}]
              all == [tasks EXCEPT ![t].step = IF heard THEN "ok" ELSE "lost"]
          IN /\ shown' = [m \in Lists |-> [shown[m] EXCEPT !.behind = @ \cup marks[m]]]
             /\ tasks' = [x \in Tasks |-> Outdated(all[x], marks)]
    BY <1>3, <1>5
  <2> DEFINE changes == Handler[tasks[t].h].changes
             change == IF heard THEN "change" ELSE "unheard"
             marks == [m \in Lists |-> {change : x \in changes \cap {m}}
                                       \cup {"closing" : x \in side \cap {m}}]
             told == [tasks[t] EXCEPT !.step = IF heard THEN "ok" ELSE "lost"]
             all == [tasks EXCEPT ![t] = told]
  <2>2. marks \in [Lists -> SUBSET Reasons] BY DEF Reasons
  <2>3. /\ IsTask(told) /\ told.h = tasks[t].h /\ told.more = tasks[t].more
        /\ told.reads = tasks[t].reads /\ told.step = (IF heard THEN "ok" ELSE "lost")
    BY <1>0 DEF IsTask, Steps
  <2>4. marks[l] \subseteq {"unheard", "closing"}
                           \cup {x \in {"change"} : heard /\ l \in Handler[tasks[t].h].changes}
    OBVIOUS
  <2>5. /\ shown' = [m \in Lists |-> [shown[m] EXCEPT !.behind = @ \cup marks[m]]]
        /\ tasks' = [x \in Tasks |-> Outdated(all[x], marks)]
    BY <2>1
  <2> HIDE DEF marks, told
  <2>6. \A x \in Tasks :
          /\ IsTask(all[x]) /\ all[x].h = tasks[x].h /\ all[x].more = tasks[x].more
          /\ all[x].reads = tasks[x].reads
          /\ x # t => all[x] = tasks[x]
    BY <1>0, <2>3
  <2>7. all[t].step = (IF heard THEN "ok" ELSE "lost") BY <1>0, <2>3
  <2> HIDE DEF all
  <2>8. \A x \in Tasks :
          /\ tasks'[x].h = tasks[x].h /\ tasks'[x].more = tasks[x].more
          /\ tasks'[x].step = all[x].step
          /\ DOMAIN tasks'[x].reads = DOMAIN tasks[x].reads
    BY <2>2, <2>5, <2>6, OutdatedTask
  <2>9. Coming(l)' <=> Coming(l) BY <2>8 DEF Coming, WillLoad
  <2>10. Promised(l) => Promised(l)'
    <3>1. ~Due(tasks[t], l) BY <1>1 DEF Due
    <3>2. \A x \in Tasks \ {t} : Due(tasks'[x], l) <=> Due(tasks[x], l)
      BY <2>6, <2>8 DEF Due
    <3> QED BY <3>1, <3>2 DEF Promised
  <2>11. marks[l] \subseteq Excused(l) \cup {x \in {"change"} : Promised(l)'}
    <3>1. heard /\ l \in Handler[tasks[t].h].changes => Due(tasks'[t], l)
      BY <1>5, <2>7, <2>8 DEF Due
    <3> QED BY <2>4, <3>1 DEF Promised, Excused
  <2>12. Keeps(l, shown'[l], shown[l])
    <3>1. shown'[l] = [shown[l] EXCEPT !.behind = @ \cup marks[l]] BY <2>5
    <3>2. shown'[l].of = shown[l].of /\ shown'[l].behind = shown[l].behind \cup marks[l]
      BY <1>0, <3>1
    <3> QED BY <2>11, <3>2 DEF Keeps
  <2>13. ASSUME NEW x \in Tasks, IsLast(tasks'[x], l)
         PROVE  IsLast(tasks[x], l) /\ Keeps(l, tasks'[x].reads[l], tasks[x].reads[l])
    <3> DEFINE old == all[x].reads
               R == [m \in DOMAIN all[x].reads |->
                       IF all[x].reads[m].got = "rows" /\ m \in Lists
                       THEN [all[x].reads[m] EXCEPT !.behind = @ \cup marks[m]]
                       ELSE all[x].reads[m]]
    <3>1. tasks'[x] = [all[x] EXCEPT !.reads = R] BY <2>5 DEF Outdated
    <3>2. tasks'[x].reads = R BY <2>6, <3>1 DEF IsTask
    <3>3. l \in DOMAIN tasks[x].reads BY <2>8, <2>13 DEF IsLast
    <3>4. tasks[x].reads[l] \in Read BY <1>0, <3>3 DEF IsTask
    <3>5. R[l] = IF tasks[x].reads[l].got = "rows"
                 THEN [tasks[x].reads[l] EXCEPT !.behind = @ \cup marks[l]]
                 ELSE tasks[x].reads[l]
      BY <2>6, <3>3
    <3>6. /\ R[l].of = tasks[x].reads[l].of /\ R[l].older = tasks[x].reads[l].older
          /\ R[l].behind \subseteq tasks[x].reads[l].behind \cup marks[l]
      <4>1. CASE tasks[x].reads[l].got = "rows"
        <5>1. R[l] = [tasks[x].reads[l] EXCEPT !.behind = @ \cup marks[l]] BY <3>5, <4>1
        <5> HIDE DEF R
        <5> QED BY <3>4, <5>1 DEF Read
      <4>2. CASE tasks[x].reads[l].got # "rows"
        <5>1. R[l] = tasks[x].reads[l] BY <3>5, <4>2
        <5> HIDE DEF R
        <5> QED BY <5>1
      <4> QED BY <4>1, <4>2
    <3> HIDE DEF R
    <3>7. IsLast(tasks[x], l) BY <2>13, <3>2, <3>3, <3>6 DEF IsLast
    <3>8. tasks'[x].reads[l].behind \subseteq
            tasks[x].reads[l].behind \cup Excused(l) \cup {y \in {"change"} : Promised(l)'}
      BY <2>11, <3>2, <3>6
    <3> QED BY <3>2, <3>6, <3>7, <3>8 DEF Keeps
  <2>14. CASE Matters(l)' /\ ~Coming(l)'
    <3>1. Kept(l) BY <1>1, <1>2, <2>9, <2>10, <2>12, <2>13, <2>14 DEF Kept
    <3> QED BY <3>1, KeptIsRight DEF RInv, RowsAreRight
  <2> QED BY <2>14 DEF Right
<1> QED BY <1>4, <1>5

\* What an answer changes on screen leaves no other list on it.
LEMMA SameScreen ==
  ASSUME UNCHANGED <<showDeleted, auditCategory>>,
         me' = NoOne \/ (me' = me /\ mustChange' = mustChange),
         dialog' = dialog \/ dialog' = Closed, NEW l \in Lists
  PROVE  Matters(l)' => Matters(l) /\ Wanted(l)' = Wanted(l)
<1>a. "history" # "certs" /\ "history" # "audit" /\ "certs" # "audit" OBVIOUS
<1>1. CASE l = "history"
  <2>1. Matters(l)' => dialog' = dialog BY <1>1 DEF Matters, Closed
  <2> QED BY <1>1, <2>1 DEF Matters, Wanted
<1>2. CASE l # "history"
  <2> SUFFICES ASSUME Matters(l)' PROVE Matters(l) /\ Wanted(l)' = Wanted(l) OBVIOUS
  <2>1. me' = me /\ mustChange' = mustChange BY <1>2 DEF Matters
  <2>2. Matters(l) BY <1>2, <2>1, Zenon DEF Matters, isAdmin
  <2>3. Wanted(l)' = Wanted(l) BY <1>2, <2>1 DEF Wanted, isAdmin
  <2> QED BY <2>2, <2>3
<1> QED BY <1>1, <1>2

\* When the page loads all lists, none but the history is left as it was.
LEMMA AllAreComing ==
  ASSUME NEW t \in Tasks, NEW all, \A x \in Tasks : IsTask(all[x]),
         Proceed(t, all, {"config"}, TRUE),
         auditCategory' \in Categories, dialog'.item \in Items \cup {NoItem},
         NEW l \in Lists, l # "history"
  PROVE  Coming(l)'
<1>1. {"config"} \in SUBSET Sources /\ TRUE \in BOOLEAN BY DEF Sources
<1>2. tasks'[t].more = TRUE /\ DOMAIN tasks'[t].reads = {"config"}
  <2>1. Proceeded(t, all, {"config"}, TRUE) BY <1>1, ProceedFacts, Zenon
  <2> QED BY <2>1 DEF Proceeded
<1>3. l \in {"certs", "renewals", "deletions", "users", "audit"}
  BY ListsAssumption DEF AllLists
<1> QED BY <1>2, <1>3 DEF Coming, WillLoad

\* Whatever is answered: the lists that have changed are loaded, or the page shows none.
LEMMA AnswersRows ==
  ASSUME RInv, TypeOK', NEW t \in Tasks,
         \/ AnswerBoot(t) \/ AnswerLogin(t) \/ AnswerFirstPassword(t) \/ AnswerLogout(t)
         \/ AnswerPassword(t) \/ AnswerReset(t) \/ Answer(t),
         NEW l \in Lists
  PROVE  Right(l)'
<1>0. /\ auditCategory' \in Categories /\ dialog'.item \in Items \cup {NoItem}
      /\ \A x \in Tasks : IsTask(tasks[x])
      /\ shown \in [Lists -> [of : Contents, behind : SUBSET Reasons]]
  BY DEF TypeOK, RInv, IInv
<1>a. {} \in SUBSET Sources /\ {"config"} \in SUBSET Sources BY DEF Sources
<1>b. Answered(t) => DOMAIN tasks[t].reads = {}
  BY DEF RInv, IInv, OnlyReadersRead, Answered, Failed
<1>c. tasks[t].step # "ok" => ~Due(tasks[t], l) BY DEF Due
<1>d. \A x \in Tasks : /\ Alike(tasks[x], tasks[x])
                       /\ IsLast(tasks[x], l) => Keeps(l, tasks[x].reads[l], tasks[x].reads[l])
  BY DEF Alike, Keeps
<1>e. shown'[l] = shown[l] => Keeps(l, shown'[l], shown[l]) BY DEF Keeps
\* An answer that leaves the rows as they are, and the others' requests.
<1>f. ASSUME NEW ls \in SUBSET Sources, NEW more \in BOOLEAN,
             Answered(t), Requested(ls), Proceed(t, tasks, ls, more),
             l \notin ls /\ Matters(l)' /\ ~Coming(l)' =>
               Matters(l) /\ Wanted(l)' = Wanted(l) /\ shown'[l] = shown[l] /\ ~Due(tasks[t], l)
      PROVE  Right(l)'
  BY <1>0, <1>b, <1>d, <1>e, <1>f, AnswerRows
<1>g. tasks[t].h \in SessionHandlers /\ (l = "users" => tasks[t].h # "submitFirstPassword")
        => ~Due(tasks[t], l)
  BY ChangesAreLoaded DEF Due
<1>1. CASE AnswerBoot(t)
  <2> DEFINE s == IF tasks[t].step = "ok" THEN session ELSE NoSession
             ls == IF s = NoSession THEN {} ELSE {"config"}
  <2>1. /\ me' = s.role /\ mustChange' = s.frozen
        /\ Requested(ls) /\ Proceed(t, tasks, ls, ~s.frozen)
        /\ Answered(t) /\ tasks[t].h = "onMounted"
        /\ UNCHANGED <<showDeleted, auditCategory, shown, dialog>>
    BY <1>1 DEF AnswerBoot
  <2>2. ~Due(tasks[t], l) BY <2>1, LoadersHaveNoFlag DEF Loaders, Due
  <2>3. ls \in SUBSET Sources /\ (~s.frozen) \in BOOLEAN BY <1>a
  <2>4. l # "history" /\ Matters(l)' => Coming(l)'
    <3> SUFFICES ASSUME l # "history", Matters(l)' PROVE Coming(l)' OBVIOUS
    <3>1. me' # NoOne /\ ~mustChange' BY DEF Matters
    <3>2. s # NoSession BY <2>1, <3>1 DEF NoSession
    <3>3. Proceed(t, tasks, {"config"}, TRUE) BY <2>1, <3>1, <3>2
    <3> QED BY <1>0, <3>3, AllAreComing
  <2>5. l = "history" => (Matters(l)' => Matters(l) /\ Wanted(l)' = Wanted(l))
    BY <2>1 DEF Matters, Wanted
  <2> HIDE DEF s, ls
  <2> QED BY <1>f, <2>1, <2>2, <2>3, <2>4, <2>5
<1>2. CASE AnswerLogin(t)
  <2>1. tasks[t].h = "doLogin" BY <1>2 DEF AnswerLogin
  <2>2. ~Due(tasks[t], l) BY <1>g, <2>1 DEF SessionHandlers
  <2>3. CASE /\ tasks[t].step = "ok"
             /\ me' = session'.role /\ mustChange' = session'.frozen
             /\ shown' = [m \in Lists |-> [shown[m] EXCEPT !.behind = @ \cup {"account"}]]
             /\ UNCHANGED <<showDeleted, auditCategory, dialog>>
             /\ Requested({"config"})
             /\ Proceed(t, [x \in Tasks |-> IF x = t THEN tasks[t] ELSE OfEarlierSession(tasks[x])],
                        {"config"}, ~session'.frozen)
    <3> DEFINE all == [x \in Tasks |-> IF x = t THEN tasks[t] ELSE OfEarlierSession(tasks[x])]
    <3>1. \A x \in Tasks : IsTask(all[x]) /\ Alike(all[x], tasks[x])
      BY <1>0, EarlierTask DEF Alike
    <3>2. Requested({"config"}) /\ Proceed(t, all, {"config"}, ~session'.frozen) BY <2>3
    <3>3. (~session'.frozen) \in BOOLEAN OBVIOUS
    <3>4. DOMAIN tasks[t].reads = {} BY <1>b, <2>3 DEF Answered
    <3>5. \A x \in Tasks \ {t} : all[x] = OfEarlierSession(tasks[x]) OBVIOUS
    <3> HIDE DEF all
    <3>6. l # "history" /\ Matters(l)' => Coming(l)'
      <4> SUFFICES ASSUME l # "history", Matters(l)' PROVE Coming(l)' OBVIOUS
      <4>1. ~session'.frozen BY <2>3 DEF Matters
      <4>2. Proceed(t, all, {"config"}, TRUE) BY <3>2, <4>1
      <4> QED BY <1>0, <3>1, <4>2, AllAreComing
    <3>7. ASSUME l = "history"
          PROVE  /\ Matters(l)' => Matters(l) /\ Wanted(l)' = Wanted(l)
                 /\ Keeps(l, shown'[l], shown[l])
                 /\ \A x \in Tasks \ {t} : IsLast(all[x], l) =>
                      IsLast(tasks[x], l) /\ Keeps(l, all[x].reads[l], tasks[x].reads[l])
      <4>1. Matters(l)' => Matters(l) /\ Wanted(l)' = Wanted(l)
        BY <2>3, <3>7 DEF Matters, Wanted
      <4>2. Keeps(l, shown'[l], shown[l])
        <5>1. shown'[l] = [shown[l] EXCEPT !.behind = @ \cup {"account"}] BY <2>3
        <5>2. shown'[l].of = shown[l].of /\ shown'[l].behind = shown[l].behind \cup {"account"}
          BY <1>0, <5>1
        <5> QED BY <3>7, <5>2 DEF Keeps, Excused
      <4>3. ASSUME NEW x \in Tasks \ {t}, IsLast(all[x], l)
            PROVE  IsLast(tasks[x], l) /\ Keeps(l, all[x].reads[l], tasks[x].reads[l])
        <5> DEFINE R == [m \in DOMAIN tasks[x].reads |->
                           [tasks[x].reads[m] EXCEPT !.behind = @ \cup {"account"}]]
        <5>1. all[x] = [tasks[x] EXCEPT !.past = tasks[x] # Idle, !.reads = R]
          BY <3>5 DEF OfEarlierSession
        <5>2. all[x].reads = R BY <1>0, <5>1 DEF IsTask
        <5>3. l \in DOMAIN tasks[x].reads /\ ~R[l].older BY <4>3, <5>2 DEF IsLast
        <5>4. tasks[x].reads[l] \in Read BY <1>0, <5>3 DEF IsTask
        <5>5. R[l] = [tasks[x].reads[l] EXCEPT !.behind = @ \cup {"account"}] BY <5>3
        <5>6. /\ R[l].of = tasks[x].reads[l].of /\ R[l].older = tasks[x].reads[l].older
              /\ R[l].behind = tasks[x].reads[l].behind \cup {"account"}
          BY <5>4, <5>5 DEF Read
        <5> HIDE DEF R
        <5> QED BY <3>7, <5>2, <5>3, <5>6 DEF IsLast, Keeps, Excused
      <4> QED BY <4>1, <4>2, <4>3
    <3> QED BY <1>0, <1>a, <2>2, <3>1, <3>2, <3>3, <3>4, <3>6, <3>7, AnswerRows
  <2>4. CASE /\ Failed(t) \/ tasks[t].step = "denied"
             /\ UNCHANGED <<me, mustChange, showDeleted, auditCategory, shown, dialog>>
             /\ Requested({}) /\ Proceed(t, tasks, {}, FALSE)
    <3>1. Answered(t) BY <2>4 DEF Answered
    <3> QED BY <1>a, <1>f, <2>2, <2>4, <3>1, SameScreen
  <2> QED BY <1>2, <2>3, <2>4 DEF AnswerLogin
<1>3. CASE AnswerFirstPassword(t)
  <2> DEFINE ls == IF tasks[t].step = "ok" THEN {"config"} ELSE {}
  <2>1. /\ mustChange' = (mustChange /\ Failed(t))
        /\ me' = IF tasks[t].step = "denied" THEN NoOne ELSE me
        /\ Requested(ls) /\ Proceed(t, tasks, ls, TRUE)
        /\ Answered(t) /\ tasks[t].h = "submitFirstPassword"
        /\ UNCHANGED <<showDeleted, auditCategory, shown, dialog>>
    BY <1>3 DEF AnswerFirstPassword
  <2>2. ls \in SUBSET Sources BY <1>a
  <2>3. CASE tasks[t].step = "ok"
    <3>1. Proceed(t, tasks, {"config"}, TRUE) BY <2>1, <2>3
    <3>2. l # "history" => Coming(l)' BY <1>0, <3>1, AllAreComing
    <3>3. l = "history" => ~Due(tasks[t], l) BY <1>g, <2>1 DEF SessionHandlers
    <3>4. l = "history" => (Matters(l)' => Matters(l) /\ Wanted(l)' = Wanted(l))
      BY <2>1 DEF Matters, Wanted
    <3> HIDE DEF ls
    <3> QED BY <1>f, <2>1, <2>2, <3>2, <3>3, <3>4
  <2>4. CASE tasks[t].step # "ok"
    <3>1. me' = NoOne \/ (me' = me /\ mustChange' = mustChange)
      BY <2>1, <2>4 DEF Answered, RInv, IInv, TypeOK
    <3> HIDE DEF ls
    <3> QED BY <1>c, <1>f, <2>1, <2>2, <2>4, <3>1, SameScreen
  <2> QED BY <2>3, <2>4
<1>4. CASE AnswerLogout(t)
  <2>1. /\ me' = NoOne /\ Answered(t) /\ tasks[t].h = "doLogout"
        /\ Requested({}) /\ Proceed(t, tasks, {}, FALSE)
        /\ shown' = [m \in Lists |-> IF m = "history" THEN shown[m] ELSE Empty]
        /\ UNCHANGED <<showDeleted, auditCategory, dialog>>
    BY <1>4 DEF AnswerLogout
  <2>2. ~Due(tasks[t], l) BY <1>g, <2>1 DEF SessionHandlers
  <2>3. Matters(l)' => l = "history" BY <2>1 DEF Matters
  <2>4. l = "history" => shown'[l] = shown[l] BY <2>1
  <2> QED BY <1>a, <1>f, <2>1, <2>2, <2>3, <2>4, SameScreen
<1>5. CASE AnswerPassword(t) \/ AnswerReset(t)
  <2>1. /\ me' = me /\ mustChange' = mustChange
        /\ Answered(t) /\ Requested({}) /\ Proceed(t, tasks, {}, FALSE)
        /\ tasks[t].h = "submitPassword" \/ tasks[t].h = "requestReset"
        /\ dialog' = dialog \/ dialog' = Closed
        /\ UNCHANGED <<showDeleted, auditCategory, shown>>
    BY <1>5 DEF AnswerPassword, AnswerReset
  <2>2. ~Due(tasks[t], l) BY <1>g, <2>1 DEF SessionHandlers
  <2> QED BY <1>a, <1>f, <2>1, <2>2, SameScreen
<1>6. CASE Answer(t)
  <2> DEFINE ls == IF tasks[t].step = "ok" THEN Loadable(Handler[tasks[t].h].loads) ELSE {}
  <2>1. /\ me' = NoOne \/ me' = me
        /\ mustChange' = mustChange
        /\ Requested(ls) /\ Proceed(t, tasks, ls, FALSE)
        /\ Answered(t) /\ tasks[t].h \in DOMAIN Handler \ SessionHandlers
        /\ dialog' = dialog \/ dialog' = Closed
        /\ UNCHANGED <<showDeleted, auditCategory, shown>>
    BY <1>6 DEF Answer
  <2>2. ls \in SUBSET Sources BY DEF Loadable, Sources
  <2>3. Due(tasks[t], l) => l \in ls
    <3> SUFFICES ASSUME Due(tasks[t], l) PROVE l \in ls OBVIOUS
    <3>1. tasks[t].step = "ok" /\ l \in Handler[tasks[t].h].changes BY DEF Due
    <3>2. l \in Handler[tasks[t].h].loads /\ l # "audit" BY <2>1, <3>1, ChangesAreLoaded
    <3> QED BY <3>1, <3>2 DEF Loadable
  <2> HIDE DEF ls
  <2> QED BY <1>f, <2>1, <2>2, <2>3, SameScreen
<1> QED BY <1>1, <1>2, <1>3, <1>4, <1>5, <1>6

\* Rows that the server has read are still on their way.
LEMMA ServeReadRows ==
  ASSUME RInv, NEW t \in Tasks, NEW m \in Sources, ServeRead(t, m), NEW l \in Lists
  PROVE  Right(l)'
<1>1. /\ m \in DOMAIN tasks[t].reads
      /\ UNCHANGED <<me, mustChange, showDeleted, auditCategory, shown, dialog, newest>>
  BY DEF ServeRead
<1>2. PICK got : tasks' = [tasks EXCEPT ![t].reads[m].got = got] BY DEF ServeRead
<1>3. DOMAIN tasks = Tasks /\ IsTask(tasks[t]) BY DEF RInv, IInv, TypeOK
<1>4. tasks[t].reads[m] \in Read BY <1>1, <1>3 DEF IsTask
<1> DEFINE read == [tasks[t].reads[m] EXCEPT !.got = got]
<1>5. /\ read.of = tasks[t].reads[m].of /\ read.behind = tasks[t].reads[m].behind
      /\ read.older = tasks[t].reads[m].older
  BY <1>4 DEF Read
<1>6. tasks' = [tasks EXCEPT ![t].reads[m] = read] BY <1>2
<1> HIDE DEF read
<1>7. /\ \A x \in Tasks \ {t} : tasks'[x] = tasks[x]
      /\ tasks'[t].reads = [tasks[t].reads EXCEPT ![m] = read]
      /\ tasks'[t].h = tasks[t].h /\ tasks'[t].step = tasks[t].step
      /\ tasks'[t].more = tasks[t].more
  BY <1>3, <1>6 DEF IsTask
<1>8. /\ DOMAIN tasks'[t].reads = DOMAIN tasks[t].reads
      /\ l \in DOMAIN tasks[t].reads =>
           tasks'[t].reads[l] = IF l = m THEN read ELSE tasks[t].reads[l]
  BY <1>7
<1>9. Matters(l)' => Matters(l) /\ Wanted(l)' = Wanted(l)
  BY <1>1 DEF Matters, Wanted, isAdmin
<1>10. \A x \in Tasks :
         /\ tasks'[x].more = tasks[x].more
         /\ DOMAIN tasks'[x].reads = DOMAIN tasks[x].reads
         /\ l \in DOMAIN tasks[x].reads =>
              /\ tasks'[x].reads[l].of = tasks[x].reads[l].of
              /\ tasks'[x].reads[l].behind = tasks[x].reads[l].behind
              /\ tasks'[x].reads[l].older = tasks[x].reads[l].older
         /\ Due(tasks[x], l) => Due(tasks'[x], l)
  BY <1>5, <1>7, <1>8 DEF Due
<1> QED BY <1>1, <1>9, <1>10, QuietRows

\* Rows that arrive are shown only if no newer ones have been asked for; a load that
\* is through goes on to the lists it owes.
LEMMA ArriveRows ==
  ASSUME RInv, TypeOK', NEW t \in Tasks, NEW m \in Sources, Arrive(t, m), NEW l \in Lists
  PROVE  Right(l)'
<1> DEFINE r == tasks[t].reads[m]
           rest == DOMAIN tasks[t].reads \ {m}
           part == IF rest = {} THEN NextPart(t, m) ELSE {}
           ls == part \ (IF me' = "admin" THEN {} ELSE {"audit"})
           rows == r.got = "rows"
<1>0. /\ auditCategory' \in Categories /\ dialog'.item \in Items \cup {NoItem}
      /\ DOMAIN tasks = Tasks /\ \A x \in Tasks : IsTask(tasks[x])
      /\ shown \in [Lists -> [of : Contents, behind : SUBSET Reasons]]
  BY DEF TypeOK, RInv, IInv
<1>1. /\ m \in DOMAIN tasks[t].reads
      /\ me' = NoOne \/ me' = me
      /\ UNCHANGED <<mustChange, showDeleted, auditCategory, dialog>>
      /\ shown' = IF rows /\ m \in Lists
                  THEN [shown EXCEPT ![m] = [of |-> r.of, behind |-> r.behind]] ELSE shown
      /\ newest' = [k \in Lists |-> IF k \in ls THEN FALSE
                                    ELSE IF k = m /\ rows THEN ~r.older ELSE newest[k]]
      /\ IF rest # {}
         THEN tasks' = [tasks EXCEPT ![t].reads = [k \in rest |-> @[k]]]
         ELSE Proceed(t, tasks, ls, m = "config")
  BY DEF Arrive
<1>2. Matters(l)' => Matters(l) /\ Wanted(l)' = Wanted(l) BY <1>1, SameScreen
<1>3. ~Due(tasks[t], l)
  <2>1. tasks[t].step = "reading" BY <1>1 DEF RInv, IInv, OnlyReadersRead
  <2> QED BY <2>1 DEF Due
<1>4. newest'[l] /\ l \notin ls => \/ newest[l] /\ Keeps(l, shown'[l], shown[l])
                                   \/ IsLast(tasks[t], l) /\ Keeps(l, shown'[l], tasks[t].reads[l])
  <2> SUFFICES ASSUME newest'[l], l \notin ls
               PROVE  \/ newest[l] /\ Keeps(l, shown'[l], shown[l])
                      \/ IsLast(tasks[t], l) /\ Keeps(l, shown'[l], tasks[t].reads[l])
    OBVIOUS
  <2>1. CASE l = m /\ rows
    <3>1. ~r.older /\ shown'[l] = [of |-> r.of, behind |-> r.behind] BY <1>0, <1>1, <2>1
    <3>2. IsLast(tasks[t], l) BY <1>1, <2>1, <3>1 DEF IsLast
    <3>3. Keeps(l, shown'[l], tasks[t].reads[l]) BY <2>1, <3>1 DEF Keeps
    <3> QED BY <3>2, <3>3
  <2>2. CASE ~(l = m /\ rows)
    <3>1. newest[l] /\ shown'[l] = shown[l] BY <1>0, <1>1, <2>2
    <3> QED BY <3>1 DEF Keeps
  <2> QED BY <2>1, <2>2
<1>5. CASE rest # {}
  <2>1. tasks' = [tasks EXCEPT ![t].reads = [k \in rest |-> @[k]]] BY <1>1, <1>5
  <2>2. /\ \A x \in Tasks \ {t} : tasks'[x] = tasks[x]
        /\ tasks'[t].reads = [k \in rest |-> tasks[t].reads[k]]
        /\ tasks'[t].h = tasks[t].h /\ tasks'[t].step = tasks[t].step
        /\ tasks'[t].more = tasks[t].more
    BY <1>0, <2>1 DEF IsTask
  <2>3. l \notin ls BY <1>5
  <2>4. Coming(l) => Coming(l)'
    <3>1. DOMAIN tasks[t].reads # {"config"} BY <1>1, <1>5
    <3>2. WillLoad(tasks[t], l) => WillLoad(tasks'[t], l)
      BY <1>5, <2>2, <3>1 DEF WillLoad
    <3> QED BY <2>2, <3>2 DEF Coming
  <2>5. Promised(l) => Promised(l)' BY <1>3, <2>2 DEF Promised
  <2>6. \A x \in Tasks : IsLast(tasks'[x], l) =>
          IsLast(tasks[x], l) /\ Keeps(l, tasks'[x].reads[l], tasks[x].reads[l])
    BY <2>2 DEF IsLast, Keeps
  <2>7. Matters(l)' /\ ~Coming(l)' => Kept(l)
    <3> HIDE DEF ls, rest, r, rows
    <3> QED BY <1>2, <1>4, <2>3, <2>4, <2>5, <2>6 DEF Kept
  <2> QED BY <2>7, KeptIsRight DEF Right, RInv, RowsAreRight
<1>6. CASE rest = {}
  <2>1. Proceed(t, tasks, ls, m = "config") /\ (m = "config") \in BOOLEAN BY <1>1, <1>6
  <2>2. ls \in SUBSET Sources BY DEF NextPart, Sources
  <2>3. part = NextPart(t, m) BY <1>6
  <2>a. DOMAIN tasks[t].reads = {m} BY <1>1, <1>6
  <2> HIDE DEF r, rest, rows
  <2>4. WillLoad(tasks[t], l) /\ l \notin ls /\ Matters(l)' => m = "config" /\ l = "audit" /\ ls # {}
    <3> SUFFICES ASSUME WillLoad(tasks[t], l), l \notin ls, Matters(l)'
                 PROVE  m = "config" /\ l = "audit" /\ ls # {}
      OBVIOUS
    <3>1. tasks[t].more BY DEF WillLoad
    <3>2. l # "audit" => m = "config" /\ l \in {"certs", "renewals", "deletions", "users"}
      BY <2>a DEF WillLoad
    <3>3. m = "config" => part = {"certs", "renewals", "deletions", "users"} \cap Lists
      BY <2>3, <3>1 DEF NextPart
    <3>4. l = "audit"
      <4> SUFFICES ASSUME l # "audit" PROVE l \in ls OBVIOUS
      <4> QED BY <3>2, <3>3
    <3>5. m = "config"
      <4> SUFFICES ASSUME m # "config" PROVE l \in ls OBVIOUS
      <4>1. part = {"audit"} \cap Lists BY <2>3, <3>1 DEF NextPart
      <4>2. me' = "admin" BY <3>4 DEF Matters, isAdmin
      <4> QED BY <3>4, <4>1, <4>2
    <3>6. "certs" \in ls BY <3>3, <3>5, ListsAssumption
    <3> HIDE DEF ls
    <3> QED BY <3>4, <3>5, <3>6
  <2> HIDE DEF ls, part
  <2>5. Proceeded(t, tasks, ls, m = "config") BY <1>0, <2>1, <2>2, ProceedFacts
  <2>6. \A x \in Tasks : IsLast(tasks'[x], l) =>
          \/ x = t /\ l \in ls /\ tasks'[x].reads[l] = NewRead(l)'
          \/ /\ x # t /\ l \notin ls /\ IsLast(tasks[x], l)
             /\ tasks'[x].reads[l].of = tasks[x].reads[l].of
             /\ tasks'[x].reads[l].behind = tasks[x].reads[l].behind
    <3> TAKE x \in Tasks
    <3> HAVE IsLast(tasks'[x], l)
    <3> QED BY <1>0, <2>1, <2>2, ProceedReads, SMTT(60)
  <2>7. CASE l \in ls
    <3>1. ~newest'[l] BY <1>1, <2>7
    <3>2. Fresh(l) BY <2>6, <2>7, <3>1 DEF Fresh
    <3> QED BY <3>2, FreshIsRight
  <2>8. CASE l \notin ls /\ Matters(l)' /\ ~Coming(l)'
    <3>1. \A x \in Tasks \ {t} : Alike(tasks'[x], tasks[x]) BY <2>5 DEF Proceeded, Alike
    <3>2. ~Coming(l)
      <4>1. \A x \in Tasks \ {t} : WillLoad(tasks'[x], l) <=> WillLoad(tasks[x], l)
        BY <3>1 DEF Alike, WillLoad
      <4>2. ~WillLoad(tasks[t], l)
        <5> SUFFICES ASSUME WillLoad(tasks[t], l) PROVE WillLoad(tasks'[t], l)
          BY <2>8 DEF Coming
        <5>1. m = "config" /\ l = "audit" /\ ls # {} BY <2>4, <2>8
        <5>2. DOMAIN tasks'[t].reads = ls /\ tasks'[t].more = TRUE BY <2>5, <5>1 DEF Proceeded
        <5> QED BY <5>1, <5>2 DEF WillLoad
      <4> QED BY <2>8, <4>1, <4>2 DEF Coming
    <3>3. Promised(l) => Promised(l)'
      <4>1. \A x \in Tasks \ {t} : Due(tasks'[x], l) <=> Due(tasks[x], l)
        BY <3>1 DEF Alike, Due
      <4> QED BY <1>3, <4>1 DEF Promised
    <3>4. \A x \in Tasks : IsLast(tasks'[x], l) =>
            IsLast(tasks[x], l) /\ Keeps(l, tasks'[x].reads[l], tasks[x].reads[l])
      BY <2>6, <2>8 DEF Keeps
    <3>5. Kept(l) BY <1>2, <1>4, <2>8, <3>2, <3>3, <3>4 DEF Kept
    <3> QED BY <3>5, KeptIsRight DEF RInv, RowsAreRight
  <2> QED BY <2>7, <2>8 DEF Right
<1> QED BY <1>5, <1>6

\* Every step of the page.
LEMMA RowsStep == ASSUME RInv, [Next]_vars PROVE RInv'
<1>0. IInv' /\ TypeOK' BY InvStep, TypeStep DEF RInv, IInv
<1> SUFFICES ASSUME NEW l \in Lists PROVE Right(l)' BY <1>0 DEF RInv, RowsAreRight
<1>1. CASE Person BY <1>0, <1>1, PersonRows
<1>2. ASSUME NEW t \in Tasks, Step(t) PROVE Right(l)'
  <2>1. CASE Serve(t) BY <2>1, ServeRows
  <2>2. ASSUME NEW m \in Lists \cup {"config"}, ServeRead(t, m) \/ Arrive(t, m) PROVE Right(l)'
    <3>1. m \in Sources BY DEF Sources
    <3> QED BY <1>0, <2>2, <3>1, ServeReadRows, ArriveRows
  <2>3. CASE \/ AnswerBoot(t) \/ AnswerLogin(t) \/ AnswerFirstPassword(t) \/ AnswerLogout(t)
             \/ AnswerPassword(t) \/ AnswerReset(t) \/ Answer(t)
    BY <1>0, <2>3, AnswersRows
  <2> QED BY <1>2, <2>1, <2>2, <2>3 DEF Step
<1>3. CASE SessionEnds \/ UNCHANGED vars
  <2>1. UNCHANGED <<tasks, shown, newest, me, mustChange, showDeleted, auditCategory, dialog>>
    BY <1>3 DEF SessionEnds, vars
  <2>2. Matters(l)' => Matters(l) /\ Wanted(l)' = Wanted(l)
    BY <2>1 DEF Matters, Wanted, isAdmin
  <2> QED BY <2>1, <2>2, QuietRows
<1>4. CASE Reload
  <2>1. PICK t \in Tasks : tasks' = Booting(t) BY <1>4, Zenon DEF Reload
  <2>2. ~newest'[l] BY <1>4 DEF Reload, NoneNewest
  <2>3. Fresh(l) BY <2>1, <2>2, FreshInv DEF Fresh, IsLast
  <2> QED BY <2>3, FreshIsRight
<1> QED BY <1>1, <1>2, <1>3, <1>4 DEF Next

\* The rows asked for last are right, or about to be asked for again.
LEMMA RowsHold == Spec => []RInv
<1>1. Init => RInv
  <2> SUFFICES ASSUME Init PROVE RInv OBVIOUS
  <2>1. PICK t \in Tasks : tasks = Booting(t) BY Zenon DEF Init
  <2>2. newest = NoneNewest BY Zenon DEF Init
  <2>3. ASSUME NEW l \in Lists PROVE Right(l)
    BY <2>1, <2>2, FreshInv DEF Right, IsLast, NoneNewest
  <2> QED BY <2>3, InitInv DEF RInv, RowsAreRight
<1> QED BY <1>1, RowsStep, PTL DEF Spec

\* When everything asked for has arrived, the lists on screen are those of the tab, the
\* switch, the dialog and the account, with every change made here that was acknowledged.
THEOREM SettledIsRight == Spec => []SettledScreenIsRight
<1>1. RInv => SettledScreenIsRight
  <2> SUFFICES ASSUME RInv, Settled, NEW l \in OnScreen, newest[l]
               PROVE  shown[l].of = Wanted(l) /\ shown[l].behind \subseteq Excused(l)
    BY DEF SettledScreenIsRight
  <2>1. Screen = "app" BY DEF OnScreen
  <2>2. me # NoOne /\ ~mustChange
    <3> SUFFICES ASSUME me = NoOne \/ mustChange PROVE Screen # "app" BY <2>1
    <3> QED BY DEF Screen, RInv, IInv, TypeOK
  <2>3. l \in Lists /\ (l = "audit" => isAdmin) /\ (l = "history" => dialog.kind = "history")
    BY <2>1 DEF OnScreen
  <2>4. Matters(l) BY <2>2, <2>3 DEF Matters
  <2>5. ~Coming(l) /\ ~Promised(l)
    BY NothingLoading DEF Settled, Coming, WillLoad, Promised, Due, Idle
  <2>6. UpToDate(l, shown[l]) BY <2>3, <2>4, <2>5 DEF RInv, RowsAreRight, Right
  <2> QED BY <2>5, <2>6 DEF UpToDate
<1> QED BY <1>1, RowsHold, PTL

=============================================================================
