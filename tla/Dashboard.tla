------------------------------ MODULE Dashboard ------------------------------
(***************************************************************************)
(* The page in the browser (internal/web/static/app.js): who it takes to   *)
(* be signed in, the lists it shows, its open dialog, its disabled         *)
(* buttons, and its requests to the server, which overlap and are answered *)
(* in any order.                                                           *)
(*                                                                         *)
(* JavaScript runs one handler at a time, up to its next await.  A handler *)
(* that talks to the server is a task: Click sends its request, Serve is   *)
(* the server carrying it out, an Answer action is the rest of the handler *)
(* up to the lists it loads, and each load is served and arrives on its    *)
(* own.  Rows are abstracted to what is wrong with them: the reasons why   *)
(* they are not what the server would answer now.                          *)
(***************************************************************************)
EXTENDS Naturals

CONSTANTS
  Tasks,         \* handlers in flight: how many bounds the overlap
  Items,         \* certificates and tokens
  Lists,         \* the lists that are followed, out of AllLists
  Categories,    \* tabs of the audit log
  Everything,    \* the first of them
  Accounts,      \* who may sign in: a role, and whether the password is temporary
  Buttons,       \* the handlers that are offered, out of DOMAIN Handler
  Faults,        \* what may go wrong, out of {"lost", "expiry", "reload"}
  NoOne,         \* nobody is signed in
  NoItem,        \* a new item, or no item in particular
  Defaults       \* the values the server's configuration proposes for one

AllLists == {"certs", "renewals", "deletions", "users", "audit", "history"}

ASSUME ListsAssumption == "certs" \in Lists /\ Lists \subseteq AllLists
ASSUME NullsAssumption == NoOne \notin {"user", "admin"} /\ {NoItem, Defaults} \cap Items = {}
ASSUME CategoriesAssumption == Everything \in Categories
ASSUME AccountsAssumption == Accounts \subseteq [role : {"user", "admin"}, frozen : BOOLEAN]

VARIABLES
  session,        \* what the browser's cookie is good for, as the server knows
  booting,        \* the page has just been loaded
  me,             \* role of the account the page takes to be signed in, or NoOne
  mustChange,     \* mustChangePassword
  view,           \* the tab
  showDeleted,    \* the section of deleted items is open
  auditCategory,  \* the tab of the audit log
  shown,          \* per list, what its rows are of and what is wrong with them
  loading,        \* the spinner in place of the cards
  panel,          \* of the login card: sign in, forgot, or a mail has been sent
  dialog,         \* the modal: its kind and the item it was opened for
  form,           \* whose values the certificate form holds, and where they go
  busy,           \* the flags that disable buttons
  tasks,          \* the handlers in flight
  newest          \* history: the rows of a list answer the last request for it

vars == <<session, booting, me, mustChange, view, showDeleted, auditCategory, shown,
          loading, panel, dialog, form, busy, tasks, newest>>

-----------------------------------------------------------------------------
(* Types *)

Roles == {"user", "admin"}
Views == {"certs", "reviews", "audit", "users"}
DialogKinds == {"form", "renew", "delete", "owner", "history", "review",
                "delete_review", "user", "password"}
Panels == {"sign in", "forgot", "sent"}
Flags == {"loggingIn", "forgotBusy", "firstPasswordBusy", "saving", "renewSaving", "reviewBusy",
          "deleteSaving", "deleteReviewBusy"}

\* Why rows are not what they should be: they were asked for by an earlier
\* session, before a change made here, before one of which the page was not told
\* because the answer was lost, or before an approval made here that closed
\* requests in them.  Changes that others make do not count, nor do the
\* names that rows repeat from other tables and new entries of the audit log.
Reasons == {"account", "change", "unheard", "closing"}

NoSession == [role |-> NoOne, frozen |-> FALSE]
Closed == [kind |-> "none", item |-> NoItem]
Blank == [of |-> Defaults, editing |-> NoItem]
Empty == [of |-> "nothing", behind |-> {}]
NoReads == [l \in {} |-> 0]

Idle == [h |-> "none", step |-> "idle", past |-> FALSE, more |-> FALSE, reads |-> NoReads]

Starting(h) == [Idle EXCEPT !.h = h, !.step = "sent"]

-----------------------------------------------------------------------------
(* What is on screen *)

isAdmin == me = "admin"

Screen ==
  CASE booting -> "boot"
    [] ~booting /\ me = NoOne -> "login"
    [] ~booting /\ me # NoOne /\ mustChange -> "first_password"
    [] OTHER -> "app"

\* What belongs to a row needs rows.
HasRows(l) == l \in Lists => shown[l] # Empty

\* The spinner replaces the cards; deleted items are listed for admins.
CertsTab ==
  {"certs"} \cup (IF HasRows("certs") /\ ~loading THEN {"cards"} ELSE {})
            \cup (IF isAdmin /\ shown["certs"].of = "deleted too" THEN {"deleted"} ELSE {})

ReviewsTab == {l \in {"renewals", "deletions"} : HasRows(l)}

UsersTab == {"users"} \cup (IF HasRows("users") THEN {"accounts"} ELSE {})

\* The parts of the page a click can reach: a dialog's overlay covers the rest.
Places ==
  CASE Screen = "login" -> {panel}
    [] Screen \in {"boot", "first_password"} -> {Screen}
    [] Screen = "app" /\ dialog # Closed -> {dialog.kind}
    [] OTHER -> {"header"} \cup (CASE view = "certs" -> CertsTab
                                   [] view = "reviews" -> ReviewsTab
                                   [] view = "audit" /\ isAdmin -> {"audit"}
                                   [] view = "users" /\ isAdmin -> UsersTab
                                   [] OTHER -> {})

\* What a list is asked for at this moment.
Wanted(l) ==
  CASE l = "certs" -> IF showDeleted /\ isAdmin THEN "deleted too" ELSE "live"
    [] l = "audit" -> auditCategory
    [] l = "history" -> dialog.item
    [] OTHER -> "all"

\* Of some lists, those that would be asked for: the audit log is for admins.
Loadable(ls) == (ls \cap Lists) \ (IF isAdmin THEN {} ELSE {"audit"})

-----------------------------------------------------------------------------
(* The handlers that send one request and load lists when it has succeeded: *)
(* where their button is and whom it is shown to, the flag that disables    *)
(* it, the dialog a success closes, the lists whose rows the server         *)
(* changes, those in which an approval closes requests of the other kind,   *)
(* and the lists loaded afterwards.                                         *)

doLogin ==
  [from |-> {"sign in"}, admin |-> FALSE, flag |-> "loggingIn", closes |-> "nothing",
   changes |-> {}, side |-> {}, loads |-> {}]

requestReset ==
  [from |-> {"forgot"}, admin |-> FALSE, flag |-> "forgotBusy", closes |-> "nothing",
   changes |-> {}, side |-> {}, loads |-> {}]

submitFirstPassword ==
  [from |-> {"first_password"}, admin |-> FALSE, flag |-> "firstPasswordBusy",
   closes |-> "nothing", changes |-> {"users"}, side |-> {}, loads |-> {}]

doLogout ==
  [from |-> {"header", "first_password"}, admin |-> FALSE, flag |-> "none",
   closes |-> "nothing", changes |-> {}, side |-> {}, loads |-> {}]

submitPassword ==
  [from |-> {"password"}, admin |-> FALSE, flag |-> "none", closes |-> "password",
   changes |-> {}, side |-> {}, loads |-> {}]

submitForm ==
  [from |-> {"form"}, admin |-> FALSE, flag |-> "saving", closes |-> "form",
   changes |-> {"certs"}, side |-> {}, loads |-> {"certs"}]

submitDeletion ==
  [from |-> {"delete"}, admin |-> FALSE, flag |-> "deleteSaving", closes |-> "delete",
   changes |-> {"certs", "deletions"}, side |-> {}, loads |-> {"certs", "deletions"}]

approveDeletion ==
  [from |-> {"delete_review"}, admin |-> FALSE, flag |-> "deleteReviewBusy",
   closes |-> "delete_review", changes |-> {"certs", "deletions"}, side |-> {"renewals"},
   loads |-> {"certs", "deletions", "audit"}]

rejectDeletion == [approveDeletion EXCEPT !.side = {}]

withdrawDeletion ==
  [from |-> {"cards", "deletions"}, admin |-> FALSE, flag |-> "none", closes |-> "nothing",
   changes |-> {"certs", "deletions"}, side |-> {}, loads |-> {"certs", "deletions"}]

restoreUnseen ==                                       \* mutant: no list is loaded
  [from |-> {"deleted"}, admin |-> TRUE, flag |-> "none", closes |-> "nothing",
   changes |-> {"certs"}, side |-> {}, loads |-> {}]

restoreCert ==
  [from |-> {"deleted"}, admin |-> TRUE, flag |-> "none", closes |-> "nothing",
   changes |-> {"certs"}, side |-> {}, loads |-> {"certs"}]

testCert ==
  [from |-> {"cards"}, admin |-> FALSE, flag |-> "none", closes |-> "nothing",
   changes |-> {}, side |-> {}, loads |-> {}]

runCheck ==
  [from |-> {"certs"}, admin |-> TRUE, flag |-> "none", closes |-> "nothing",
   changes |-> {"certs"}, side |-> {}, loads |-> {"certs", "audit"}]

submitOwner ==
  [from |-> {"owner"}, admin |-> FALSE, flag |-> "none", closes |-> "owner",
   changes |-> {"certs"}, side |-> {}, loads |-> {"certs"}]

submitRenewal ==
  [from |-> {"renew"}, admin |-> FALSE, flag |-> "renewSaving", closes |-> "renew",
   changes |-> {"certs", "renewals"}, side |-> {}, loads |-> {"certs", "renewals"}]

approveRenewal ==
  [from |-> {"review"}, admin |-> FALSE, flag |-> "reviewBusy", closes |-> "review",
   changes |-> {"certs", "renewals"}, side |-> {"deletions"},
   loads |-> {"certs", "renewals", "audit"}]

rejectRenewal == [approveRenewal EXCEPT !.side = {}]

withdrawRenewal ==
  [from |-> {"cards", "renewals"}, admin |-> FALSE, flag |-> "none", closes |-> "nothing",
   changes |-> {"certs", "renewals"}, side |-> {}, loads |-> {"certs", "renewals"}]

submitUser ==
  [from |-> {"user"}, admin |-> TRUE, flag |-> "none", closes |-> "user",
   changes |-> {"users"}, side |-> {}, loads |-> {"users"}]

resetUserPassword ==
  [from |-> {"accounts"}, admin |-> TRUE, flag |-> "none", closes |-> "nothing",
   changes |-> {"users"}, side |-> {}, loads |-> {"users"}]

Handler ==
  [doLogin |-> doLogin, doLogout |-> doLogout, requestReset |-> requestReset,
   submitFirstPassword |-> submitFirstPassword, submitPassword |-> submitPassword,
   submitForm |-> submitForm, submitDeletion |-> submitDeletion,
   approveDeletion |-> approveDeletion, rejectDeletion |-> rejectDeletion,
   withdrawDeletion |-> withdrawDeletion, restoreCert |-> restoreCert,
   testCert |-> testCert, runCheck |-> runCheck, submitOwner |-> submitOwner,
   submitRenewal |-> submitRenewal, approveRenewal |-> approveRenewal,
   rejectRenewal |-> rejectRenewal, withdrawRenewal |-> withdrawRenewal,
   submitUser |-> submitUser, resetUserPassword |-> resetUserPassword]

ASSUME ButtonsAssumption == Buttons \subseteq DOMAIN Handler

SessionHandlers ==
  {"doLogin", "doLogout", "requestReset", "submitFirstPassword", "submitPassword"}

\* Handlers that only load lists, and the first load of the page, have no flag.
FlagOf(h) == IF h \in DOMAIN Handler THEN Handler[h].flag ELSE "none"

-----------------------------------------------------------------------------
(* Requests for lists *)

NewRead(l) == [got |-> "nothing", of |-> Wanted(l), behind |-> {}, older |-> FALSE]

\* Requests for these lists under way are no longer the last ones.
Overtaken(k, ls) ==
  [k EXCEPT !.reads =
     [l \in DOMAIN k.reads |-> [k.reads[l] EXCEPT !.older = @ \/ l \in ls]]]

\* A change carried out by the server outdates rows it has answered before.
Outdated(k, marks) ==
  [k EXCEPT !.reads =
     [l \in DOMAIN k.reads |->
        IF k.reads[l].got = "rows" /\ l \in Lists
        THEN [k.reads[l] EXCEPT !.behind = @ \cup marks[l]] ELSE k.reads[l]]]

\* Whatever was sent with an earlier cookie is of another session.
OfEarlierSession(k) ==
  [k EXCEPT !.past = k # Idle,
            !.reads = [l \in DOMAIN k.reads |->
                         [k.reads[l] EXCEPT !.behind = @ \cup {"account"}]]]

\* The flags that are left when a handler ends.
FlagsLeftDenied(k) == IF k.step = "denied" THEN busy ELSE busy \ {FlagOf(k.h)} \* mutant

FlagsLeft(k) == busy \ {FlagOf(k.h)}

\* Task t goes on by requesting lists, or ends if there are none; `all` are
\* the tasks as this step leaves the others.
Proceed(t, all, ls, more) ==
  /\ busy' = IF ls = {} THEN FlagsLeft(all[t]) ELSE busy
  /\ booting' = (booting /\ (ls = {} => all[t].h # "onMounted"))
  /\ tasks' = [x \in Tasks |->
       IF x # t THEN Overtaken(all[x], ls)
       ELSE IF ls = {} THEN Idle
       ELSE [all[t] EXCEPT !.step = "reading", !.more = more,
                           !.reads = [l \in ls |-> NewRead(l)']]]

Requested(ls) ==
  /\ loading' = (loading \/ "certs" \in ls)
  /\ newest' = [l \in Lists |-> newest[l] /\ l \notin ls]

\* A handler that only loads lists, from its first line to its first await.
Load(t, h, ls) ==
  /\ tasks[t] = Idle
  /\ Requested(ls)
  /\ Proceed(t, [tasks EXCEPT ![t] = [Idle EXCEPT !.h = h]], ls, FALSE)

-----------------------------------------------------------------------------
(* Loading the page *)

NoRows == [l \in Lists |-> Empty]
NoneNewest == [l \in Lists |-> FALSE]
Booting(t) == [[x \in Tasks |-> Idle] EXCEPT ![t] = Starting("onMounted")]

Init ==
  /\ session \in {NoSession} \cup Accounts
  /\ booting = TRUE /\ me = NoOne /\ mustChange = FALSE
  /\ view = "certs" /\ showDeleted = FALSE /\ auditCategory = Everything
  /\ shown = NoRows /\ newest = NoneNewest /\ loading = TRUE
  /\ panel = "sign in" /\ dialog = Closed /\ form = Blank /\ busy = {}
  /\ \E t \in Tasks : tasks = Booting(t)

\* The browser's reload button starts the page anew.  Requests under way go
\* unheard, and one not yet served is taken as never sent: that the server may
\* still carry it out, beside the new page, is left out.
Reload ==
  /\ "reload" \in Faults
  /\ booting' = TRUE /\ me' = NoOne /\ mustChange' = FALSE
  /\ view' = "certs" /\ showDeleted' = FALSE /\ auditCategory' = Everything
  /\ shown' = NoRows /\ newest' = NoneNewest /\ loading' = TRUE
  /\ panel' = "sign in" /\ dialog' = Closed /\ form' = Blank /\ busy' = {}
  /\ \E t \in Tasks : tasks' = Booting(t)
  /\ UNCHANGED session

-----------------------------------------------------------------------------
(* Handlers that stay on the page *)

UnchangedButDialog ==
  UNCHANGED <<session, booting, me, mustChange, view, showDeleted, auditCategory, shown,
              loading, panel, busy, tasks, newest>>

\* Bound: dialogs are opened only for the buttons that are offered in them.
Offered(kind) == \E h \in Buttons : kind \in Handler[h].from

openCreate ==
  /\ "certs" \in Places /\ Offered("form")
  /\ form' = [of |-> NoItem, editing |-> NoItem]
  /\ dialog' = [kind |-> "form", item |-> NoItem]
  /\ UnchangedButDialog

openEdit(c) ==
  /\ "cards" \in Places /\ Offered("form")
  /\ form' = [of |-> c, editing |-> c]
  /\ dialog' = [kind |-> "form", item |-> c]
  /\ UnchangedButDialog

\* The other dialogs, whose item tells nothing apart here: openRenew, openDelete,
\* openOwner, openReview, openDeleteReview, openUserCreate, openUserEdit and
\* the password dialog.
OpenDialog(kind) ==
  /\ Offered(kind)
  /\ \/ kind \in {"renew", "delete", "owner"} /\ "cards" \in Places
     \/ kind = "review" /\ {"cards", "renewals"} \cap Places # {}
     \/ kind = "delete_review" /\ {"cards", "deletions"} \cap Places # {}
     \/ kind = "user" /\ {"users", "accounts"} \cap Places # {}
     \/ kind = "password" /\ "header" \in Places
  /\ dialog' = [kind |-> kind, item |-> NoItem]
  /\ UNCHANGED form /\ UnchangedButDialog

\* Cancel, Close, and a click beside the dialog; never disabled.
CloseDialog ==
  /\ Screen = "app" /\ dialog # Closed
  /\ dialog' = Closed
  /\ UNCHANGED form /\ UnchangedButDialog

openForgot ==
  /\ "sign in" \in Places /\ Offered("forgot")
  /\ panel' = "forgot"
  /\ UNCHANGED <<session, booting, me, mustChange, view, showDeleted, auditCategory, shown,
                 loading, dialog, form, busy, tasks, newest>>

closeForgot ==
  /\ {"forgot", "sent"} \cap Places # {}
  /\ panel' = "sign in"
  /\ UNCHANGED <<session, booting, me, mustChange, view, showDeleted, auditCategory, shown,
                 loading, dialog, form, busy, tasks, newest>>

-----------------------------------------------------------------------------
(* Handlers that only load *)

TabLists(v) ==
  CASE v = "audit" -> {"audit"} [] v = "users" -> {"users"}
    [] v = "reviews" -> {"renewals", "deletions"} [] OTHER -> {}

\* Bound: tabs whose lists are not followed are left out.
switchView(t, v) ==
  /\ "header" \in Places /\ (v \in {"audit", "users"} => isAdmin)
  /\ v = "certs" \/ TabLists(v) \cap Lists # {}
  /\ view' = v
  /\ UNCHANGED <<session, me, mustChange, showDeleted, auditCategory, shown, panel, dialog, form>>
  /\ LET ls == TabLists(v)
     IN IF Loadable(ls) = {} THEN UNCHANGED <<booting, loading, busy, tasks, newest>>
        ELSE Load(t, "switchView", Loadable(ls))

toggleDeleted(t) ==
  /\ "certs" \in Places /\ isAdmin
  /\ showDeleted' = ~showDeleted
  /\ UNCHANGED <<session, me, mustChange, view, auditCategory, shown, panel, dialog, form>>
  /\ Load(t, "toggleDeleted", {"certs"})

setAuditCategory(t, key) ==
  /\ "audit" \in Places /\ "audit" \in Lists
  /\ auditCategory' = key
  /\ UNCHANGED <<session, me, mustChange, view, showDeleted, shown, panel, dialog, form>>
  /\ Load(t, "setAuditCategory", {"audit"})

openHistory(t, c) ==
  /\ "cards" \in Places /\ "history" \in Lists
  /\ dialog' = [kind |-> "history", item |-> c]
  /\ shown' = [shown EXCEPT !["history"] = Empty]
  /\ UNCHANGED <<session, me, mustChange, view, showDeleted, auditCategory, panel, form>>
  /\ Load(t, "openHistory", {"history"})

-----------------------------------------------------------------------------
(* Handlers that ask the server to do something *)

\* The button is on screen, and not disabled.
Shown(h) == Handler[h].from \cap Places # {} /\ (Handler[h].admin => isAdmin)

NotHidden(h) == Shown(h)                               \* mutant

Clickable(h) == Shown(h) /\ Handler[h].flag \notin busy

Flagged(h) == {Handler[h].flag}                        \* mutant

FlagSet(h) == {Handler[h].flag} \ {"none"}

Click(t, h) ==
  /\ h \in Buttons /\ tasks[t] = Idle
  /\ Clickable(h)
  /\ busy' = busy \cup FlagSet(h)
  /\ tasks' = [tasks EXCEPT ![t] = Starting(h)]
  /\ UNCHANGED <<session, booting, me, mustChange, view, showDeleted, auditCategory,
                 shown, loading, panel, dialog, form, newest>>

\* What the server may answer, other than a refusal: a request without a session
\* is denied, one with an account's one-time password is refused but for the
\* change of it; a wrong password is denied too.
Outcomes(t) ==
  LET h == tasks[t].h
      password == {"doLogin", "submitFirstPassword", "submitPassword"}
  IN (IF \/ h \in {"onMounted", "doLogin", "requestReset"} \/ tasks[t].past
              \/ /\ session # NoSession
                 /\ session.frozen => h \in SessionHandlers
      THEN {"ok"} ELSE {})
     \cup (IF \/ h \in password \/ tasks[t].past
              \/ session = NoSession /\ h \notin {"onMounted", "requestReset"}
           THEN {"denied"} ELSE {})

SessionAfter(t) ==
  CASE tasks[t].past -> session
    [] tasks[t].h = "doLogout" -> NoSession
    [] tasks[t].h = "submitFirstPassword" -> [session EXCEPT !.frozen = FALSE]
    [] OTHER -> session

\* A request fails without an effect (no connection, a refusal), or its answer
\* is lost.
Failed(t) == tasks[t].step \in {"sent", "lost"}
Answered(t) == Failed(t) \/ tasks[t].step \in {"ok", "denied"}

\* The server carries out the request of task t; `side` are the lists in which
\* it happens to close a request, and the answer may get lost on the way.
Serve(t) ==
  /\ tasks[t].step = "sent"
  /\ \E out \in Outcomes(t) :
       IF out # "ok" \/ tasks[t].h \notin DOMAIN Handler
       THEN /\ tasks' = [tasks EXCEPT ![t].step = out]
            /\ UNCHANGED <<session, shown>>
       ELSE \E side \in SUBSET Handler[tasks[t].h].side, heard \in BOOLEAN :
            LET changes == Handler[tasks[t].h].changes
                change == IF heard THEN "change" ELSE "unheard"
                marks == [l \in Lists |-> {change : x \in changes \cap {l}}
                                          \cup {"closing" : x \in side \cap {l}}]
                all == [tasks EXCEPT ![t].step = IF heard THEN "ok" ELSE "lost"]
            IN /\ ~heard => "lost" \in Faults
               /\ session' = SessionAfter(t)
               /\ shown' = [l \in Lists |-> [shown[l] EXCEPT !.behind = @ \cup marks[l]]]
               /\ tasks' = [x \in Tasks |-> Outdated(all[x], marks)]
  /\ UNCHANGED <<booting, me, mustChange, view, showDeleted, auditCategory, loading, panel,
                 dialog, form, busy, newest>>

\* onMounted: loadSession, then loadAll, or the configuration alone.
AnswerBoot(t) ==
  /\ tasks[t].h = "onMounted" /\ Answered(t)
  /\ LET s == IF tasks[t].step = "ok" THEN session ELSE NoSession
         ls == IF s = NoSession THEN {} ELSE {"config"}
     IN /\ me' = s.role /\ mustChange' = s.frozen
        /\ UNCHANGED <<session, view, showDeleted, auditCategory, shown, panel, dialog, form>>
        /\ Requested(ls)
        /\ Proceed(t, tasks, ls, ~s.frozen)

AnswerLogin(t) ==
  /\ tasks[t].h = "doLogin"
  /\ \/ /\ tasks[t].step = "ok"
        /\ session' \in Accounts
        /\ me' = session'.role /\ mustChange' = session'.frozen
        /\ shown' = [l \in Lists |-> [shown[l] EXCEPT !.behind = @ \cup {"account"}]]
        /\ UNCHANGED <<view, showDeleted, auditCategory, panel, dialog, form>>
        /\ Requested({"config"})
        /\ Proceed(t, [x \in Tasks |-> IF x = t THEN tasks[t] ELSE OfEarlierSession(tasks[x])],
                   {"config"}, ~session'.frozen)
     \/ /\ Failed(t) \/ tasks[t].step = "denied"
        /\ UNCHANGED <<session, me, mustChange, view, showDeleted, auditCategory, shown,
                       panel, dialog, form>>
        /\ Requested({}) /\ Proceed(t, tasks, {}, FALSE)

AnswerFirstPassword(t) ==
  /\ tasks[t].h = "submitFirstPassword" /\ Answered(t)
  /\ mustChange' = (mustChange /\ Failed(t))
  /\ me' = IF tasks[t].step = "denied" THEN NoOne ELSE me
  /\ UNCHANGED <<session, view, showDeleted, auditCategory, shown, panel, dialog, form>>
  /\ LET ls == IF tasks[t].step = "ok" THEN {"config"} ELSE {}
     IN Requested(ls) /\ Proceed(t, tasks, ls, TRUE)

\* Whatever the server says, the page signs out, and empties its lists; if it
\* says yes, the browser drops the cookie it has by then.
AnswerLogout(t) ==
  /\ tasks[t].h = "doLogout" /\ Answered(t)
  /\ me' = NoOne /\ mustChange' = FALSE /\ view' = "certs"
  /\ shown' = [l \in Lists |-> IF l = "history" THEN shown[l] ELSE Empty]
  /\ session' = IF tasks[t].step = "ok" THEN NoSession ELSE session
  /\ UNCHANGED <<showDeleted, auditCategory, panel, dialog, form>>
  /\ Requested({}) /\ Proceed(t, tasks, {}, FALSE)

\* A denial there is taken for a wrong current password.
AnswerPassword(t) ==
  /\ tasks[t].h = "submitPassword" /\ Answered(t)
  /\ dialog' = IF tasks[t].step = "ok" /\ dialog.kind = "password" THEN Closed ELSE dialog
  /\ UNCHANGED <<session, me, mustChange, view, showDeleted, auditCategory, shown, panel, form>>
  /\ Requested({}) /\ Proceed(t, tasks, {}, FALSE)

\* A late answer finds the panel as the person has left it.
AnswerReset(t) ==
  /\ tasks[t].h = "requestReset" /\ Answered(t)
  /\ panel' = IF tasks[t].step = "ok" /\ panel = "forgot" THEN "sent" ELSE panel
  /\ UNCHANGED <<session, me, mustChange, view, showDeleted, auditCategory, shown, dialog,
                 form>>
  /\ Requested({}) /\ Proceed(t, tasks, {}, FALSE)

\* All the others: a success closes the dialog of the handler and loads, a
\* denial signs out, any other failure is told.
Answer(t) ==
  /\ tasks[t].h \in DOMAIN Handler \ SessionHandlers
  /\ Answered(t)
  /\ LET H == Handler[tasks[t].h]
         ok == tasks[t].step = "ok"
         ls == IF ok THEN Loadable(H.loads) ELSE {}
     IN /\ dialog' = IF ok /\ dialog.kind = H.closes THEN Closed ELSE dialog
        /\ me' = IF tasks[t].step = "denied" THEN NoOne ELSE me
        /\ UNCHANGED <<session, mustChange, view, showDeleted, auditCategory, shown, panel, form>>
        /\ Requested(ls)
        /\ Proceed(t, tasks, ls, FALSE)

-----------------------------------------------------------------------------
(* Loads *)

\* The server reads the rows.
ServeRead(t, l) ==
  /\ l \in DOMAIN tasks[t].reads /\ tasks[t].reads[l].got = "nothing"
  /\ LET past == "account" \in tasks[t].reads[l].behind
     IN \E got \in
               (IF past \/ (session # NoSession /\ (session.frozen => l = "config"))
                THEN {"rows"} ELSE {})
          \cup (IF past \/ session = NoSession THEN {"denied"} ELSE {}) :
          tasks' = [tasks EXCEPT ![t].reads[l].got = got]
  /\ UNCHANGED <<session, booting, me, mustChange, view, showDeleted, auditCategory,
                 shown, loading, panel, dialog, form, busy, newest>>

\* What loadAll does when a part of it is complete.
NextPart(t, l) ==
  IF ~tasks[t].more THEN {}
  ELSE IF l = "config" THEN {"certs", "renewals", "deletions", "users"} \cap Lists
  ELSE {"audit"} \cap Lists

\* The certificate form is neither open nor holds an item being edited.
NothingEdited == form.editing = NoItem                 \* mutant

FormIsFree == form.editing = NoItem /\ dialog.kind # "form"

\* The rows arrive (or the request fails, or a denial comes, which signs out).  The
\* configuration fills the certificate form with its defaults, unless the form
\* is in use.
Arrive(t, l) ==
  /\ l \in DOMAIN tasks[t].reads
  /\ LET r == tasks[t].reads[l]
         rest == DOMAIN tasks[t].reads \ {l}
         part == IF rest = {} THEN NextPart(t, l) ELSE {}
         rows == r.got = "rows"
     IN /\ me' = IF r.got = "denied" THEN NoOne ELSE me
        /\ form' = IF l = "config" /\ rows /\ FormIsFree
                   THEN Blank ELSE form
        /\ shown' = IF rows /\ l \in Lists
                    THEN [shown EXCEPT ![l] = [of |-> r.of, behind |-> r.behind]] ELSE shown
        /\ UNCHANGED <<session, mustChange, view, showDeleted, auditCategory, panel, dialog>>
        /\ LET ls == part \ (IF me' = "admin" THEN {} ELSE {"audit"})
           IN /\ loading' = ((loading /\ l # "certs") \/ "certs" \in ls)
              /\ newest' = [k \in Lists |-> IF k \in ls THEN FALSE
                                            ELSE IF k = l /\ rows THEN ~r.older ELSE newest[k]]
              /\ IF rest # {}
                 THEN /\ tasks' = [tasks EXCEPT ![t].reads = [k \in rest |-> @[k]]]
                      /\ UNCHANGED <<busy, booting>>
                 ELSE Proceed(t, tasks, ls, l = "config")

-----------------------------------------------------------------------------
(* Specification *)

\* The session runs out, is replaced, or its account is disabled.
SessionEnds ==
  /\ "expiry" \in Faults /\ session # NoSession
  /\ session' = NoSession
  /\ UNCHANGED <<booting, me, mustChange, view, showDeleted, auditCategory, shown, loading,
                 panel, dialog, form, busy, tasks, newest>>

Person ==
  \/ openCreate \/ CloseDialog \/ openForgot \/ closeForgot
  \/ \E c \in Items : openEdit(c)
  \/ \E kind \in DialogKinds : OpenDialog(kind)
  \/ \E t \in Tasks :
       \/ toggleDeleted(t)
       \/ \E v \in Views : switchView(t, v)
       \/ \E key \in Categories : setAuditCategory(t, key)
       \/ \E c \in Items : openHistory(t, c)
       \/ \E h \in Buttons : Click(t, h)

Step(t) ==
  \/ Serve(t)
  \/ AnswerBoot(t) \/ AnswerLogin(t) \/ AnswerFirstPassword(t) \/ AnswerLogout(t)
  \/ AnswerPassword(t) \/ AnswerReset(t) \/ Answer(t)
  \/ \E l \in Lists \cup {"config"} : ServeRead(t, l) \/ Arrive(t, l)

Next == Person \/ (\E t \in Tasks : Step(t)) \/ SessionEnds \/ Reload

Spec == Init /\ [][Next]_vars

-----------------------------------------------------------------------------
(* Properties *)

Steps == {"idle", "sent", "ok", "lost", "denied", "reading"}
Loaders == {"none", "onMounted", "switchView", "toggleDeleted", "setAuditCategory",
            "openHistory"}
Contents == {"nothing", "all", "live", "deleted too", NoItem} \cup Categories \cup Items
Sources == Lists \cup {"config"}
Read == [got : {"nothing", "rows", "denied"}, of : Contents, behind : SUBSET Reasons,
         older : BOOLEAN]
IsTask(k) ==
  /\ DOMAIN k.reads \subseteq Sources
  /\ k \in [h : DOMAIN Handler \cup Loaders, step : Steps, past : BOOLEAN, more : BOOLEAN,
            reads : [DOMAIN k.reads -> Read]]

\* Every piece of the page's state is what app.js can put there.
TypeOK ==
  /\ session \in {NoSession} \cup [role : Roles, frozen : BOOLEAN]
  /\ booting \in BOOLEAN /\ me \in Roles \cup {NoOne} /\ mustChange \in BOOLEAN
  /\ view \in Views /\ showDeleted \in BOOLEAN /\ auditCategory \in Categories
  /\ shown \in [Lists -> [of : Contents, behind : SUBSET Reasons]]
  /\ loading \in BOOLEAN /\ panel \in Panels
  /\ dialog \in [kind : DialogKinds \cup {"none"}, item : Items \cup {NoItem}]
  /\ form \in [of : Items \cup {NoItem, Defaults}, editing : Items \cup {NoItem}]
  /\ busy \subseteq Flags
  /\ DOMAIN tasks = Tasks /\ \A t \in Tasks : IsTask(tasks[t])
  /\ newest \in [Lists -> BOOLEAN]

InFlight(h) == {t \in Tasks : tasks[t].h = h}

Settled == \A t \in Tasks : tasks[t] = Idle

\* The lists that the page shows, or uses for what it shows.
OnScreen ==
  IF Screen # "app" THEN {}
  ELSE {l \in Lists : /\ l = "audit" => view = "audit" /\ isAdmin
                      /\ l = "history" => dialog.kind = "history"}

\* What the code leaves wrong for good: changes whose answer was lost, requests
\* that an approval closed on the side, and the history dialog, which outlives
\* the session that opened it.
Excused(l) == {"unheard", "closing"} \cup (IF l = "history" THEN {"account"} ELSE {})

\* Once nothing is in flight, a list on screen is what its tab, switch or dialog
\* asks for, is the signed-in account's, and has every change made here that the
\* page was told of (app.js reloads after each change only the lists it names).
\* Lists that lost a race or failed to load are left out: newest.
SettledScreenIsRight ==
  Settled => \A l \in OnScreen :
    newest[l] => shown[l].of = Wanted(l) /\ shown[l].behind \subseteq Excused(l)

\* The certificate form never holds the values of anything but the item it will
\* be saved to, whatever arrives while it is open (loadConfig spares a form in
\* use, and submitForm sends to editing).
FormBelongsToItsDialog ==
  dialog.kind = "form" => form.of = dialog.item /\ form.editing = dialog.item

\* Every way out of a handler takes back the flag it set, also when the session
\* ends under it: a button is disabled and the first screen is withheld only while
\* the request they wait for is under way, and a page that has settled does not
\* go on hiding the cards behind the spinner.
BusyMeansInFlight ==
  /\ busy = {FlagOf(tasks[t].h) : t \in Tasks} \ {"none"}
  /\ booting => InFlight("onMounted") # {}
  /\ Settled /\ Screen = "app" => ~loading

\* A request that a disabled button guards is not sent again by the same page
\* before the first one has been answered and its lists reloaded, not even by
\* another account.  The page after a Reload knows nothing of the first one.
NoDoubleSubmit ==
  \A t, u \in Tasks : t # u /\ FlagOf(tasks[t].h) # "none" => FlagOf(tasks[t].h) # FlagOf(tasks[u].h)

=============================================================================
