---------------------------- MODULE MeetLifecycle ----------------------------
(***************************************************************************)
(* The life of a meet: the row of table meets, the organizers' browser     *)
(* tabs that create, edit, publish and move it, and the worker process     *)
(* that moves it when its dates pass or its waitlist is full.              *)
(*                                                                         *)
(* The API checks who asks for a change, never what state the meet is in:  *)
(* PATCH /meets/:id/status stores whatever status it is sent.  What may    *)
(* happen to a meet is decided by the menu of a tab, from the list that    *)
(* tab fetched last, and by the worker, from the ids it SELECTed at the    *)
(* start of a step.  Both may be stale when the request is applied.        *)
(*                                                                         *)
(* Simplifications.  A request of a tab is applied while its dialog is     *)
(* still open, so the time a dialog stays open stands for the latency of   *)
(* the request too; a request that fails leaves the dialog open and        *)
(* changes nothing.  Only the fields of a meet that the menu, the worker   *)
(* and the publish button read are kept.  DELETE /meets/:id has no caller  *)
(* in web/ or worker/ and is left out.                                     *)
(***************************************************************************)
EXTENDS Integers, FiniteSets

CONSTANTS
    Meets,          \* ids of meets, created or not yet
    Tabs,           \* browser tabs of organizers of the organization
    NoDate,         \* NULL in a date column
    MaxTime,        \* bound of the clock
    ArchiveDelay,   \* the 7 days of archiveEndedMeets, in clock ticks
    Times,          \* what an organizer may enter in "Time and location"
    Limits,         \* what an organizer may enter in "Limits"
    MaxWaitlisted,  \* bound of the number of waitlisted attendees
    MaxSkips,       \* MAX_CONSECUTIVE_SKIPS
    MaxCrashes,     \* bound of the worker's crashes
    MaxLost         \* bound of the worker's PATCHes under way at a time

Dates == 0..MaxTime
OptDate == Dates \cup {NoDate}

ASSUME LifecycleConstants ==
    /\ MaxTime \in Nat
    /\ ArchiveDelay \in Nat
    /\ MaxWaitlisted \in Nat
    /\ MaxSkips \in Nat \ {0}
    /\ MaxCrashes \in Nat
    /\ MaxLost \in Nat
    /\ NoDate \notin Dates
    /\ Times \subseteq [start : Dates, end : OptDate]
    /\ Limits \subseteq
         [opening : OptDate, closing : OptDate, waitlistSize : 0..MaxWaitlisted]

Status == {"Draft", "Published", "Open", "Closed", "Cancelled", "Postponed",
           "Completed"}

\* A row of table meets; "Absent" before it is inserted.  A waitlist_size of
\* NULL is 0: the worker's query treats them alike.
MeetRow == [status : Status \cup {"Absent"}, opening : OptDate,
            closing : OptDate, start : OptDate, end : OptDate,
            waitlistSize : 0..MaxWaitlisted]

(***************************************************************************)
(* The worker's steps, in the order runMeetScheduler takes them, and the   *)
(* status each one asks for.                                               *)
(***************************************************************************)
Steps == {"openScheduledMeets", "closeOpenMeets", "closeWhenWaitlistFull",
          "archiveEndedMeets"}
FirstStep == "openScheduledMeets"
LastStep == "archiveEndedMeets"

StepAfter == [openScheduledMeets    |-> "closeOpenMeets",
              closeOpenMeets        |-> "closeWhenWaitlistFull",
              closeWhenWaitlistFull |-> "archiveEndedMeets"]

StepStatus == [openScheduledMeets    |-> "Open",
               closeOpenMeets        |-> "Closed",
               closeWhenWaitlistFull |-> "Closed",
               archiveEndedMeets     |-> "Completed"]

(***************************************************************************)
(* The organizer's menu: in which statuses it offers an action, and the    *)
(* status the action's dialog asks for once confirmed.                     *)
(***************************************************************************)
ShownInWithDraftCancel == [open     |-> {"Published", "Closed"},
                           close    |-> {"Open"},
                           cancel   |-> {"Draft", "Closed", "Open", "Postponed"},
                           postpone |-> {"Closed", "Open"},
                           edit     |-> {"Draft", "Published", "Open", "Postponed"}]

ShownIn == [open     |-> {"Published", "Closed"},
            close    |-> {"Open"},
            cancel   |-> {"Closed", "Open", "Postponed"},
            postpone |-> {"Closed", "Open"},
            edit     |-> {"Draft", "Published", "Open", "Postponed"}]

DialogStatus == [open |-> "Open", close |-> "Closed", cancel |-> "Cancelled",
                 postpone |-> "Postponed"]
DialogActions == DOMAIN DialogStatus

\* A tab shows its list of meets, a confirmation dialog, or the edit modal.
\* Of the modal's form only what the publish button reads is kept: whether
\* it takes the meet for a draft or a postponed one, and which dates it has.
\* A modal that created its meet is not linked to the meet's query and never
\* refetches it.
ListView == [view |-> "list"]
ConfirmView == [view : {"confirm"}, meet : Meets, action : DialogActions]
EditView == [view : {"edit"}, meet : Meets, linked : BOOLEAN,
             publishable : BOOLEAN, hasOpening : BOOLEAN,
             hasClosing : BOOLEAN, start : OptDate]

\* handlePublish sends up to three PATCHes, one after the other, from the
\* form as it was when the button was pressed; the modal may be closed
\* meanwhile.  One tab runs one at a time: isSubmitting outlives the modal.
NotPublishing == [next |-> "nothing"]
Publication == [next : {"opening", "closing", "status"}, meet : Meets,
                hasClosing : BOOLEAN, start : Dates]

VARIABLES
    meets,      \* table meets
    waitlisted, \* waitlisted[m]: attendees of m with status waitlisted
    now,        \* the clock
    page,       \* page[t][m]: status of m in the list tab t fetched last
    tab,        \* tab[t]: what tab t shows
    publishing, \* publishing[t]: the handlePublish tab t is running
    worker,     \* the worker: step, ids still to PATCH, ticks skipped
    lost,       \* PATCHes whose answer the worker gave up, not yet applied
    crashes,    \* how often the worker died
    undisturbed \* history: nothing but the worker's answered PATCHes has
                \* changed anything since its pass began

vars == <<meets, waitlisted, now, page, tab, publishing, worker, lost,
          crashes, undisturbed>>
tabVars == <<page, tab, publishing>>
workerVars == <<worker, lost, crashes>>

TypeOK ==
    /\ meets \in [Meets -> MeetRow]
    /\ waitlisted \in [Meets -> 0..MaxWaitlisted]
    /\ now \in Dates
    /\ page \in [Tabs -> [Meets -> Status \cup {"Absent"}]]
    /\ tab \in [Tabs -> {ListView} \cup ConfirmView \cup EditView]
    /\ publishing \in [Tabs -> {NotPublishing} \cup Publication]
    /\ worker \in [pc : Steps \cup {"idle", "down"}, ids : SUBSET Meets,
                   skips : 0..(MaxSkips - 1)]
    /\ lost \subseteq [meet : Meets, status : {StepStatus[s] : s \in Steps}]
    /\ crashes \in 0..MaxCrashes
    /\ undisturbed \in BOOLEAN

NoMeet == [status |-> "Absent", opening |-> NoDate, closing |-> NoDate,
           start |-> NoDate, end |-> NoDate, waitlistSize |-> 0]

IdleWorker == [pc |-> "idle", ids |-> {}, skips |-> 0]

Init ==
    /\ meets = [m \in Meets |-> NoMeet]
    /\ waitlisted = [m \in Meets |-> 0]
    /\ now = 0
    /\ page = [t \in Tabs |-> [m \in Meets |-> "Absent"]]
    /\ tab = [t \in Tabs |-> ListView]
    /\ publishing = [t \in Tabs |-> NotPublishing]
    /\ worker = IdleWorker
    /\ lost = {}
    /\ crashes = 0
    /\ undisturbed = FALSE

-----------------------------------------------------------------------------
(***************************************************************************)
(* Tabs                                                                    *)
(***************************************************************************)

\* PATCH /meets/:id/status: an unconditional UPDATE of status_id.
updateStatus(m, s) == meets' = [meets EXCEPT ![m].status = s]

FetchedList == [m \in Meets |-> meets[m].status]

\* The list's query is answered: on mount, on focus, or some time after a
\* mutation of this tab invalidated it.
LoadList(t) ==
    /\ page' = [page EXCEPT ![t] = FetchedList]
    /\ UNCHANGED <<meets, waitlisted, now, tab, publishing, workerVars,
                   undisturbed>>

\* The menu of meet m opens the dialog of an action.
ChooseAction(t, m, a) ==
    /\ tab[t] = ListView
    /\ page[t][m] \in ShownIn[a]
    /\ tab' = [tab EXCEPT
                 ![t] = [view |-> "confirm", meet |-> m, action |-> a]]
    /\ UNCHANGED <<meets, waitlisted, now, page, publishing, workerVars,
                   undisturbed>>

ConfirmAction(t) ==
    /\ tab[t].view = "confirm"
    /\ updateStatus(tab[t].meet, DialogStatus[tab[t].action])
    /\ tab' = [tab EXCEPT ![t] = ListView]
    /\ undisturbed' = FALSE
    /\ UNCHANGED <<waitlisted, now, page, publishing, workerVars>>

\* A dialog or the modal is closed without asking for anything.
Dismiss(t) ==
    /\ tab[t] # ListView
    /\ tab' = [tab EXCEPT ![t] = ListView]
    /\ UNCHANGED <<meets, waitlisted, now, page, publishing, workerVars,
                   undisturbed>>

\* The page is reloaded: what it was doing is gone, the list is fetched.
Reload(t) ==
    /\ tab' = [tab EXCEPT ![t] = ListView]
    /\ publishing' = [publishing EXCEPT ![t] = NotPublishing]
    /\ page' = [page EXCEPT ![t] = FetchedList]
    /\ UNCHANGED <<meets, waitlisted, now, workerVars, undisturbed>>

\* The first step of the create modal inserts a draft without dates.
Create(t, m) ==
    /\ tab[t] = ListView
    /\ publishing[t] = NotPublishing
    /\ meets[m].status = "Absent"
    /\ meets' = [meets EXCEPT ![m] = [NoMeet EXCEPT !.status = "Draft"]]
    /\ tab' = [tab EXCEPT
                 ![t] = [view |-> "edit", meet |-> m, linked |-> FALSE,
                         publishable |-> TRUE, hasOpening |-> FALSE,
                         hasClosing |-> FALSE, start |-> NoDate]]
    /\ undisturbed' = FALSE
    /\ UNCHANGED <<waitlisted, now, page, publishing, workerVars>>

\* mapMeetToState: the form of the meet as fetched now.
FormOf(m) ==
    [view |-> "edit", meet |-> m, linked |-> TRUE,
     publishable |-> meets[m].status \in {"Draft", "Postponed"},
     hasOpening |-> meets[m].opening # NoDate,
     hasClosing |-> meets[m].closing # NoDate,
     start |-> meets[m].start]

OpenEdit(t, m) ==
    /\ tab[t] = ListView
    /\ page[t][m] \in ShownIn["edit"]
    /\ tab' = [tab EXCEPT ![t] = FormOf(m)]
    /\ UNCHANGED <<meets, waitlisted, now, page, publishing, workerVars,
                   undisturbed>>

\* The query of a linked modal is answered again, on focus or some time
\* after a save of this tab invalidated it; its data replace the form.
Refetch(t) ==
    /\ tab[t].view = "edit" /\ tab[t].linked
    /\ tab' = [tab EXCEPT ![t] = FormOf(tab[t].meet)]
    /\ UNCHANGED <<meets, waitlisted, now, page, publishing, workerVars,
                   undisturbed>>

\* A modal whose buttons are enabled.
Editing(t) == tab[t].view = "edit" /\ publishing[t] = NotPublishing

\* Step "Time and location" is saved.  An end that is missing or before the
\* start is stored as the start.
EndOf(x) == IF x.end = NoDate THEN x.start
            ELSE IF x.end < x.start THEN x.start ELSE x.end

SaveTimes(t, x) ==
    LET m == tab[t].meet IN
    /\ Editing(t)
    /\ meets' = [meets EXCEPT
                   ![m] = [@ EXCEPT !.start = x.start, !.end = EndOf(x)]]
    /\ tab' = [tab EXCEPT ![t].start = x.start]
    /\ undisturbed' = FALSE
    /\ UNCHANGED <<waitlisted, now, page, publishing, workerVars>>

\* Step "Limits" is saved: a date left blank is stored as NULL.
SaveLimits(t, x) ==
    LET m == tab[t].meet IN
    /\ Editing(t)
    /\ meets' = [meets EXCEPT
                   ![m] = [@ EXCEPT !.opening = x.opening,
                                    !.closing = x.closing,
                                    !.waitlistSize = x.waitlistSize]]
    /\ tab' = [tab EXCEPT
                 ![t] = [@ EXCEPT !.hasOpening = (x.opening # NoDate),
                                  !.hasClosing = (x.closing # NoDate)]]
    /\ undisturbed' = FALSE
    /\ UNCHANGED <<waitlisted, now, page, publishing, workerVars>>

AfterOpeningAtOnce(hasClosing) == "status"

AfterOpening(hasClosing) == IF hasClosing THEN "status" ELSE "closing"

PublishWithoutStart(t) ==
    /\ Editing(t)
    /\ tab[t].publishable
    /\ publishing' =
         [publishing EXCEPT
            ![t] = [next |-> IF tab[t].hasOpening
                             THEN AfterOpening(tab[t].hasClosing)
                             ELSE "opening",
                    meet |-> tab[t].meet,
                    hasClosing |-> tab[t].hasClosing,
                    start |-> tab[t].start]]
    /\ UNCHANGED <<meets, waitlisted, now, page, tab, workerVars, undisturbed>>

\* The button of the last step of a draft or postponed meet's modal: enabled
\* when the form is complete, and the start is what it may lack.
Publish(t) ==
    /\ Editing(t)
    /\ tab[t].publishable
    /\ tab[t].start # NoDate
    /\ publishing' =
         [publishing EXCEPT
            ![t] = [next |-> IF tab[t].hasOpening
                             THEN AfterOpening(tab[t].hasClosing)
                             ELSE "opening",
                    meet |-> tab[t].meet,
                    hasClosing |-> tab[t].hasClosing,
                    start |-> tab[t].start]]
    /\ UNCHANGED <<meets, waitlisted, now, page, tab, workerVars, undisturbed>>

\* Blank dates are filled in first: the opening with now, the closing with
\* the start.
PublishOpening(t) ==
    LET p == publishing[t] IN
    /\ p.next = "opening"
    /\ meets' = [meets EXCEPT ![p.meet].opening = now]
    /\ publishing' =
         [publishing EXCEPT ![t].next = AfterOpening(p.hasClosing)]
    /\ undisturbed' = FALSE
    /\ UNCHANGED <<waitlisted, now, page, tab, workerVars>>

PublishClosing(t) ==
    LET p == publishing[t] IN
    /\ p.next = "closing"
    /\ meets' = [meets EXCEPT ![p.meet].closing = p.start]
    /\ publishing' = [publishing EXCEPT ![t].next = "status"]
    /\ undisturbed' = FALSE
    /\ UNCHANGED <<waitlisted, now, page, tab, workerVars>>

\* Then the status; whatever the tab shows by now is closed.
PublishStatus(t) ==
    LET p == publishing[t] IN
    /\ p.next = "status"
    /\ updateStatus(p.meet, "Published")
    /\ publishing' = [publishing EXCEPT ![t] = NotPublishing]
    /\ tab' = [tab EXCEPT ![t] = ListView]
    /\ undisturbed' = FALSE
    /\ UNCHANGED <<waitlisted, now, page, workerVars>>

\* One of the PATCHes fails: the rest are not sent, what was saved stays.
PublishFails(t) ==
    /\ publishing[t] # NotPublishing
    /\ publishing' = [publishing EXCEPT ![t] = NotPublishing]
    /\ UNCHANGED <<meets, waitlisted, now, page, tab, workerVars, undisturbed>>

-----------------------------------------------------------------------------
(***************************************************************************)
(* The worker                                                              *)
(***************************************************************************)
Passed(d) == d # NoDate /\ d <= now

DueThoughCancelled(step, m) ==
    LET x == meets[m] IN
    \/ /\ step = "openScheduledMeets"
       /\ x.status = "Published" /\ Passed(x.opening)
    \/ /\ step = "closeOpenMeets"
       /\ x.status = "Open" /\ Passed(x.closing)
    \/ /\ step = "closeWhenWaitlistFull"
       /\ x.status = "Open" /\ x.waitlistSize > 0
       /\ waitlisted[m] >= x.waitlistSize
    \/ /\ step = "archiveEndedMeets"
       /\ x.status \in {"Open", "Closed", "Published", "Cancelled"}
       /\ x.end # NoDate /\ x.end + ArchiveDelay <= now

DueUnlessPublished(step, m) ==
    LET x == meets[m] IN
    \/ /\ step = "openScheduledMeets"
       /\ x.status = "Published" /\ Passed(x.opening)
    \/ /\ step = "closeOpenMeets"
       /\ x.status = "Open" /\ Passed(x.closing)
    \/ /\ step = "closeWhenWaitlistFull"
       /\ x.status = "Open" /\ x.waitlistSize > 0
       /\ waitlisted[m] >= x.waitlistSize
    \/ /\ step = "archiveEndedMeets"
       /\ x.status \in {"Open", "Closed"}
       /\ x.end # NoDate /\ x.end + ArchiveDelay <= now

\* The WHERE clause of each step's query.
Due(step, m) ==
    LET x == meets[m] IN
    \/ /\ step = "openScheduledMeets"
       /\ x.status = "Published" /\ Passed(x.opening)
    \/ /\ step = "closeOpenMeets"
       /\ x.status = "Open" /\ Passed(x.closing)
    \/ /\ step = "closeWhenWaitlistFull"
       /\ x.status = "Open" /\ x.waitlistSize > 0
       /\ waitlisted[m] >= x.waitlistSize
    \/ /\ step = "archiveEndedMeets"
       /\ x.status \in {"Open", "Closed", "Published"}
       /\ x.end # NoDate /\ x.end + ArchiveDelay <= now

\* The worker begins a step: it SELECTs the ids it will PATCH.
Enter(step) ==
    worker' = [worker EXCEPT !.pc = step,
                             !.ids = {m \in Meets : Due(step, m)}]

Running == worker.pc \in Steps

\* A tick finds no pass running and begins one.
StartPass ==
    /\ worker.pc = "idle"
    /\ worker' = [pc |-> FirstStep, skips |-> 0,
                  ids |-> {m \in Meets : Due(FirstStep, m)}]
    /\ undisturbed' = TRUE
    /\ UNCHANGED <<meets, waitlisted, now, tabVars, lost, crashes>>

NextStepUnawaited ==
    /\ Running /\ worker.pc # LastStep
    /\ Enter(StepAfter[worker.pc])
    /\ UNCHANGED <<meets, waitlisted, now, tabVars, lost, crashes, undisturbed>>

\* All PATCHes of a step are answered: the next step SELECTs.
NextStep ==
    /\ Running /\ worker.pc # LastStep
    /\ worker.ids = {}
    /\ Enter(StepAfter[worker.pc])
    /\ UNCHANGED <<meets, waitlisted, now, tabVars, lost, crashes, undisturbed>>

EndPassStillRunning ==
    /\ worker.pc = LastStep
    /\ worker.ids = {}
    /\ UNCHANGED vars

\* isRunning is reset.
EndPass ==
    /\ worker.pc = LastStep
    /\ worker.ids = {}
    /\ worker' = [worker EXCEPT !.pc = "idle"]
    /\ UNCHANGED <<meets, waitlisted, now, tabVars, lost, crashes, undisturbed>>

\* The step's PATCH of one id is applied and answered.
Patch(step, m) ==
    /\ worker.pc = step /\ m \in worker.ids
    /\ updateStatus(m, StepStatus[step])
    /\ worker' = [worker EXCEPT !.ids = @ \ {m}]
    /\ UNCHANGED <<waitlisted, now, tabVars, lost, crashes, undisturbed>>

\* The worker stops waiting for the PATCH of one id: the API has not applied
\* it and never will, or may still do so.
GiveUp(m) ==
    \/ UNCHANGED lost
    \/ /\ Cardinality(lost) < MaxLost
       /\ lost' = lost \cup {[meet |-> m, status |-> StepStatus[worker.pc]]}

\* The PATCH of one id fails, or its answer does not come: the worker goes on.
PatchFails(m) ==
    /\ Running /\ m \in worker.ids
    /\ worker' = [worker EXCEPT !.ids = @ \ {m}]
    /\ GiveUp(m)
    /\ undisturbed' = FALSE
    /\ UNCHANGED <<meets, waitlisted, now, tabVars, crashes>>

\* The process exits; it may be waiting for a PATCH, of which ids are sent one
\* at a time in the order the query returned them.
Dies ==
    /\ crashes < MaxCrashes
    /\ crashes' = crashes + 1
    /\ worker' = [IdleWorker EXCEPT !.pc = "down"]
    /\ UNCHANGED lost \/ (Running /\ \E m \in worker.ids : GiveUp(m))
    /\ undisturbed' = FALSE
    /\ UNCHANGED <<meets, waitlisted, now, tabVars>>

\* A failed query, a lost database, a kill: any error of a pass is rethrown.
Crash == worker.pc # "down" /\ Dies

\* A tick finds a pass running.  The last skip it tolerates ends the process.
SkipTick ==
    /\ Running
    /\ worker.skips + 1 < MaxSkips
    /\ worker' = [worker EXCEPT !.skips = @ + 1]
    /\ UNCHANGED <<meets, waitlisted, now, tabVars, lost, crashes, undisturbed>>

SkipTooMany == Running /\ worker.skips + 1 = MaxSkips /\ Dies

\* The container is started again.
Restart ==
    /\ worker.pc = "down"
    /\ worker' = IdleWorker
    /\ UNCHANGED <<meets, waitlisted, now, tabVars, lost, crashes, undisturbed>>

\* The API applies a PATCH the worker gave up, or never does.
LostApplied(r) ==
    /\ r \in lost
    /\ updateStatus(r.meet, r.status)
    /\ lost' = lost \ {r}
    /\ undisturbed' = FALSE
    /\ UNCHANGED <<waitlisted, now, tabVars, worker, crashes>>

LostDropped(r) ==
    /\ r \in lost
    /\ lost' = lost \ {r}
    /\ UNCHANGED <<meets, waitlisted, now, tabVars, worker, crashes,
                   undisturbed>>

-----------------------------------------------------------------------------
\* Attendees are waitlisted and taken off the waitlist.
WaitlistChanges(m) ==
    /\ meets[m].status # "Absent"
    /\ waitlisted' \in {[waitlisted EXCEPT ![m] = n] : n \in 0..MaxWaitlisted}
    /\ undisturbed' = FALSE
    /\ UNCHANGED <<meets, now, tabVars, workerVars>>

Clock ==
    /\ now < MaxTime
    /\ now' = now + 1
    /\ undisturbed' = FALSE
    /\ UNCHANGED <<meets, waitlisted, tabVars, workerVars>>

PublishStep(t) == PublishOpening(t) \/ PublishClosing(t) \/ PublishStatus(t)

TabStep(t) ==
    \/ LoadList(t) \/ ConfirmAction(t) \/ Dismiss(t) \/ Reload(t)
    \/ \E m \in Meets : Create(t, m) \/ OpenEdit(t, m)
    \/ \E m \in Meets, a \in DialogActions : ChooseAction(t, m, a)
    \/ Refetch(t)
    \/ \E x \in Times : SaveTimes(t, x)
    \/ \E x \in Limits : SaveLimits(t, x)
    \/ Publish(t) \/ PublishStep(t) \/ PublishFails(t)

WorkerStep ==
    \/ StartPass \/ NextStep \/ EndPass
    \/ \E step \in Steps, m \in Meets : Patch(step, m)
    \/ \E m \in Meets : PatchFails(m)
    \/ Crash \/ SkipTick \/ SkipTooMany \/ Restart
    \/ \E r \in lost : LostApplied(r) \/ LostDropped(r)

Next ==
    \/ \E t \in Tabs : TabStep(t)
    \/ WorkerStep
    \/ \E m \in Meets : WaitlistChanges(m)
    \/ Clock

Spec == Init /\ [][Next]_vars

\* Time passes, setInterval ticks, a stopped container is restarted, and an
\* API that is asked again and again answers at last.  Nothing is asked of
\* the organizers.
Fairness ==
    /\ WF_vars(Clock)
    /\ WF_vars(StartPass) /\ WF_vars(NextStep) /\ WF_vars(EndPass)
    /\ WF_vars(Restart)
    /\ \A m \in Meets :
         /\ SF_vars(\E step \in Steps \ {LastStep} : Patch(step, m))
         /\ SF_vars(Patch(LastStep, m))

FairSpec == Spec /\ Fairness

-----------------------------------------------------------------------------
(***************************************************************************)
(* Properties                                                              *)
(***************************************************************************)

\* Somebody may still change the status of m from what was read earlier: a
\* tab whose list, dialog, modal or publication concerns m, the worker's
\* list of ids, or a PATCH under way.
Stale(m) ==
    \/ \E t \in Tabs :
         \/ \E a \in DOMAIN ShownIn : page[t][m] \in ShownIn[a]
         \/ tab[t] # ListView /\ tab[t].meet = m
         \/ publishing[t] # NotPublishing /\ publishing[t].meet = m
    \/ m \in worker.ids
    \/ \E r \in lost : r.meet = m

Settled(m) == meets[m].status \in {"Cancelled", "Completed"} /\ ~Stale(m)

\* A cancelled or completed meet stays so once every list, dialog and request
\* that was about it before is gone: no step of the menu or of the worker
\* takes a meet up again from a fresh view.
SettledForever ==
    [][\A m \in Meets : Settled(m) => Settled(m)']_vars

\* A draft leaves that status by being published and in no other way, however
\* stale the tabs and however many PATCHes were lost.
DraftOnlyPublished ==
    [][\A m \in Meets :
         /\ meets[m].status = "Absent" =>
              meets'[m].status \in {"Absent", "Draft"}
         /\ meets[m].status = "Draft" =>
              meets'[m].status \in {"Draft", "Published"}]_vars

\* A pass during which nothing else happened leaves nothing to do: one pass
\* takes a meet through every change that is due, because a step never makes
\* work for an earlier one.
QuietPassSettles ==
    worker.pc = "idle" /\ undisturbed =>
        \A step \in Steps, m \in Meets : ~Due(step, m)

\* With one tab, a meet is published with both dates set, so that the worker
\* opens and closes it: the blank ones were filled in before the status was.
PublishedWithDates ==
    [][\A m \in Meets :
         /\ meets[m].status # "Published"
         /\ meets'[m].status = "Published"
         => meets[m].opening # NoDate /\ meets[m].closing # NoDate]_vars

\* What is due is done, whatever organizers do meanwhile, across failed
\* PATCHes and crashes of the worker: nothing stays due for ever.
DueIsServed == \A step \in Steps, m \in Meets : []<>~Due(step, m)

Live(m) ==
    /\ meets[m].status \in {"Published", "Open", "Closed"}
    /\ meets[m].end # NoDate

\* A published meet with an end does not stay published, open or closed for
\* ever: it is archived if nobody cancels or postpones it.
NoMeetStaysLive == \A m \in Meets : []<>~Live(m)

(***************************************************************************)
(* What the dialogs and forms promise and the system does not keep         *)
(***************************************************************************)

\* ConfirmCancelMeetDialog: "Cancelling will prevent any new submissions."
\* A cancelled meet is not opened for submissions, unless an organizer
\* confirms in a dialog that it shall be.
CancellingPreventsSubmissions ==
    [][\A m \in Meets :
         meets[m].status = "Cancelled" /\ meets'[m].status = "Open" =>
           \E t \in Tabs :
             /\ tab[t].view = "confirm"
             /\ tab[t].meet = m /\ tab[t].action = "open"]_vars

\* LimitsStep, of the closing date: "Leave blank to close when meet starts".
\* After a pass during which nothing else happened no meet is open without a
\* closing date whose start has passed.
BlankClosesAtStart ==
    worker.pc = "idle" /\ undisturbed =>
        \A m \in Meets :
            ~ /\ meets[m].status = "Open"
              /\ meets[m].closing = NoDate /\ Passed(meets[m].start)

=============================================================================
