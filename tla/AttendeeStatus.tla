---------------------------- MODULE AttendeeStatus ----------------------------
(***************************************************************************)
(* The statuses of one meet's attendees and the mails about them: the      *)
(* organizers' pages that decide and notify, the pages that check people   *)
(* in, and the applicants who withdraw or edit their application.          *)
(*                                                                         *)
(* An organizer's page decides from the list it fetched last.  As long as  *)
(* the meet is open and the attendee has not been notified, a decision is  *)
(* one PATCH of the status.  Otherwise a dialog announces a mail, and the  *)
(* page first posts the mail, which marks the attendee as notified, and    *)
(* then the PATCH.  The API stores whatever status it is sent.             *)
(*                                                                         *)
(* Simplifications.  A page runs one handler at a time: several clicks on  *)
(* one page are clicks on pages with the same list.  Closing the page      *)
(* "Manage attendees" and opening it again shows the list it had until it  *)
(* is fetched again, so a page is never away.  The check-in of one person  *)
(* and a withdrawal are applied while their page is as it was when the     *)
(* button was pressed.  Every attendee has an email, as the sign-up form   *)
(* requires; the organizer's own row, which no decision is about, and      *)
(* messages that do not mark anybody as notified are left out.  Of a POST  *)
(* that fails, the mails that still go out do so before.  The meet's       *)
(* status is not kept: it changes at any time, and so does what a page     *)
(* knows of it.                                                            *)
(***************************************************************************)

CONSTANTS
    Attendees,   \* the applicants' rows
    Organizers,  \* organizers' pages
    Scanners,    \* check-in pages
    Decisions,   \* the statuses organizers decide on
    Nobody       \* no attendee

Standings == {"confirmed", "waitlisted", "rejected"}

ASSUME AttendeeStatusConstants ==
    /\ Decisions \subseteq Standings
    /\ Nobody \notin Attendees

VARIABLES
    attendees, \* table meet_attendees
    told,      \* history: what the last mail to an attendee said
    page,      \* page[o]: an organizer's page and the handler it runs
    scanner,   \* scanner[s]: the list of a check-in page
    editing,   \* attendees whose edit has read that they withdrew
    mistaken   \* history: attendees somebody acted on from a list that was
               \* no longer true, while another handler did, or in a handler
               \* that failed half-way

vars == <<attendees, told, page, scanner, editing, mistaken>>

Status == Standings \cup {"pending", "cancelled", "checked-in"}

\* "responded" is responded_at # NULL: the attendee counts as notified.
Row == [status : Status, responded : BOOLEAN]

\* What a mail says of an attendee's status; "message" is a mail an organizer
\* wrote himself.
Told == Standings \cup {"message", "nothing"}
Mails == [Attendees -> Told]
NoMails == [a \in Attendees |-> "nothing"]

\* What the templates and default messages say of a status.
Standing(status) ==
    CASE status = "checked-in" -> "confirmed"
      [] status = "cancelled"  -> "rejected"
      [] status = "pending"    -> "nothing"
      [] OTHER                 -> status

\* A page shows its list, the dialog that announces the mail about a decision
\* (on "attendee", for "status"), or the one that offers to notify those who
\* were not ("pending").  "step" is where its handler is; the mails of a POST
\* are "mails", of which "sent" are out, and "groups" are the statuses
\* still to be posted about.
Page == [view : {"list", "dialog", "notify"},
         step : {"idle", "listing", "grouping", "mailing", "patching",
                 "refetching"},
         list : [Attendees -> Row],
         attendee : Attendees \cup {Nobody},
         status : Standings \cup {"pending"},
         pending : [Attendees -> Standings \cup {"nothing"}],
         groups : SUBSET Standings,
         mails : Mails, sent : SUBSET Attendees]

Scanner == [accepted : SUBSET Attendees, checked : SUBSET Attendees]

TypeOK ==
    /\ attendees \in [Attendees -> Row]
    /\ told \in Mails
    /\ page \in [Organizers -> Page]
    /\ scanner \in [Scanners -> Scanner]
    /\ editing \subseteq Attendees
    /\ mistaken \subseteq Attendees

Applied == [status |-> "pending", responded |-> FALSE]

Init ==
    /\ attendees = [a \in Attendees |-> Applied]
    /\ told = NoMails
    /\ page = [o \in Organizers |->
                 [view |-> "list", step |-> "idle", list |-> attendees,
                  attendee |-> Nobody, status |-> "pending",
                  pending |-> NoMails, groups |-> {},
                  mails |-> NoMails, sent |-> {}]]
    /\ scanner = [s \in Scanners |-> [accepted |-> {}, checked |-> {}]]
    /\ editing = {}
    /\ mistaken = {}

Idle(o, view) == page[o].view = view /\ page[o].step = "idle"

\* The attendees a handler under way is about.
Concerned(o) ==
    IF page[o].step \in {"idle", "listing", "refetching"} THEN {}
    ELSE {a \in Attendees : \/ page[o].attendee = a
                            \/ page[o].pending[a] # "nothing"
                            \/ page[o].mails[a] # "nothing"}

Handled == UNION {Concerned(o) : o \in Organizers}

\* Those about whom the mails say what is not so.
Wrong(mails) ==
    {a \in Attendees : /\ mails[a] \in Standings
                       /\ mails[a] # Standing(attendees[a].status)}

Recipients(mails) == {a \in Attendees : mails[a] # "nothing"}

-----------------------------------------------------------------------------
(***************************************************************************)
(* An organizer's page                                                     *)
(***************************************************************************)

\* The list of attendees is fetched again.
RefetchList(o) ==
    /\ page' = [page EXCEPT ![o].list = attendees]
    /\ UNCHANGED <<attendees, told, scanner, editing, mistaken>>

AskedIfClosed(o, a, closed) == closed

\* The dialog announces a mail if the meet, as far as the page knows, is
\* closed, or its list says that the attendee was notified.
Asked(o, a, closed) == closed \/ page[o].list[a].responded

\* A button is pressed: those of people who are checked in or withdrew show
\* no decisions.
handleUpdateStatus(o, a, s, closed) ==
    LET ask == Asked(o, a, closed)
        seen == page[o].list[a] IN
    /\ Idle(o, "list")
    /\ seen.status \notin {"checked-in", "cancelled", s}
    /\ page' = [page EXCEPT
                  ![o] = [@ EXCEPT
                            !.attendee = a, !.status = s,
                            !.view = IF ask THEN "dialog" ELSE "list",
                            !.step = IF ask THEN "idle" ELSE "patching"]]
    /\ mistaken' = IF /\ ~ask
                      /\ \/ a \in Handled
                         \/ attendees[a].responded # seen.responded
                   THEN mistaken \cup {a} ELSE mistaken
    /\ UNCHANGED <<attendees, told, scanner, editing>>

\* A POST of mails starts; those it should not have been about are mistaken.
Post(o, view, mails) ==
    /\ page' = [page EXCEPT ![o] = [@ EXCEPT !.view = view, !.step = "mailing",
                                             !.mails = mails, !.sent = {}]]
    /\ UNCHANGED <<attendees, told, scanner, editing>>

\* The dialog is confirmed: the mail first, then the PATCH.
ConfirmDialog(o) ==
    LET a == page[o].attendee IN
    /\ Idle(o, "dialog")
    /\ Post(o, "dialog", [NoMails EXCEPT ![a] = page[o].status])
    /\ mistaken' = mistaken \cup (Handled \cap {a})

CancelDialog(o) ==
    /\ Idle(o, "dialog")
    /\ page' = [page EXCEPT ![o] = [@ EXCEPT !.view = "list",
                                             !.attendee = Nobody,
                                             !.status = "pending"]]
    /\ UNCHANGED <<attendees, told, scanner, editing, mistaken>>

UnnotifiedWithPending(list) ==
    [a \in Attendees |-> IF list[a].responded THEN "nothing"
                         ELSE IF list[a].status = "pending" THEN "pending"
                         ELSE Standing(list[a].status)]

\* getUnnotifiedAttendees, with what they would be told.
Unnotified(list) ==
    [a \in Attendees |-> IF list[a].responded THEN "nothing"
                         ELSE Standing(list[a].status)]

\* The page is to be closed, and some were not notified.
handleRequestClose(o) ==
    LET pending == Unnotified(page[o].list) IN
    /\ Idle(o, "list")
    /\ pending # NoMails
    /\ page' = [page EXCEPT ![o] = [@ EXCEPT !.view = "notify",
                                             !.pending = pending]]
    /\ UNCHANGED <<attendees, told, scanner, editing, mistaken>>

handleNotifyBeforeCloseLater(o) ==
    /\ Idle(o, "notify")
    /\ page' = [page EXCEPT ![o] = [@ EXCEPT !.view = "list",
                                             !.pending = NoMails]]
    /\ UNCHANGED <<attendees, told, scanner, editing, mistaken>>

\* They are notified, those with the same status in one POST, one POST after
\* the other, from the list as it was when the dialog opened.
handleNotifyBeforeCloseNow(o) ==
    LET pending == page[o].pending IN
    /\ Idle(o, "notify")
    /\ page' = [page EXCEPT
                  ![o] = [@ EXCEPT
                            !.step = "grouping",
                            !.groups = {pending[a] : a \in Recipients(pending)}]]
    /\ mistaken' = mistaken \cup Wrong(pending)
                            \cup (Handled \cap Recipients(pending))
    /\ UNCHANGED <<attendees, told, scanner, editing>>

Group(pending, status) ==
    [a \in Attendees |-> IF pending[a] = status THEN status ELSE "nothing"]

NextGroup(o, status) ==
    /\ page[o].step = "grouping" /\ status \in page[o].groups
    /\ page' = [page EXCEPT
                  ![o] = [@ EXCEPT !.step = "mailing", !.sent = {},
                                   !.groups = page[o].groups \ {status},
                                   !.mails = Group(page[o].pending, status)]]
    /\ UNCHANGED <<attendees, told, scanner, editing, mistaken>>

AllGroupsDone(o) ==
    /\ page[o].step = "grouping" /\ page[o].groups = {}
    /\ page' = [page EXCEPT ![o] = [@ EXCEPT !.view = "list",
                                             !.step = "refetching",
                                             !.pending = NoMails]]
    /\ UNCHANGED <<attendees, told, scanner, editing, mistaken>>

\* A message is sent from the list and marks its recipients as notified: one
\* attendee or the groups with some statuses.  "Auto" fills in what the list
\* says of the status, if there is one to be told.
Message(o, to, text) ==
    LET list == page[o].list IN
    /\ Idle(o, "list")
    /\ to # {}
    /\ \/ \E a \in Attendees :
            to = {a} /\ text \in {"message", list[a].status} \cap Told
       \/ \E groups \in SUBSET Standings :
            /\ to = {a \in Attendees : Standing(list[a].status) \in groups}
            /\ text = "message" \/ groups = {text}
    /\ LET mails == [a \in Attendees |-> IF a \in to THEN text ELSE "nothing"]
       IN /\ Post(o, "list", mails)
          /\ mistaken' = mistaken \cup Wrong(mails) \cup (Handled \cap to)

\* ConfirmCloseMeetDialog: the meet is closed and everybody is mailed his
\* status by the same request, unless that was not asked for.
CloseMeet(o) ==
    /\ Idle(o, "list")
    /\ page' = [page EXCEPT ![o].step = "listing"]
    /\ UNCHANGED <<attendees, told, scanner, editing, mistaken>>

\* notifyAttendeesOfStatus reads the attendees.
ListAttendees(o) ==
    LET mails == [a \in Attendees |-> Standing(attendees[a].status)] IN
    /\ page[o].step = "listing"
    /\ Post(o, "list", mails)
    /\ mistaken' = mistaken \cup (Handled \cap Recipients(mails))

-----------------------------------------------------------------------------
(***************************************************************************)
(* The requests of an organizer's page                                     *)
(***************************************************************************)

SendMail(o, a) ==
    /\ page[o].step = "mailing"
    /\ a \in Recipients(page[o].mails) \ page[o].sent
    /\ told' = [told EXCEPT ![a] = page[o].mails[a]]
    /\ page' = [page EXCEPT ![o].sent = @ \cup {a}]
    /\ UNCHANGED <<attendees, scanner, editing, mistaken>>

\* updateAttendeesNotified; the page's list is not fetched again.
Marked(o) ==
    LET view == page[o].view IN
    /\ attendees' = [a \in Attendees |->
                       IF a \in Recipients(page[o].mails)
                       THEN [attendees[a] EXCEPT !.responded = TRUE]
                       ELSE attendees[a]]
    /\ page' = [page EXCEPT
                  ![o] = [@ EXCEPT
                            !.step = CASE view = "dialog" -> "patching"
                                       [] view = "notify" -> "grouping"
                                       [] OTHER           -> "idle",
                            !.mails = NoMails, !.sent = {}]]
    /\ UNCHANGED <<told, scanner, editing, mistaken>>

MarkAfterFirst(o) ==
    /\ page[o].step = "mailing"
    /\ page[o].sent # {}
    /\ Marked(o)

\* All the mails of the POST are out.
Mark(o) ==
    /\ page[o].step = "mailing"
    /\ Recipients(page[o].mails) \subseteq page[o].sent
    /\ Marked(o)

\* updateAttendee stores the status; the dialog closes and the list is
\* fetched.
Patch(o) ==
    /\ page[o].step = "patching"
    /\ attendees' = [attendees EXCEPT
                       ![page[o].attendee].status = page[o].status]
    /\ page' = [page EXCEPT ![o] = [@ EXCEPT !.view = "list",
                                             !.step = "refetching",
                                             !.attendee = Nobody,
                                             !.status = "pending"]]
    /\ UNCHANGED <<told, scanner, editing, mistaken>>

Refetched(o) ==
    /\ page[o].step = "refetching"
    /\ page' = [page EXCEPT ![o] = [@ EXCEPT !.step = "idle",
                                             !.list = attendees]]
    /\ UNCHANGED <<attendees, told, scanner, editing, mistaken>>

\* A request fails, or its answer is lost: the handler stops where it is, the
\* dialog stays open, the list is not fetched.
Fail(o) ==
    LET inList == page[o].view = "list"
        attendee == IF inList THEN Nobody ELSE page[o].attendee
        status == IF inList THEN "pending" ELSE page[o].status IN
    /\ page[o].step # "idle"
    /\ page' = [page EXCEPT
                  ![o] = [@ EXCEPT !.step = "idle", !.groups = {},
                                   !.mails = NoMails, !.sent = {},
                                   !.attendee = attendee, !.status = status]]
    /\ mistaken' = mistaken \cup Concerned(o)
    /\ UNCHANGED <<attendees, told, scanner, editing>>

-----------------------------------------------------------------------------
(***************************************************************************)
(* Check-in and applicants                                                 *)
(***************************************************************************)

AcceptedOrNot == Attendees

\* listAttendees with the filter "accepted".
Accepted ==
    {a \in Attendees : attendees[a].status \in {"confirmed", "checked-in"}}

LoadScanner(s) ==
    /\ scanner' = [scanner EXCEPT
                     ![s] = [accepted |-> Accepted,
                             checked |-> {a \in Attendees :
                                            attendees[a].status = "checked-in"}]]
    /\ UNCHANGED <<attendees, told, page, editing, mistaken>>

\* A name is tapped; if the answer is lost the page does not show the tick.
handleTapCheckin(s, a) ==
    /\ a \in scanner[s].accepted \ scanner[s].checked
    /\ attendees' = [attendees EXCEPT ![a].status = "checked-in"]
    /\ \/ UNCHANGED scanner
       \/ scanner' = [scanner EXCEPT ![s].checked = @ \cup {a}]
    /\ mistaken' = mistaken \cup ({a} \ Accepted)
    /\ UNCHANGED <<told, page, editing>>

handleUndoConfirm(s, a) ==
    /\ a \in scanner[s].checked
    /\ attendees' = [attendees EXCEPT ![a].status = "confirmed"]
    /\ \/ UNCHANGED scanner
       \/ scanner' = [scanner EXCEPT ![s].checked = @ \ {a}]
    /\ mistaken' = mistaken \cup ({a} \ Accepted)
    /\ UNCHANGED <<told, page, editing>>

\* The applicant withdraws, whatever the status is.
withdrawAttendee(a) ==
    /\ attendees' = [attendees EXCEPT ![a].status = "cancelled"]
    /\ UNCHANGED <<told, page, scanner, editing, mistaken>>

BeginEditAnyway(a) ==
    /\ editing' = editing \cup {a}
    /\ UNCHANGED <<attendees, told, page, scanner, mistaken>>

\* The applicant's edit reads the status, and makes a withdrawn application
\* pending when it writes; any other status it leaves as it is.
BeginEdit(a) ==
    /\ attendees[a].status = "cancelled"
    /\ editing' = editing \cup {a}
    /\ UNCHANGED <<attendees, told, page, scanner, mistaken>>

EndEdit(a) ==
    /\ a \in editing
    /\ attendees' = [attendees EXCEPT ![a].status = "pending"]
    /\ editing' = editing \ {a}
    /\ UNCHANGED <<told, page, scanner, mistaken>>

PageStep(o) ==
    \/ RefetchList(o)
    \/ \E a \in Attendees, s \in Decisions, closed \in BOOLEAN :
         handleUpdateStatus(o, a, s, closed)
    \/ ConfirmDialog(o) \/ CancelDialog(o)
    \/ handleRequestClose(o)
    \/ handleNotifyBeforeCloseLater(o) \/ handleNotifyBeforeCloseNow(o)
    \/ \E to \in SUBSET Attendees, text \in Told : Message(o, to, text)
    \/ CloseMeet(o)

RequestStep(o) ==
    \/ \E status \in Standings : NextGroup(o, status)
    \/ AllGroupsDone(o) \/ ListAttendees(o)
    \/ \E a \in Attendees : SendMail(o, a)
    \/ Mark(o) \/ Patch(o) \/ Refetched(o) \/ Fail(o)

ScannerStep(s) ==
    \/ LoadScanner(s)
    \/ \E a \in Attendees : handleTapCheckin(s, a) \/ handleUndoConfirm(s, a)

ApplicantStep(a) == withdrawAttendee(a) \/ BeginEdit(a) \/ EndEdit(a)

Next ==
    \/ \E o \in Organizers : PageStep(o) \/ RequestStep(o)
    \/ \E s \in Scanners : ScannerStep(s)
    \/ \E a \in Attendees : ApplicantStep(a)

Spec == Init /\ [][Next]_vars

-----------------------------------------------------------------------------
(***************************************************************************)
(* Properties                                                              *)
(***************************************************************************)

\* Whoever counts as notified has been mailed: a POST of several mails that
\* fails half-way marks nobody.
NotifiedWasMailed ==
    \A a \in Attendees : attendees[a].responded => told[a] # "nothing"

\* What a notified attendee was told last is his status, as long as nobody
\* acted on him from a list that was no longer true, two handlers never were
\* about him at once, and none failed half-way.  Applicants may withdraw and
\* come back at any time.
ToldIsSo ==
    \A a \in Attendees \ (mistaken \cup Handled) :
        /\ attendees[a].responded
        /\ attendees[a].status \notin {"pending", "cancelled"}
        => told[a] \in {"message", Standing(attendees[a].status)}

\* Somebody may still decide on a as if the application were not withdrawn.
Unaware(a) ==
    \/ \E o \in Organizers :
         \/ page[o].list[a].status \notin {"cancelled", "checked-in"}
         \/ page[o].attendee = a
    \/ \E s \in Scanners : a \in scanner[s].accepted \cup scanner[s].checked
    \/ a \in editing

Withdrawn(a) == attendees[a].status = "cancelled" /\ ~Unaware(a)

\* An applicant who withdrew stays withdrawn, once everybody has seen it,
\* until he edits the application himself.
WithdrawnForGood ==
    [][\A a \in Attendees :
         Withdrawn(a) => Withdrawn(a)' \/ a \in editing']_vars

(***************************************************************************)
(* What the dialogs say and the system does not keep                       *)
(***************************************************************************)

\* ConfirmClosedStatusDialog: "This attendee has already received a
\* notification about this meet.  This action will send the following
\* message".  No decision about a notified attendee is stored before he was
\* mailed it.
NotifiedLearnsOfDecisions ==
    [][\A a \in Attendees :
         /\ attendees[a].responded
         /\ attendees'[a].status # attendees[a].status
         /\ attendees'[a].status \in Decisions
         => told[a] = attendees'[a].status]_vars

=============================================================================
