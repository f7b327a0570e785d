------------------------- MODULE AttendeeStatusProofs -------------------------
(***************************************************************************)
(* Proofs about AttendeeStatus, for every set of attendees and pages, and  *)
(* that it implements AttendeeProtocol.                                    *)
(***************************************************************************)
EXTENDS AttendeeRefinement, TLAPS

-----------------------------------------------------------------------------
(***************************************************************************)
(* Types; a dialog is about one of the standings, so that its mail is one. *)
(***************************************************************************)
DialogHasStanding ==
    \A o \in Organizers :
        page[o].view = "dialog" => page[o].status \in Standings

Base == TypeOK /\ DialogHasStanding

LEMMA StandingTold ==
    \A s \in Status : Standing(s) \in Standings \cup {"nothing"}
  BY DEF Standing, Status, Standings

\* A page stays a page whatever is stored in its fields.
LEMMA PageTypes ==
    ASSUME NEW p \in Page
    PROVE  /\ \A list \in [Attendees -> Row] :
                /\ [p EXCEPT !.list = list] \in Page
                /\ [p EXCEPT !.step = "idle", !.list = list] \in Page
           /\ \A a \in Attendees, s \in Standings, view \in {"dialog", "list"},
                 step \in {"idle", "patching"} :
                [p EXCEPT !.attendee = a, !.status = s, !.view = view,
                          !.step = step] \in Page
           /\ \A view \in {"dialog", "list"}, mails \in Mails :
                [p EXCEPT !.view = view, !.step = "mailing", !.mails = mails,
                          !.sent = {}] \in Page
           /\ [p EXCEPT !.view = "list", !.attendee = Nobody,
                        !.status = "pending"] \in Page
           /\ [p EXCEPT !.view = "list", !.step = "refetching",
                        !.attendee = Nobody, !.status = "pending"] \in Page
           /\ [p EXCEPT !.step = "listing"] \in Page
  BY DEF Page

LEMMA PageGroupTypes ==
    ASSUME NEW p \in Page,
           NEW pending \in [Attendees -> Standings \cup {"nothing"}],
           NEW groups \in SUBSET Standings, NEW mails \in Mails
    PROVE  /\ [p EXCEPT !.view = "notify", !.pending = pending] \in Page
           /\ [p EXCEPT !.view = "list", !.pending = pending] \in Page
           /\ [p EXCEPT !.view = "list", !.step = "refetching",
                        !.pending = pending] \in Page
           /\ [p EXCEPT !.step = "grouping", !.groups = groups] \in Page
           /\ [p EXCEPT !.step = "mailing", !.sent = {}, !.groups = groups,
                        !.mails = mails] \in Page
  BY DEF Page

LEMMA PageRequestTypes ==
    ASSUME NEW p \in Page
    PROVE  /\ \A a \in Attendees : [p EXCEPT !.sent = @ \cup {a}] \in Page
           /\ \A step \in {"patching", "grouping", "idle"}, mails \in Mails :
                [p EXCEPT !.step = step, !.mails = mails, !.sent = {}] \in Page
           /\ \A mails \in Mails, a \in Attendees \cup {Nobody},
                 s \in Standings \cup {"pending"} :
                [p EXCEPT !.step = "idle", !.groups = {}, !.mails = mails,
                          !.sent = {}, !.attendee = a, !.status = s] \in Page
  BY DEF Page

LEMMA NoMailsTypes ==
    /\ NoMails \in Mails
    /\ NoMails \in [Attendees -> Standings \cup {"nothing"}]
  BY DEF NoMails, Mails, Told

LEMMA BaseInit == Init => Base
  <1> SUFFICES ASSUME Init PROVE Base
    OBVIOUS
  <1>1. Applied \in Row
    BY DEF Applied, Row, Status
  <1>2. attendees \in [Attendees -> Row]
    BY <1>1 DEF Init
  <1>3. page \in [Organizers -> Page]
    BY <1>2, NoMailsTypes DEF Init, Page
  <1> QED
    BY <1>2, <1>3, NoMailsTypes
    DEF Init, Base, TypeOK, DialogHasStanding, Scanner

LEMMA BasePageStep ==
    ASSUME Base, NEW o \in Organizers, PageStep(o)
    PROVE  Base'
  <1> USE AttendeeStatusConstants, NoMailsTypes DEF Base, TypeOK
  <1>0. page[o] \in Page /\ Handled \subseteq Attendees
    BY DEF Handled, Concerned
  <1>1. CASE RefetchList(o)
    <2>1. page' \in [Organizers -> Page]
      BY <1>0, <1>1, PageTypes DEF RefetchList
    <2>2. DialogHasStanding'
      BY <1>1 DEF RefetchList, DialogHasStanding, Page
    <2> QED
      BY <1>1, <2>1, <2>2 DEF RefetchList
  <1>2. ASSUME NEW a \in Attendees, NEW s \in Decisions, NEW closed \in BOOLEAN,
               handleUpdateStatus(o, a, s, closed)
        PROVE  Base'
    <2>1. s \in Standings
      OBVIOUS
    <2>2. page' \in [Organizers -> Page]
      BY <1>0, <1>2, <2>1, PageTypes DEF handleUpdateStatus
    <2>3. DialogHasStanding'
      BY <1>2, <2>1 DEF handleUpdateStatus, DialogHasStanding, Page
    <2> QED
      BY <1>2, <2>2, <2>3 DEF handleUpdateStatus
  <1>3. ASSUME NEW view \in {"dialog", "list"}, NEW mails \in Mails,
               Post(o, view, mails), view = "list" \/ Idle(o, "dialog")
        PROVE  /\ page' \in [Organizers -> Page]
               /\ DialogHasStanding'
               /\ UNCHANGED <<attendees, told, scanner, editing>>
    <2>1. page' \in [Organizers -> Page]
      BY <1>0, <1>3, PageTypes DEF Post
    <2>2. DialogHasStanding'
      BY <1>3 DEF Post, DialogHasStanding, Idle, Page
    <2> QED
      BY <1>3, <2>1, <2>2 DEF Post
  <1>4. CASE ConfirmDialog(o)
    <2>1. page[o].status \in Told
      BY <1>0, <1>4 DEF ConfirmDialog, Idle, DialogHasStanding, Told
    <2>2. [NoMails EXCEPT ![page[o].attendee] = page[o].status] \in Mails
      BY <2>1 DEF Mails
    <2> QED
      BY <1>0, <1>3, <1>4, <2>2 DEF ConfirmDialog
  <1>5. CASE CancelDialog(o)
    <2>1. page' \in [Organizers -> Page]
      BY <1>0, <1>5, PageTypes DEF CancelDialog
    <2>2. DialogHasStanding'
      BY <1>5 DEF CancelDialog, DialogHasStanding, Page
    <2> QED
      BY <1>5, <2>1, <2>2 DEF CancelDialog
  <1>6. CASE handleRequestClose(o)
    <2>1. Unnotified(page[o].list)
            \in [Attendees -> Standings \cup {"nothing"}]
      <3>1. \A a \in Attendees : page[o].list[a].status \in Status
        BY <1>0 DEF Page, Row
      <3> QED
        BY <3>1, StandingTold DEF Unnotified
    <2>2. page' \in [Organizers -> Page]
      BY <1>0, <1>6, <2>1, PageGroupTypes DEF handleRequestClose, Mails
    <2>3. DialogHasStanding'
      BY <1>6 DEF handleRequestClose, DialogHasStanding, Page
    <2> QED
      BY <1>6, <2>2, <2>3 DEF handleRequestClose
  <1>7. CASE handleNotifyBeforeCloseLater(o)
    <2>1. page' \in [Organizers -> Page]
      BY <1>0, <1>7, PageGroupTypes DEF handleNotifyBeforeCloseLater
    <2>2. DialogHasStanding'
      BY <1>7 DEF handleNotifyBeforeCloseLater, DialogHasStanding, Page
    <2> QED
      BY <1>7, <2>1, <2>2 DEF handleNotifyBeforeCloseLater
  <1>8. CASE handleNotifyBeforeCloseNow(o)
    <2> DEFINE pending == page[o].pending
               groups == {pending[a] : a \in Recipients(pending)}
    <2>1. groups \in SUBSET Standings
      BY <1>0 DEF Page, Recipients
    <2>2. page' \in [Organizers -> Page]
      BY <1>0, <1>8, <2>1, PageGroupTypes DEF handleNotifyBeforeCloseNow, Page
    <2>3. DialogHasStanding'
      BY <1>8 DEF handleNotifyBeforeCloseNow, DialogHasStanding, Page
    <2>4. mistaken' \subseteq Attendees
      BY <1>0, <1>8 DEF handleNotifyBeforeCloseNow, Wrong
    <2> QED
      BY <1>8, <2>2, <2>3, <2>4 DEF handleNotifyBeforeCloseNow
  <1>9. ASSUME NEW to \in SUBSET Attendees, NEW text \in Told,
               Message(o, to, text)
        PROVE  Base'
    <2>1. [a \in Attendees |-> IF a \in to THEN text ELSE "nothing"] \in Mails
      BY DEF Mails, Told
    <2>2. mistaken' \subseteq Attendees
      BY <1>0, <1>9 DEF Message, Wrong
    <2> QED
      BY <1>3, <1>9, <2>1, <2>2 DEF Message
  <1>10. CASE CloseMeet(o)
    <2>1. page' \in [Organizers -> Page]
      BY <1>0, <1>10, PageTypes DEF CloseMeet
    <2>2. DialogHasStanding'
      BY <1>10 DEF CloseMeet, DialogHasStanding, Page
    <2> QED
      BY <1>10, <2>1, <2>2 DEF CloseMeet
  <1> HIDE DEF Base, TypeOK
  <1> QED
    BY <1>1, <1>2, <1>4, <1>5, <1>6, <1>7, <1>8, <1>9, <1>10 DEF PageStep

LEMMA BaseRequestStep ==
    ASSUME Base, NEW o \in Organizers, RequestStep(o)
    PROVE  Base'
  <1> USE AttendeeStatusConstants, NoMailsTypes DEF Base, TypeOK
  <1>0. page[o] \in Page /\ Handled \subseteq Attendees
    BY DEF Handled, Concerned
  <1>1. ASSUME NEW status \in Standings, NextGroup(o, status) PROVE Base'
    <2>1. Group(page[o].pending, status) \in Mails
      BY DEF Group, Mails, Told
    <2>2. page[o].groups \ {status} \in SUBSET Standings
      BY <1>0 DEF Page
    <2>3. page' \in [Organizers -> Page]
      BY <1>0, <1>1, <2>1, <2>2, PageGroupTypes DEF NextGroup
    <2>4. DialogHasStanding'
      BY <1>1 DEF NextGroup, DialogHasStanding, Page
    <2> QED
      BY <1>1, <2>3, <2>4 DEF NextGroup
  <1>2. CASE AllGroupsDone(o)
    <2>1. page' \in [Organizers -> Page]
      BY <1>0, <1>2, PageGroupTypes DEF AllGroupsDone
    <2>2. DialogHasStanding'
      BY <1>2 DEF AllGroupsDone, DialogHasStanding, Page
    <2> QED
      BY <1>2, <2>1, <2>2 DEF AllGroupsDone
  <1>3. CASE ListAttendees(o)
    <2> DEFINE mails == [a \in Attendees |-> Standing(attendees[a].status)]
    <2>1. mails \in Mails
      BY StandingTold DEF Row, Mails, Told
    <2>2. page' \in [Organizers -> Page]
      BY <1>0, <1>3, <2>1, PageTypes DEF ListAttendees, Post
    <2>3. DialogHasStanding'
      BY <1>3 DEF ListAttendees, Post, DialogHasStanding, Page
    <2> QED
      BY <1>0, <1>3, <2>2, <2>3 DEF ListAttendees, Post
  <1>4. ASSUME NEW a \in Attendees, SendMail(o, a) PROVE Base'
    <2>1. page[o].mails[a] \in Told
      BY <1>0 DEF Page, Mails
    <2>2. told' \in Mails
      BY <1>4, <2>1 DEF SendMail, Mails
    <2>3. page' \in [Organizers -> Page]
      BY <1>0, <1>4, PageRequestTypes DEF SendMail
    <2>4. DialogHasStanding'
      BY <1>4 DEF SendMail, DialogHasStanding, Page
    <2> QED
      BY <1>4, <2>2, <2>3, <2>4 DEF SendMail
  <1>5. CASE Mark(o)
    <2>1. attendees' \in [Attendees -> Row]
      BY <1>5 DEF Mark, Marked, Row
    <2>2. page' \in [Organizers -> Page]
      BY <1>0, <1>5, PageRequestTypes DEF Mark, Marked
    <2>3. DialogHasStanding'
      BY <1>5 DEF Mark, Marked, DialogHasStanding, Page
    <2> QED
      BY <1>5, <2>1, <2>2, <2>3 DEF Mark, Marked
  <1>6. CASE Patch(o)
    <2>1. page[o].status \in Status
      BY <1>0 DEF Page, Status
    <2>2. attendees' \in [Attendees -> Row]
      BY <1>6, <2>1 DEF Patch, Row
    <2>3. page' \in [Organizers -> Page]
      BY <1>0, <1>6, PageTypes DEF Patch
    <2>4. DialogHasStanding'
      BY <1>6 DEF Patch, DialogHasStanding, Page
    <2> QED
      BY <1>6, <2>2, <2>3, <2>4 DEF Patch
  <1>7. CASE Refetched(o)
    <2>1. page' \in [Organizers -> Page]
      BY <1>0, <1>7, PageTypes DEF Refetched
    <2>2. DialogHasStanding'
      BY <1>7 DEF Refetched, DialogHasStanding, Page
    <2> QED
      BY <1>7, <2>1, <2>2 DEF Refetched
  <1>8. CASE Fail(o)
    <2> DEFINE inList == page[o].view = "list"
               attendee == IF inList THEN Nobody ELSE page[o].attendee
               status == IF inList THEN "pending" ELSE page[o].status
    <2>0. /\ attendee \in Attendees \cup {Nobody}
          /\ status \in Standings \cup {"pending"}
      BY <1>0 DEF Page
    <2>1. page' \in [Organizers -> Page]
      <3> HIDE DEF attendee, status
      <3>1. [page[o] EXCEPT !.step = "idle", !.groups = {}, !.mails = NoMails,
                            !.sent = {}, !.attendee = attendee,
                            !.status = status] \in Page
        BY <1>0, <2>0, PageRequestTypes
      <3> QED
        BY <1>8, <3>1 DEF Fail, attendee, status
    <2>2. DialogHasStanding'
      BY <1>8 DEF Fail, DialogHasStanding, Page
    <2>3. mistaken' \subseteq Attendees
      BY <1>8 DEF Fail, Concerned
    <2> QED
      BY <1>8, <2>1, <2>2, <2>3 DEF Fail
  <1> QED
    BY <1>1, <1>2, <1>3, <1>4, <1>5, <1>6, <1>7, <1>8 DEF RequestStep

LEMMA BaseOtherStep ==
    ASSUME Base,
           \/ \E s \in Scanners : ScannerStep(s)
           \/ \E a \in Attendees : ApplicantStep(a)
           \/ UNCHANGED vars
    PROVE  Base'
  <1> USE DEF Base, TypeOK, DialogHasStanding
  <1>0. \A a \in Attendees, status \in Status :
          [attendees EXCEPT ![a].status = status] \in [Attendees -> Row]
    BY DEF Row
  <1>1. ASSUME NEW s \in Scanners, ScannerStep(s) PROVE Base'
    <2>1. CASE LoadScanner(s)
      BY <2>1 DEF LoadScanner, Accepted, Scanner
    <2>2. ASSUME NEW a \in Attendees, handleTapCheckin(s, a) PROVE Base'
      <3>1. [scanner[s] EXCEPT !.checked = @ \cup {a}] \in Scanner
        <4>1. scanner[s] \in Scanner
          OBVIOUS
        <4> QED
          BY <4>1 DEF Scanner
      <3>2. attendees' \in [Attendees -> Row]
        BY <1>0, <2>2 DEF handleTapCheckin, Status
      <3>3. scanner' \in [Scanners -> Scanner]
        BY <2>2, <3>1 DEF handleTapCheckin
      <3> QED
        BY <2>2, <3>2, <3>3 DEF handleTapCheckin
    <2>3. ASSUME NEW a \in Attendees, handleUndoConfirm(s, a) PROVE Base'
      <3>1. [scanner[s] EXCEPT !.checked = @ \ {a}] \in Scanner
        <4>1. scanner[s] \in Scanner
          OBVIOUS
        <4> QED
          BY <4>1 DEF Scanner
      <3>2. attendees' \in [Attendees -> Row]
        BY <1>0, <2>3 DEF handleUndoConfirm, Status, Standings
      <3>3. scanner' \in [Scanners -> Scanner]
        BY <2>3, <3>1 DEF handleUndoConfirm
      <3> QED
        BY <2>3, <3>2, <3>3 DEF handleUndoConfirm
    <2> QED
      BY <1>1, <2>1, <2>2, <2>3 DEF ScannerStep
  <1>2. ASSUME NEW a \in Attendees, ApplicantStep(a) PROVE Base'
    BY <1>0, <1>2
    DEF ApplicantStep, withdrawAttendee, BeginEdit, EndEdit, Status
  <1>3. CASE UNCHANGED vars
    BY <1>3 DEF vars
  <1> QED
    BY <1>1, <1>2, <1>3

LEMMA BaseNext == Base /\ [Next]_vars => Base'
  BY BasePageStep, BaseRequestStep, BaseOtherStep DEF Next

\* Type correctness, with what makes a dialog's mail say a standing.
THEOREM Typing == Spec => []Base
  BY BaseInit, BaseNext, PTL DEF Spec

\* The table, what was mailed and what pages, check-in pages and edits hold
\* have the types the code gives them.
THEOREM TypeCorrectness == Spec => []TypeOK
  BY Typing, PTL DEF Base

-----------------------------------------------------------------------------
(***************************************************************************)
(* Whoever counts as notified was mailed.  The mails of a POST that are    *)
(* out have reached their attendees, also while other pages mail the same. *)
(***************************************************************************)
SentIsTold == \A o \in Organizers : \A a \in page[o].sent : told[a] # "nothing"

MailInv == Base /\ SentIsTold /\ NotifiedWasMailed

\* Steps that send and mark nothing.
QuietStep ==
    /\ told' = told
    /\ \A o \in Organizers : page'[o].sent \subseteq page[o].sent
    /\ \A a \in Attendees :
         attendees'[a].responded => attendees[a].responded

LEMMA QuietMail ==
    ASSUME MailInv, Base', QuietStep
    PROVE  MailInv'
  <1>1. SentIsTold'
    BY DEF MailInv, SentIsTold, QuietStep
  <1>2. NotifiedWasMailed'
    BY DEF MailInv, NotifiedWasMailed, QuietStep
  <1> QED
    BY <1>1, <1>2 DEF MailInv

LEMMA QuietPageStep ==
    ASSUME Base, NEW o \in Organizers, PageStep(o)
    PROVE  QuietStep
  <1> USE DEF Base, TypeOK, Page, QuietStep
  <1>1. ASSUME NEW view, NEW mails, Post(o, view, mails) PROVE QuietStep
    BY <1>1 DEF Post
  <1>2. CASE RefetchList(o)
    BY <1>2 DEF RefetchList
  <1>3. ASSUME NEW a \in Attendees, NEW s \in Decisions, NEW closed \in BOOLEAN,
               handleUpdateStatus(o, a, s, closed)
        PROVE  QuietStep
    BY <1>3 DEF handleUpdateStatus
  <1>4. CASE ConfirmDialog(o)
    BY <1>1, <1>4 DEF ConfirmDialog
  <1>5. CASE CancelDialog(o)
    BY <1>5 DEF CancelDialog
  <1>6. CASE handleRequestClose(o)
    BY <1>6 DEF handleRequestClose
  <1>7. CASE handleNotifyBeforeCloseLater(o)
    BY <1>7 DEF handleNotifyBeforeCloseLater
  <1>8. CASE handleNotifyBeforeCloseNow(o)
    BY <1>8 DEF handleNotifyBeforeCloseNow
  <1>9. ASSUME NEW to \in SUBSET Attendees, NEW text \in Told,
               Message(o, to, text)
        PROVE  QuietStep
    BY <1>1, <1>9 DEF Message
  <1>10. CASE CloseMeet(o)
    BY <1>10 DEF CloseMeet
  <1> HIDE DEF Base, TypeOK, Page, QuietStep
  <1> QED
    BY <1>2, <1>3, <1>4, <1>5, <1>6, <1>7, <1>8, <1>9, <1>10 DEF PageStep

LEMMA MailRequestStep ==
    ASSUME MailInv, NEW o \in Organizers, RequestStep(o)
    PROVE  MailInv'
  <1>0. Base /\ Base'
    BY BaseRequestStep DEF MailInv
  <1> USE <1>0 DEF Base, TypeOK, Page
  <1>1. ASSUME NEW status \in Standings, NextGroup(o, status) PROVE QuietStep
    BY <1>1 DEF NextGroup, QuietStep
  <1>2. ASSUME AllGroupsDone(o) PROVE QuietStep
    BY <1>2 DEF AllGroupsDone, QuietStep
  <1>3. ASSUME ListAttendees(o) PROVE QuietStep
    <2>1. PICK mails : Post(o, "list", mails)
      BY <1>3 DEF ListAttendees
    <2> QED
      BY <2>1 DEF Post, QuietStep
  <1>4. ASSUME NEW a \in Attendees, SendMail(o, a) PROVE MailInv'
    <2>1. told'[a] # "nothing"
      BY <1>4 DEF SendMail, Recipients, Mails
    <2>2. \A b \in Attendees : told[b] # "nothing" => told'[b] # "nothing"
      BY <1>4, <2>1 DEF SendMail, Mails
    <2>3. SentIsTold'
      BY <1>4, <2>1, <2>2 DEF SendMail, MailInv, SentIsTold
    <2>4. NotifiedWasMailed'
      BY <1>4, <2>2 DEF SendMail, MailInv, NotifiedWasMailed
    <2> HIDE DEF Base
    <2> QED
      BY <2>3, <2>4 DEF MailInv
  <1>5. CASE Mark(o)
    <2>1. \A a \in Recipients(page[o].mails) : told[a] # "nothing"
      BY <1>5 DEF Mark, MailInv, SentIsTold
    <2>2. \A a \in Attendees :
            attendees'[a].responded =>
              attendees[a].responded \/ a \in Recipients(page[o].mails)
      BY <1>5 DEF Mark, Marked
    <2>3. NotifiedWasMailed'
      BY <1>5, <2>1, <2>2 DEF Mark, Marked, MailInv, NotifiedWasMailed
    <2>4. SentIsTold'
      BY <1>5 DEF Mark, Marked, MailInv, SentIsTold
    <2> HIDE DEF Base
    <2> QED
      BY <2>3, <2>4 DEF MailInv
  <1>6. ASSUME Patch(o) PROVE QuietStep
    BY <1>6 DEF Patch, QuietStep, Row
  <1>7. ASSUME Fail(o) PROVE QuietStep
    BY <1>7 DEF Fail, QuietStep
  <1>8. ASSUME Refetched(o) PROVE QuietStep
    BY <1>8 DEF Refetched, QuietStep
  <1> HIDE DEF Base, TypeOK, Page
  <1> QED
    BY <1>1, <1>2, <1>3, <1>4, <1>5, <1>6, <1>7, <1>8, QuietMail
    DEF RequestStep

LEMMA QuietOtherStep ==
    ASSUME Base,
           \/ \E s \in Scanners : ScannerStep(s)
           \/ \E a \in Attendees : ApplicantStep(a)
           \/ UNCHANGED vars
    PROVE  QuietStep
  <1> USE DEF Base, TypeOK, QuietStep
  <1>1. ASSUME NEW a \in Attendees, NEW status,
               attendees' = [attendees EXCEPT ![a].status = status]
        PROVE  \A b \in Attendees :
                 attendees'[b].responded = attendees[b].responded
    BY <1>1 DEF Row
  <1>2. ASSUME NEW s \in Scanners, ScannerStep(s) PROVE QuietStep
    <2>1. CASE LoadScanner(s)
      BY <2>1 DEF LoadScanner
    <2>2. ASSUME NEW a \in Attendees,
                 handleTapCheckin(s, a) \/ handleUndoConfirm(s, a)
          PROVE  QuietStep
      BY <1>1, <2>2 DEF handleTapCheckin, handleUndoConfirm
    <2> QED
      BY <1>2, <2>1, <2>2 DEF ScannerStep
  <1>3. ASSUME NEW a \in Attendees, ApplicantStep(a) PROVE QuietStep
    BY <1>1, <1>3 DEF ApplicantStep, withdrawAttendee, BeginEdit, EndEdit
  <1>4. CASE UNCHANGED vars
    BY <1>4 DEF vars
  <1> QED
    BY <1>2, <1>3, <1>4

\* NotifiedWasMailed: whoever counts as notified has been mailed, whatever
\* POST fails half-way and whoever else mails.
THEOREM NobodyNotifiedUnmailed == Spec => []NotifiedWasMailed
  <1>1. Init => MailInv
    BY BaseInit DEF Init, MailInv, SentIsTold, NotifiedWasMailed, Applied
  <1>2. MailInv /\ [Next]_vars => MailInv'
    <2> SUFFICES ASSUME MailInv, [Next]_vars PROVE MailInv'
      OBVIOUS
    <2>1. Base /\ Base'
      BY BaseNext DEF MailInv
    <2>2. ASSUME NEW o \in Organizers, PageStep(o) PROVE MailInv'
      BY <2>1, <2>2, QuietPageStep, QuietMail
    <2>3. ASSUME NEW o \in Organizers, RequestStep(o) PROVE MailInv'
      BY <2>3, MailRequestStep
    <2> QED
      BY <2>1, <2>2, <2>3, QuietOtherStep, QuietMail DEF Next
  <1> QED
    BY <1>1, <1>2, PTL DEF Spec, MailInv

-----------------------------------------------------------------------------
(***************************************************************************)
(* A withdrawn application that nobody is unaware of stays withdrawn.      *)
(***************************************************************************)
LEMMA WithdrawnPageStep ==
    ASSUME Base, NEW a \in Attendees, Withdrawn(a),
           NEW o \in Organizers, PageStep(o)
    PROVE  Withdrawn(a)'
  <1> USE DEF Base, TypeOK, Page, Withdrawn, Unaware
  <1>1. ASSUME NEW view, NEW mails, Post(o, view, mails) PROVE Withdrawn(a)'
    BY <1>1 DEF Post
  <1>2. CASE RefetchList(o)
    BY <1>2 DEF RefetchList
  <1>3. ASSUME NEW b \in Attendees, NEW s \in Decisions, NEW closed \in BOOLEAN,
               handleUpdateStatus(o, b, s, closed)
        PROVE  Withdrawn(a)'
    BY <1>3 DEF handleUpdateStatus
  <1>4. CASE ConfirmDialog(o)
    BY <1>1, <1>4 DEF ConfirmDialog
  <1>5. CASE CancelDialog(o)
    BY <1>5, AttendeeStatusConstants DEF CancelDialog
  <1>6. CASE handleRequestClose(o)
    BY <1>6 DEF handleRequestClose
  <1>7. CASE handleNotifyBeforeCloseLater(o)
    BY <1>7 DEF handleNotifyBeforeCloseLater
  <1>8. CASE handleNotifyBeforeCloseNow(o)
    BY <1>8 DEF handleNotifyBeforeCloseNow
  <1>9. ASSUME NEW to \in SUBSET Attendees, NEW text \in Told,
               Message(o, to, text)
        PROVE  Withdrawn(a)'
    BY <1>1, <1>9 DEF Message
  <1>10. CASE CloseMeet(o)
    BY <1>10 DEF CloseMeet
  <1> HIDE DEF Base, TypeOK, Page, Withdrawn
  <1> QED
    BY <1>2, <1>3, <1>4, <1>5, <1>6, <1>7, <1>8, <1>9, <1>10 DEF PageStep

LEMMA WithdrawnRequestStep ==
    ASSUME Base, NEW a \in Attendees, Withdrawn(a),
           NEW o \in Organizers, RequestStep(o)
    PROVE  Withdrawn(a)'
  <1> USE AttendeeStatusConstants DEF Base, TypeOK, Page, Withdrawn, Unaware
  <1>1. ASSUME NEW status \in Standings, NextGroup(o, status)
        PROVE  Withdrawn(a)'
    BY <1>1 DEF NextGroup
  <1>2. CASE AllGroupsDone(o)
    BY <1>2 DEF AllGroupsDone
  <1>3. CASE ListAttendees(o)
    BY <1>3 DEF ListAttendees, Post
  <1>4. ASSUME NEW b \in Attendees, SendMail(o, b) PROVE Withdrawn(a)'
    BY <1>4 DEF SendMail
  <1>5. CASE Mark(o)
    <2>1. attendees'[a].status = attendees[a].status
      BY <1>5 DEF Mark, Marked, Row
    <2> QED
      BY <1>5, <2>1 DEF Mark, Marked
  <1>6. CASE Patch(o)
    <2>1. attendees'[a] = attendees[a]
      BY <1>6 DEF Patch
    <2> QED
      BY <1>6, <2>1 DEF Patch
  <1>7. CASE Fail(o)
    BY <1>7 DEF Fail
  <1>8. CASE Refetched(o)
    BY <1>8 DEF Refetched
  <1> HIDE DEF Base, TypeOK, Page, Withdrawn
  <1> QED
    BY <1>1, <1>2, <1>3, <1>4, <1>5, <1>6, <1>7, <1>8 DEF RequestStep

LEMMA WithdrawnOtherStep ==
    ASSUME Base, NEW a \in Attendees, Withdrawn(a),
           \/ \E s \in Scanners : ScannerStep(s)
           \/ \E b \in Attendees : ApplicantStep(b)
           \/ UNCHANGED vars
    PROVE  Withdrawn(a)' \/ a \in editing'
  <1> USE DEF Base, TypeOK, Withdrawn, Unaware
  <1>1. ASSUME NEW s \in Scanners, ScannerStep(s) PROVE Withdrawn(a)'
    <2>1. CASE LoadScanner(s)
      BY <2>1 DEF LoadScanner, Accepted, Scanner
    <2>2. ASSUME NEW b \in Attendees, handleTapCheckin(s, b)
          PROVE  Withdrawn(a)'
      BY <2>2 DEF handleTapCheckin, Scanner
    <2>3. ASSUME NEW b \in Attendees, handleUndoConfirm(s, b)
          PROVE  Withdrawn(a)'
      BY <2>3 DEF handleUndoConfirm, Scanner
    <2> QED
      BY <1>1, <2>1, <2>2, <2>3 DEF ScannerStep
  <1>2. ASSUME NEW b \in Attendees, ApplicantStep(b)
        PROVE  Withdrawn(a)' \/ a \in editing'
    BY <1>2 DEF ApplicantStep, withdrawAttendee, BeginEdit, EndEdit, Row
  <1>3. CASE UNCHANGED vars
    BY <1>3 DEF vars
  <1> QED
    BY <1>1, <1>2, <1>3

\* WithdrawnForGood: once every page has seen a withdrawal, only an edit by
\* the applicant can undo it.
THEOREM WithdrawnStays == Spec => WithdrawnForGood
  <1>1. Base /\ [Next]_vars
          => [\A a \in Attendees :
                Withdrawn(a) => Withdrawn(a)' \/ a \in editing']_vars
    BY WithdrawnPageStep, WithdrawnRequestStep, WithdrawnOtherStep DEF Next
  <1> QED
    BY <1>1, Typing, PTL DEF Spec, WithdrawnForGood
-----------------------------------------------------------------------------
(***************************************************************************)
(* What a notified attendee was told last is so.  While a handler is about *)
(* an attendee nobody else is (or it counts as a mistake), and what it     *)
(* still has to tell or to store agrees with what was told already.        *)
(***************************************************************************)
ConcernedBy(p) ==
    IF p.step \in {"idle", "listing", "refetching"} THEN {}
    ELSE {a \in Attendees : \/ p.attendee = a
                            \/ p.pending[a] # "nothing"
                            \/ p.mails[a] # "nothing"}

\* Which fields are in use when.
Shape(p) ==
    /\ p.step \in {"listing", "refetching"} => p.view = "list"
    /\ p.step = "grouping" => p.view = "notify"
    /\ p.step = "patching" => p.view # "notify"
    /\ p.step # "mailing" => p.mails = NoMails /\ p.sent = {}
    /\ p.view # "notify" => p.pending = NoMails
    /\ IF p.view = "dialog" \/ p.step = "patching"
          THEN p.attendee \in Attendees /\ p.status \in Standings
          ELSE p.attendee = Nobody
    /\ p.view = "dialog" /\ p.step = "mailing" =>
          p.mails = [NoMails EXCEPT ![p.attendee] = p.status]
    /\ p.view = "notify" =>
          \A a \in Attendees : p.mails[a] \in {"nothing", p.pending[a]}

\* A text is true of a, or a's status is one that tells nothing.
Says(text, a) ==
    \/ text = "message"
    \/ attendees[a].status \in {"pending", "cancelled"}
    \/ text = Standing(attendees[a].status)

\* What the handler of a page keeps to about an attendee of its own.
Due(p, a) ==
    /\ p.view = "list" /\ p.step = "patching" => ~attendees[a].responded
    /\ p.view = "list" /\ p.step = "mailing" =>
          Says(p.mails[a], a) /\ (a \in p.sent => told[a] = p.mails[a])
    /\ p.view = "dialog" /\ (p.step = "patching" \/ a \in p.sent) =>
          told[a] = p.status
    /\ p.view = "notify" =>
          /\ Says(p.pending[a], a)
          /\ \/ p.pending[a] \in p.groups
             \/ p.mails[a] # "nothing" /\ a \notin p.sent
             \/ told[a] = p.pending[a]

ToldRight(a) == attendees[a].responded => Says(told[a], a)

OneHandler(a) ==
    \A o1, o2 \in Organizers :
       a \in ConcernedBy(page[o1]) \cap ConcernedBy(page[o2]) => o1 = o2

ToldInv ==
    /\ Base
    /\ \A o \in Organizers : Shape(page[o])
    /\ \A a \in Attendees \ mistaken :
          /\ OneHandler(a)
          /\ \A o \in Organizers :
                a \in ConcernedBy(page[o]) => Due(page[o], a)
          /\ (\A o \in Organizers : a \notin ConcernedBy(page[o])) => ToldRight(a)

LEMMA HandledByPages ==
    /\ \A o \in Organizers : Concerned(o) = ConcernedBy(page[o])
    /\ \A a \in Attendees : a \in Handled <=>
          \E o \in Organizers : a \in ConcernedBy(page[o])
  BY DEF Handled, Concerned, ConcernedBy

LEMMA NoMailsIsNothing == \A a \in Attendees : NoMails[a] = "nothing"
  BY DEF NoMails

LEMMA ToldStart ==
    ASSUME Init PROVE ToldInv
  <1>1. Base
    BY BaseInit
  <1>2. \A o \in Organizers : Shape(page[o]) /\ ConcernedBy(page[o]) = {}
    BY NoMailsIsNothing, AttendeeStatusConstants DEF Init, Shape, ConcernedBy
  <1>3. \A a \in Attendees : ~attendees[a].responded
    BY DEF Init, Applied
  <1> QED
    BY <1>1, <1>2, <1>3 DEF ToldInv, OneHandler, ToldRight

\* A step of one page's handler.  It changes nobody it is not about, takes up
\* nobody whom another handler is about, and leaves whom it leaves in order.
LEMMA HandlerStep ==
    ASSUME ToldInv, Base', NEW o \in Organizers, NEW p \in Page,
           page' = [page EXCEPT ![o] = p], Shape(p), mistaken \subseteq mistaken',
           \A a \in Attendees \ mistaken' :
              /\ a \notin ConcernedBy(page[o]) =>
                    attendees'[a] = attendees[a] /\ told'[a] = told[a]
              /\ a \in ConcernedBy(p) =>
                    /\ a \in ConcernedBy(page[o]) \/ a \notin Handled
                    /\ Due(p, a)'
              /\ a \in ConcernedBy(page[o]) /\ a \notin ConcernedBy(p) =>
                    ToldRight(a)'
    PROVE  ToldInv'
  <1>1. \A q \in Organizers : page'[q] = IF q = o THEN p ELSE page[q]
    BY DEF Base, TypeOK
  <1>2. \A q \in Organizers : Shape(page'[q])
    BY <1>1 DEF ToldInv
  <1>3. ASSUME NEW a \in Attendees \ mistaken'
        PROVE  /\ OneHandler(a)'
               /\ \A q \in Organizers :
                     a \in ConcernedBy(page'[q]) => Due(page[q], a)'
               /\ (\A q \in Organizers : a \notin ConcernedBy(page'[q])) =>
                     ToldRight(a)'
    <2>1. /\ OneHandler(a)
          /\ \A q \in Organizers :
                a \in ConcernedBy(page[q]) => Due(page[q], a)
          /\ (\A q \in Organizers : a \notin ConcernedBy(page[q])) =>
                ToldRight(a)
      BY <1>3 DEF ToldInv
    <2>2. ASSUME NEW q \in Organizers, q # o, a \in ConcernedBy(page[q])
          PROVE  /\ a \notin ConcernedBy(p) /\ a \notin ConcernedBy(page[o])
                 /\ attendees'[a] = attendees[a] /\ told'[a] = told[a]
      <3>1. a \notin ConcernedBy(page[o])
        BY <2>1, <2>2 DEF OneHandler
      <3>2. a \in Handled
        BY <2>2, HandledByPages
      <3> QED
        BY <1>3, <3>1, <3>2
    <2>3. OneHandler(a)'
      <3>1. \A q1, q2 \in Organizers :
               a \in ConcernedBy(page'[q1]) /\ a \in ConcernedBy(page'[q2])
               => q1 = q2
        BY <1>1, <2>1, <2>2 DEF OneHandler
      <3> QED
        BY <3>1 DEF OneHandler, ConcernedBy
    <2>4. ASSUME NEW q \in Organizers, a \in ConcernedBy(page'[q])
          PROVE  Due(page[q], a)'
      <3>1. CASE q = o
        <4>1. Due(p, a)'
          BY <1>1, <1>3, <2>4, <3>1
        <4> QED
          BY <1>1, <3>1, <4>1 DEF Due, Says
      <3>2. CASE q # o
        <4>1. /\ page'[q] = page[q]
              /\ attendees'[a] = attendees[a] /\ told'[a] = told[a]
          BY <1>1, <2>2, <2>4, <3>2
        <4>2. Due(page[q], a)
          BY <2>1, <2>4, <4>1
        <4> QED
          BY <4>1, <4>2 DEF Due, Says
      <3> QED
        BY <3>1, <3>2
    <2>5. ASSUME \A q \in Organizers : a \notin ConcernedBy(page'[q])
          PROVE  ToldRight(a)'
      <3>1. a \notin ConcernedBy(p)
        BY <1>1, <2>5
      <3>2. CASE a \in ConcernedBy(page[o])
        BY <1>3, <3>1, <3>2
      <3>3. CASE a \notin ConcernedBy(page[o])
        <4>1. ToldRight(a)
          BY <1>1, <2>1, <2>5, <3>3
        <4>2. attendees'[a] = attendees[a] /\ told'[a] = told[a]
          BY <1>3, <3>3
        <4> QED
          BY <4>1, <4>2 DEF ToldRight, Says
      <3> QED
        BY <3>2, <3>3
    <2> QED
      BY <2>3, <2>4, <2>5
  <1> QED
    BY <1>2, <1>3 DEF ToldInv, Shape, ConcernedBy

\* A page that is about nobody before and after.
LEMMA IdleStep ==
    ASSUME ToldInv, Base', NEW o \in Organizers, NEW p \in Page,
           page' = [page EXCEPT ![o] = p], Shape(p),
           page[o].step \in {"idle", "listing", "refetching"},
           p.step \in {"idle", "listing", "refetching"},
           UNCHANGED <<attendees, told, mistaken>>
    PROVE  ToldInv'
  <1>1. ConcernedBy(p) = {} /\ ConcernedBy(page[o]) = {}
    BY DEF ConcernedBy
  <1> QED
    BY <1>1, HandlerStep

\* A POST of mails that are true, but to those who were mistaken, or of the
\* one the dialog announced.
LEMMA PostStep ==
    ASSUME ToldInv, Base', NEW o \in Organizers, NEW mails \in Mails,
           NEW view \in {"list", "dialog"}, Post(o, view, mails),
           page[o].step \in {"idle", "listing"}, page[o].view = view,
           mistaken \subseteq mistaken',
           view = "dialog" =>
              mails = [NoMails EXCEPT ![page[o].attendee] = page[o].status],
           \A a \in Recipients(mails) \ mistaken' :
              a \notin Handled /\ (view = "list" => Says(mails[a], a))
    PROVE  ToldInv'
  <1>0. page[o] \in Page /\ Shape(page[o])
    BY DEF ToldInv, Base, TypeOK
  <1>1. PICK p \in Page :
           p = [page[o] EXCEPT !.view = view, !.step = "mailing",
                               !.mails = mails, !.sent = {}]
    BY <1>0, PageTypes
  <1>2. /\ page' = [page EXCEPT ![o] = p]
        /\ attendees' = attendees /\ told' = told
    BY <1>1 DEF Post
  <1>3. /\ p.view = view /\ p.step = "mailing" /\ p.mails = mails
        /\ p.sent = {} /\ p.attendee = page[o].attendee
        /\ p.status = page[o].status /\ p.pending = page[o].pending
        /\ p.groups = page[o].groups
    BY <1>0, <1>1 DEF Page
  <1>4. Shape(p)
    BY <1>0, <1>3 DEF Shape
  <1>5. ConcernedBy(page[o]) = {}
    BY DEF ConcernedBy
  <1>6. ASSUME NEW a \in ConcernedBy(p) \ mistaken'
        PROVE  a \in Recipients(mails) /\ a \notin Handled /\ Due(p, a)'
    <2>1. a \in Recipients(mails)
      <3>1. p.pending[a] = "nothing"
        BY <1>0, <1>3, <1>6, NoMailsIsNothing DEF Shape, ConcernedBy
      <3>2. p.attendee = a => mails[a] # "nothing"
        <4>1. CASE view = "list"
          BY <1>0, <1>3, <1>6, <4>1, AttendeeStatusConstants
          DEF Shape, ConcernedBy
        <4>2. CASE view = "dialog"
          BY <1>0, <1>3, <1>6, <4>2 DEF Shape, Standings, ConcernedBy, NoMails
        <4> QED
          BY <4>1, <4>2
      <3> QED
        BY <1>3, <1>6, <3>1, <3>2 DEF ConcernedBy, Recipients
    <2>2. a \notin Handled /\ (view = "list" => Says(mails[a], a))
      BY <1>6, <2>1
    <2> QED
      BY <1>2, <1>3, <2>1, <2>2 DEF Due, Says
  <1> QED
    BY <1>2, <1>4, <1>5, <1>6, HandlerStep

LEMMA ToldPageStep ==
    ASSUME ToldInv, NEW o \in Organizers, PageStep(o)
    PROVE  ToldInv'
  <1>0. /\ Base /\ Base' /\ page[o] \in Page /\ Shape(page[o])
        /\ attendees \in [Attendees -> Row] /\ page \in [Organizers -> Page]
    BY BasePageStep DEF ToldInv, Base, TypeOK
  <1>1. CASE RefetchList(o)
    <2>1. PICK p \in Page : p = [page[o] EXCEPT !.list = attendees]
      BY <1>0, PageTypes
    <2>2. /\ page' = [page EXCEPT ![o] = p]
          /\ UNCHANGED <<attendees, told, mistaken>>
      BY <1>1, <2>1 DEF RefetchList
    <2>3. /\ p.view = page[o].view /\ p.step = page[o].step
          /\ p.attendee = page[o].attendee /\ p.status = page[o].status
          /\ p.pending = page[o].pending /\ p.groups = page[o].groups
          /\ p.mails = page[o].mails /\ p.sent = page[o].sent
      BY <1>0, <2>1 DEF Page
    <2>4. Shape(p) /\ ConcernedBy(p) = ConcernedBy(page[o])
      BY <1>0, <2>3 DEF Shape, ConcernedBy
    <2>5. ASSUME NEW a \in ConcernedBy(p) \ mistaken'
          PROVE  Due(p, a)'
      <3>1. Due(page[o], a)
        BY <2>2, <2>4, <2>5 DEF ToldInv, ConcernedBy
      <3> QED
        BY <2>2, <2>3, <3>1 DEF Due, Says
    <2> QED
      BY <1>0, <2>2, <2>4, <2>5, HandlerStep
  <1>2. ASSUME NEW a \in Attendees, NEW s \in Decisions, NEW closed \in BOOLEAN,
               handleUpdateStatus(o, a, s, closed)
        PROVE  ToldInv'
    <2> DEFINE ask == Asked(o, a, closed)
    <2>1. s \in Standings /\ page[o].view = "list" /\ page[o].step = "idle"
      BY <1>2, AttendeeStatusConstants DEF handleUpdateStatus, Idle
    <2>2. PICK p \in Page :
             p = [page[o] EXCEPT !.attendee = a, !.status = s,
                                 !.view = IF ask THEN "dialog" ELSE "list",
                                 !.step = IF ask THEN "idle" ELSE "patching"]
      BY <1>0, <2>1, PageTypes
    <2>3. /\ page' = [page EXCEPT ![o] = p] /\ UNCHANGED <<attendees, told>>
          /\ mistaken \subseteq mistaken'
      BY <1>2, <2>2 DEF handleUpdateStatus
    <2>4. /\ p.attendee = a /\ p.status = s
          /\ p.view = IF ask THEN "dialog" ELSE "list"
          /\ p.step = IF ask THEN "idle" ELSE "patching"
          /\ p.pending = page[o].pending /\ p.mails = page[o].mails
          /\ p.sent = page[o].sent
      BY <1>0, <2>2 DEF Page
    <2>5. p.pending = NoMails /\ p.mails = NoMails /\ p.sent = {}
      BY <1>0, <2>1, <2>4 DEF Shape
    <2>6. Shape(p)
      BY <2>1, <2>4, <2>5 DEF Shape
    <2>7. ConcernedBy(page[o]) = {}
      BY <2>1 DEF ConcernedBy
    <2>8. ConcernedBy(p) = IF ask THEN {} ELSE {a}
      BY <2>4, <2>5, NoMailsIsNothing DEF ConcernedBy
    <2>9. ASSUME ~ask, a \notin mistaken'
          PROVE  a \notin Handled /\ Due(p, a)'
      <3>1. a \notin Handled /\ attendees[a].responded = page[o].list[a].responded
        BY <1>2, <2>9 DEF handleUpdateStatus
      <3>2. ~attendees'[a].responded
        <4>1. page[o].list[a] \in Row /\ attendees[a] \in Row
          BY <1>0 DEF Page
        <4> QED
          BY <2>3, <2>9, <3>1, <4>1 DEF Asked, Row
      <3> QED
        BY <2>4, <2>9, <3>1, <3>2 DEF Due
    <2> QED
      BY <1>0, <2>3, <2>6, <2>7, <2>8, <2>9, HandlerStep
  <1>3. CASE ConfirmDialog(o)
    <2> DEFINE mails == [NoMails EXCEPT ![page[o].attendee] = page[o].status]
    <2>1. /\ page[o].view = "dialog" /\ page[o].step = "idle"
          /\ page[o].attendee \in Attendees /\ page[o].status \in Standings
      BY <1>0, <1>3 DEF ConfirmDialog, Idle, Shape
    <2>2. mails \in Mails
      BY <2>1, NoMailsTypes DEF Mails, Told
    <2>3. Recipients(mails) \subseteq {page[o].attendee}
      BY NoMailsIsNothing DEF Recipients, NoMails
    <2>4. /\ Post(o, "dialog", mails)
          /\ mistaken' = mistaken \cup (Handled \cap {page[o].attendee})
      BY <1>3 DEF ConfirmDialog
    <2> HIDE DEF mails
    <2>5. mails = [NoMails EXCEPT ![page[o].attendee] = page[o].status]
      BY DEF mails
    <2>6. \A a \in Recipients(mails) \ mistaken' : a \notin Handled
      BY <2>3, <2>4
    <2> QED
      BY <1>0, <2>1, <2>2, <2>4, <2>5, <2>6, PostStep
  <1>4. CASE CancelDialog(o)
    <2>1. PICK p \in Page : p = [page[o] EXCEPT !.view = "list",
                                   !.attendee = Nobody, !.status = "pending"]
      BY <1>0, PageTypes
    <2>2. /\ page' = [page EXCEPT ![o] = p] /\ page[o].step = "idle"
          /\ UNCHANGED <<attendees, told, mistaken>> /\ page[o].view = "dialog"
      BY <1>4, <2>1 DEF CancelDialog, Idle
    <2>3. p.step = "idle" /\ Shape(p)
      BY <1>0, <2>1, <2>2 DEF Shape, Page
    <2> QED
      BY <1>0, <2>2, <2>3, IdleStep
  <1>5. CASE handleRequestClose(o)
    <2>1. Unnotified(page[o].list) \in [Attendees -> Standings \cup {"nothing"}]
      <3>1. \A a \in Attendees : page[o].list[a].status \in Status
        BY <1>0 DEF Page, Row
      <3> QED
        BY <3>1, StandingTold DEF Unnotified
    <2>2. PICK p \in Page : p = [page[o] EXCEPT !.view = "notify",
                                   !.pending = Unnotified(page[o].list)]
      BY <1>0, <2>1, PageGroupTypes, NoMailsTypes
    <2>3. /\ page' = [page EXCEPT ![o] = p] /\ page[o].step = "idle"
          /\ UNCHANGED <<attendees, told, mistaken>> /\ page[o].view = "list"
      BY <1>5, <2>2 DEF handleRequestClose, Idle
    <2>4. /\ p.step = "idle" /\ p.view = "notify"
          /\ p.mails = page[o].mails /\ p.sent = page[o].sent
          /\ p.attendee = page[o].attendee
      BY <1>0, <2>2, <2>3 DEF Page
    <2>5. Shape(p)
      BY <1>0, <2>3, <2>4, NoMailsIsNothing DEF Shape
    <2> QED
      BY <1>0, <2>3, <2>4, <2>5, IdleStep
  <1>6. CASE handleNotifyBeforeCloseLater(o)
    <2>1. PICK p \in Page : p = [page[o] EXCEPT !.view = "list",
                                   !.pending = NoMails]
      BY <1>0, PageGroupTypes, NoMailsTypes
    <2>2. /\ page' = [page EXCEPT ![o] = p] /\ page[o].step = "idle"
          /\ UNCHANGED <<attendees, told, mistaken>> /\ page[o].view = "notify"
      BY <1>6, <2>1 DEF handleNotifyBeforeCloseLater, Idle
    <2>3. p.step = "idle" /\ Shape(p)
      BY <1>0, <2>1, <2>2 DEF Shape, Page
    <2> QED
      BY <1>0, <2>2, <2>3, IdleStep
  <1>7. CASE handleNotifyBeforeCloseNow(o)
    <2> DEFINE pending == page[o].pending
               groups == {pending[a] : a \in Recipients(pending)}
    <2>1. groups \in SUBSET Standings
      BY <1>0 DEF Page, Recipients
    <2>2. PICK p \in Page : p = [page[o] EXCEPT !.step = "grouping",
                                                !.groups = groups]
      BY <1>0, <2>1, PageGroupTypes, NoMailsTypes
    <2>3. /\ page' = [page EXCEPT ![o] = p] /\ page[o].step = "idle"
          /\ UNCHANGED <<attendees, told>> /\ page[o].view = "notify"
          /\ mistaken' = mistaken \cup Wrong(pending)
                                  \cup (Handled \cap Recipients(pending))
      BY <1>7, <2>2 DEF handleNotifyBeforeCloseNow, Idle
    <2>4. /\ p.step = "grouping" /\ p.view = "notify" /\ p.groups = groups
          /\ p.mails = page[o].mails /\ p.sent = page[o].sent
          /\ p.attendee = page[o].attendee /\ p.pending = pending
      BY <1>0, <2>2, <2>3 DEF Page
    <2>5. Shape(p) /\ p.attendee = Nobody /\ p.mails = NoMails
      BY <1>0, <2>3, <2>4 DEF Shape
    <2>6. ConcernedBy(page[o]) = {}
      BY <2>3 DEF ConcernedBy
    <2>7. ASSUME NEW a \in ConcernedBy(p) \ mistaken'
          PROVE  a \notin Handled /\ Due(p, a)'
      <3>1. a \in Attendees /\ pending[a] # "nothing"
        BY <2>4, <2>5, <2>7, NoMailsIsNothing, AttendeeStatusConstants
        DEF ConcernedBy
      <3>2. a \in Recipients(pending) /\ pending[a] \in groups
        BY <3>1 DEF Recipients
      <3>3. pending[a] \in Standings
        BY <1>0, <3>1 DEF Page
      <3>4. pending[a] = Standing(attendees[a].status)
        BY <2>3, <2>7, <3>1, <3>3 DEF Wrong
      <3> QED
        BY <2>3, <2>4, <2>7, <3>2, <3>4 DEF Due, Says
    <2> QED
      BY <1>0, <2>3, <2>5, <2>6, <2>7, HandlerStep
  <1>8. ASSUME NEW to \in SUBSET Attendees, NEW text \in Told,
               Message(o, to, text)
        PROVE  ToldInv'
    <2> DEFINE mails == [a \in Attendees |-> IF a \in to THEN text ELSE "nothing"]
    <2>1. mails \in Mails
      BY DEF Mails, Told
    <2>2. /\ Post(o, "list", mails) /\ page[o].step = "idle"
          /\ page[o].view = "list"
          /\ mistaken' = mistaken \cup Wrong(mails) \cup (Handled \cap to)
      BY <1>8 DEF Message, Idle
    <2>3. ASSUME NEW a \in Recipients(mails) \ mistaken'
          PROVE  a \notin Handled /\ Says(mails[a], a)
      <3>1. a \in Attendees /\ a \in to /\ mails[a] = text /\ text # "nothing"
        BY <2>3 DEF Recipients
      <3>2. text # "message" => mails[a] = Standing(attendees[a].status)
        BY <2>2, <2>3, <3>1 DEF Wrong, Told
      <3> QED
        BY <2>2, <2>3, <3>1, <3>2 DEF Says
    <2> HIDE DEF mails
    <2> QED
      BY <1>0, <2>1, <2>2, <2>3, PostStep
  <1>9. CASE CloseMeet(o)
    <2>1. PICK p \in Page : p = [page[o] EXCEPT !.step = "listing"]
      BY <1>0, PageTypes
    <2>2. /\ page' = [page EXCEPT ![o] = p] /\ page[o].step = "idle"
          /\ UNCHANGED <<attendees, told, mistaken>> /\ page[o].view = "list"
      BY <1>9, <2>1 DEF CloseMeet, Idle
    <2>3. p.step = "listing" /\ Shape(p)
      BY <1>0, <2>1, <2>2 DEF Shape, Page
    <2> QED
      BY <1>0, <2>2, <2>3, IdleStep
  <1> QED
    BY <1>1, <1>2, <1>3, <1>4, <1>5, <1>6, <1>7, <1>8, <1>9 DEF PageStep

LEMMA ToldRequestStep ==
    ASSUME ToldInv, NEW o \in Organizers, RequestStep(o)
    PROVE  ToldInv'
  <1>0. /\ Base /\ Base' /\ page[o] \in Page /\ Shape(page[o])
        /\ attendees \in [Attendees -> Row] /\ page \in [Organizers -> Page]
        /\ told \in Mails
    BY BaseRequestStep DEF ToldInv, Base, TypeOK
  <1>1. \A a \in Attendees \ mistaken :
           a \in ConcernedBy(page[o]) => Due(page[o], a)
    BY DEF ToldInv
  <1>2. ASSUME NEW status \in Standings, NextGroup(o, status) PROVE ToldInv'
    <2> DEFINE groups == page[o].groups \ {status}
               mails == Group(page[o].pending, status)
    <2>1. mails \in Mails /\ groups \in SUBSET Standings
      BY <1>0 DEF Group, Mails, Told, Page
    <2>2. PICK p \in Page :
             p = [page[o] EXCEPT !.step = "mailing", !.sent = {},
                                 !.groups = groups, !.mails = mails]
      BY <1>0, <2>1, PageGroupTypes, NoMailsTypes
    <2>3. /\ page' = [page EXCEPT ![o] = p] /\ page[o].step = "grouping"
          /\ UNCHANGED <<attendees, told, mistaken>> /\ page[o].view = "notify"
      BY <1>0, <1>2, <2>2 DEF NextGroup, Shape
    <2>4. /\ p.step = "mailing" /\ p.view = "notify" /\ p.groups = groups
          /\ p.mails = mails /\ p.sent = {} /\ p.pending = page[o].pending
          /\ p.attendee = page[o].attendee
      BY <1>0, <2>2, <2>3 DEF Page
    <2>5. \A a \in Attendees :
             mails[a] = IF page[o].pending[a] = status THEN status ELSE "nothing"
      BY DEF Group
    <2> HIDE DEF mails
    <2>6. Shape(p) /\ page[o].attendee = Nobody /\ page[o].mails = NoMails
      BY <1>0, <2>3, <2>4, <2>5 DEF Shape
    <2>7. ConcernedBy(p) = {a \in Attendees : page[o].pending[a] # "nothing"}
      BY <2>4, <2>5, <2>6, AttendeeStatusConstants DEF ConcernedBy, Standings
    <2>8. ConcernedBy(page[o]) = {a \in Attendees : page[o].pending[a] # "nothing"}
      BY <2>3, <2>6, NoMailsIsNothing, AttendeeStatusConstants DEF ConcernedBy
    <2>9. ASSUME NEW a \in ConcernedBy(p) \ mistaken'
          PROVE  Due(p, a)'
      <3>1. Due(page[o], a) /\ a \in Attendees
        BY <1>1, <2>3, <2>7, <2>8, <2>9
      <3>2. page[o].mails[a] = "nothing"
        BY <2>6, <3>1, NoMailsIsNothing
      <3>3. page[o].pending[a] = status => p.mails[a] # "nothing"
        BY <2>4, <2>5, <3>1 DEF Standings
      <3> QED
        BY <2>3, <2>4, <3>1, <3>2, <3>3 DEF Due, Says
    <2> QED
      BY <1>0, <2>3, <2>6, <2>7, <2>8, <2>9, HandlerStep
  <1>3. CASE AllGroupsDone(o)
    <2>1. PICK p \in Page :
             p = [page[o] EXCEPT !.view = "list", !.step = "refetching",
                                 !.pending = NoMails]
      BY <1>0, PageGroupTypes, NoMailsTypes
    <2>2. /\ page' = [page EXCEPT ![o] = p] /\ page[o].step = "grouping"
          /\ UNCHANGED <<attendees, told, mistaken>> /\ page[o].view = "notify"
          /\ page[o].groups = {}
      BY <1>0, <1>3, <2>1 DEF AllGroupsDone, Shape
    <2>3. p.step = "refetching" /\ Shape(p) /\ page[o].mails = NoMails
      BY <1>0, <2>1, <2>2 DEF Shape, Page
    <2>4. ConcernedBy(p) = {}
      BY <2>3 DEF ConcernedBy
    <2>5. ASSUME NEW a \in ConcernedBy(page[o]) \ mistaken'
          PROVE  ToldRight(a)'
      <3>1. Due(page[o], a) /\ a \in Attendees
        BY <1>1, <2>2, <2>5 DEF ConcernedBy
      <3>2. Says(page[o].pending[a], a) /\ told[a] = page[o].pending[a]
        BY <2>2, <2>3, <3>1, NoMailsIsNothing DEF Due
      <3> QED
        BY <2>2, <3>2 DEF ToldRight, Says
    <2> QED
      BY <1>0, <2>2, <2>3, <2>4, <2>5, HandlerStep
  <1>4. CASE ListAttendees(o)
    <2> DEFINE mails == [a \in Attendees |-> Standing(attendees[a].status)]
    <2>1. mails \in Mails
      BY <1>0, StandingTold DEF Row, Mails, Told
    <2>2. /\ Post(o, "list", mails) /\ page[o].step = "listing"
          /\ page[o].view = "list"
          /\ mistaken' = mistaken \cup (Handled \cap Recipients(mails))
      BY <1>0, <1>4 DEF ListAttendees, Shape
    <2>3. ASSUME NEW a \in Recipients(mails) \ mistaken'
          PROVE  a \notin Handled /\ Says(mails[a], a)
      <3>1. a \in Attendees
        BY <2>3 DEF Recipients
      <3>2. a \notin Handled
        BY <2>2, <2>3
      <3> QED
        BY <3>1, <3>2 DEF Says
    <2> HIDE DEF mails
    <2> QED
      BY <1>0, <2>1, <2>2, <2>3, PostStep
  <1>5. ASSUME NEW b \in Attendees, SendMail(o, b) PROVE ToldInv'
    <2>1. PICK p \in Page : p = [page[o] EXCEPT !.sent = @ \cup {b}]
      BY <1>0, PageRequestTypes
    <2>2. /\ page' = [page EXCEPT ![o] = p] /\ page[o].step = "mailing"
          /\ UNCHANGED <<attendees, mistaken>> /\ page[o].mails[b] # "nothing"
          /\ told' = [told EXCEPT ![b] = page[o].mails[b]]
      BY <1>5, <2>1 DEF SendMail, Recipients
    <2>3. /\ p.step = "mailing" /\ p.view = page[o].view
          /\ p.groups = page[o].groups /\ p.mails = page[o].mails
          /\ p.sent = page[o].sent \cup {b} /\ p.pending = page[o].pending
          /\ p.attendee = page[o].attendee /\ p.status = page[o].status
      BY <1>0, <2>1, <2>2 DEF Page
    <2>4. Shape(p)
      BY <1>0, <2>2, <2>3 DEF Shape
    <2>5. ConcernedBy(p) = ConcernedBy(page[o]) /\ b \in ConcernedBy(p)
      BY <2>2, <2>3 DEF ConcernedBy
    <2>6. \A a \in Attendees :
             told'[a] = IF a = b THEN page[o].mails[b] ELSE told[a]
      BY <1>0, <2>2 DEF Mails
    <2>7. ASSUME NEW a \in ConcernedBy(p) \ mistaken'
          PROVE  Due(p, a)'
      <3>1. Due(page[o], a) /\ a \in Attendees
        BY <1>1, <2>2, <2>5, <2>7 DEF ConcernedBy
      <3>2. CASE a = b
        <4>1. /\ page[o].view = "dialog" => page[o].mails[b] = page[o].status
              /\ page[o].view = "notify" => page[o].mails[b] = page[o].pending[b]
          BY <1>0, <2>2, NoMailsIsNothing DEF Shape, NoMails
        <4> QED
          BY <2>2, <2>3, <2>6, <3>1, <3>2, <4>1 DEF Due, Says
      <3>3. CASE a # b
        BY <2>2, <2>3, <2>6, <3>1, <3>3 DEF Due, Says
      <3> QED
        BY <3>2, <3>3
    <2> QED
      BY <1>0, <2>2, <2>4, <2>5, <2>6, <2>7, HandlerStep
  <1>6. CASE Mark(o)
    <2> DEFINE view == page[o].view
               step == CASE view = "dialog" -> "patching"
                         [] view = "notify" -> "grouping"
                         [] OTHER           -> "idle"
               to == Recipients(page[o].mails)
    <2>0. /\ view = page[o].view
          /\ view \in {"list", "dialog", "notify"}
          /\ step \in {"patching", "grouping", "idle"}
          /\ view = "dialog" => step = "patching"
          /\ view = "notify" => step = "grouping"
          /\ view = "list" => step = "idle"
      BY <1>0 DEF Page
    <2>1. PICK p \in Page : p = [page[o] EXCEPT !.step = step,
                                   !.mails = NoMails, !.sent = {}]
      BY <1>0, <2>0, PageRequestTypes, NoMailsTypes
    <2>2. /\ page' = [page EXCEPT ![o] = p] /\ page[o].step = "mailing"
          /\ UNCHANGED <<told, mistaken>> /\ to \subseteq page[o].sent
          /\ attendees' = [a \in Attendees |->
                             IF a \in to
                             THEN [attendees[a] EXCEPT !.responded = TRUE]
                             ELSE attendees[a]]
      BY <1>6, <2>1 DEF Mark, Marked
    <2>3. /\ p.step = step /\ p.view = view
          /\ p.groups = page[o].groups /\ p.mails = NoMails
          /\ p.sent = {} /\ p.pending = page[o].pending
          /\ p.attendee = page[o].attendee /\ p.status = page[o].status
      BY <1>0, <2>0, <2>1 DEF Page
    <2> HIDE DEF view, step
    <2>4. Shape(p)
      BY <1>0, <2>0, <2>2, <2>3, NoMailsIsNothing DEF Shape
    <2>5. to \subseteq ConcernedBy(page[o]) /\ to \subseteq Attendees
      BY <2>2 DEF Recipients, ConcernedBy
    <2>6. \A a \in Attendees : attendees'[a].status = attendees[a].status
      BY <1>0, <2>2 DEF Row
    <2>7. ConcernedBy(p) \subseteq ConcernedBy(page[o])
      BY <2>2, <2>3, NoMailsIsNothing DEF ConcernedBy
    <2>8. ASSUME NEW a \in ConcernedBy(p) \ mistaken'
          PROVE  Due(p, a)'
      <3>1. Due(page[o], a) /\ a \in Attendees /\ a \in ConcernedBy(page[o])
        BY <1>1, <2>2, <2>7, <2>8 DEF ConcernedBy
      <3>2. CASE view = "dialog"
        <4>1. a = page[o].attendee
          BY <1>0, <2>0, <2>3, <2>8, <3>1, <3>2, NoMailsIsNothing
          DEF Shape, ConcernedBy
        <4>2. a \in to
          BY <1>0, <2>2, <2>0, <3>1, <3>2, <4>1
          DEF Shape, Recipients, NoMails, Standings
        <4> QED
          BY <2>0, <2>2, <2>3, <3>1, <3>2, <4>2 DEF Due
      <3>3. CASE view = "notify"
        <4>1. Says(page[o].pending[a], a)
          BY <2>0, <3>1, <3>3 DEF Due
        <4>2. \/ page[o].pending[a] \in page[o].groups
              \/ told[a] = page[o].pending[a]
          BY <2>2, <2>0, <3>1, <3>3 DEF Due, Recipients
        <4> QED
          BY <2>0, <2>2, <2>3, <2>6, <3>1, <3>3, <4>1, <4>2 DEF Due, Says
      <3>4. CASE view = "list"
        BY <2>0, <2>3, <2>8, <3>4 DEF ConcernedBy
      <3> QED
        BY <2>0, <3>2, <3>3, <3>4
    <2>9. ASSUME NEW a \in ConcernedBy(page[o]) \ mistaken',
                 a \notin ConcernedBy(p)
          PROVE  ToldRight(a)'
      <3>1. Due(page[o], a) /\ a \in Attendees
        BY <1>1, <2>2, <2>9 DEF ConcernedBy
      <3>2. CASE view = "dialog"
        <4>1. a = page[o].attendee
          BY <1>0, <2>2, <2>9, <2>0, <3>1, <3>2, NoMailsIsNothing
          DEF Shape, ConcernedBy, NoMails
        <4> QED
          BY <2>0, <2>3, <2>9, <3>1, <3>2, <4>1 DEF ConcernedBy
      <3>3. CASE view = "notify"
        <4>1. page[o].pending[a] # "nothing"
          BY <1>0, <2>2, <2>9, <2>0, <3>1, <3>3, AttendeeStatusConstants
          DEF Shape, ConcernedBy
        <4> QED
          BY <2>0, <2>3, <2>9, <3>1, <3>3, <4>1 DEF ConcernedBy
      <3>4. CASE view = "list"
        <4>1. page[o].mails[a] # "nothing"
          BY <1>0, <2>2, <2>9, <2>0, <3>1, <3>4, NoMailsIsNothing,
             AttendeeStatusConstants DEF Shape, ConcernedBy
        <4>2. a \in page[o].sent
          BY <2>2, <3>1, <4>1 DEF Recipients
        <4>3. Says(page[o].mails[a], a) /\ told[a] = page[o].mails[a]
          BY <2>2, <2>0, <3>1, <3>4, <4>2 DEF Due
        <4> QED
          BY <2>2, <2>6, <3>1, <4>3 DEF ToldRight, Says
      <3> QED
        BY <2>0, <3>2, <3>3, <3>4
    <2>10. \A a \in Attendees :
              a \notin ConcernedBy(page[o]) => attendees'[a] = attendees[a]
      BY <2>2, <2>5
    <2> HIDE DEF to
    <2> QED
      BY <1>0, <2>2, <2>4, <2>7, <2>8, <2>9, <2>10, HandlerStep
  <1>7. CASE Patch(o)
    <2>1. PICK p \in Page :
             p = [page[o] EXCEPT !.view = "list", !.step = "refetching",
                                 !.attendee = Nobody, !.status = "pending"]
      BY <1>0, PageTypes
    <2>2. /\ page' = [page EXCEPT ![o] = p] /\ page[o].step = "patching"
          /\ UNCHANGED <<told, mistaken>>
          /\ attendees' = [attendees EXCEPT
                             ![page[o].attendee].status = page[o].status]
      BY <1>7, <2>1 DEF Patch
    <2>3. /\ page[o].view # "notify" /\ page[o].mails = NoMails
          /\ page[o].pending = NoMails /\ page[o].sent = {}
          /\ page[o].attendee \in Attendees /\ page[o].status \in Standings
      BY <1>0, <2>2 DEF Shape
    <2>4. p.step = "refetching" /\ Shape(p)
      BY <1>0, <2>1, <2>3 DEF Shape, Page
    <2>5. ConcernedBy(p) = {} /\ ConcernedBy(page[o]) = {page[o].attendee}
      BY <2>2, <2>3, <2>4, NoMailsIsNothing DEF ConcernedBy
    <2>6. PICK a \in Attendees : a = page[o].attendee
      BY <2>3
    <2>7. /\ attendees'[a].status = page[o].status
          /\ attendees'[a].responded = attendees[a].responded
          /\ \A b \in Attendees : b # a => attendees'[b] = attendees[b]
      BY <1>0, <2>2, <2>3, <2>6 DEF Row
    <2>8. ASSUME a \notin mistaken PROVE ToldRight(a)'
      <3>1. Due(page[o], a)
        BY <1>1, <2>5, <2>6, <2>8
      <3>2. CASE page[o].view = "list"
        BY <2>2, <2>7, <3>1, <3>2 DEF Due, ToldRight
      <3>3. CASE page[o].view = "dialog"
        <4>1. told'[a] = page[o].status
          BY <2>2, <3>1, <3>3 DEF Due
        <4>2. Standing(page[o].status) = page[o].status
          BY <2>3 DEF Standing, Standings
        <4> QED
          BY <2>7, <4>1, <4>2 DEF ToldRight, Says
      <3> QED
        BY <1>0, <2>3, <3>2, <3>3 DEF Page
    <2>9. ConcernedBy(page[o]) = {a}
      BY <2>5, <2>6
    <2>10. ASSUME NEW b \in Attendees \ mistaken'
           PROVE  /\ b \notin ConcernedBy(page[o]) =>
                        attendees'[b] = attendees[b] /\ told'[b] = told[b]
                  /\ b \in ConcernedBy(page[o]) => ToldRight(b)'
      BY <2>2, <2>7, <2>8, <2>9
    <2> QED
      BY <1>0, <2>2, <2>4, <2>5, <2>10, HandlerStep
  <1>8. CASE Refetched(o)
    <2>1. PICK p \in Page :
             p = [page[o] EXCEPT !.step = "idle", !.list = attendees]
      BY <1>0, PageTypes
    <2>2. /\ page' = [page EXCEPT ![o] = p] /\ page[o].step = "refetching"
          /\ UNCHANGED <<attendees, told, mistaken>> /\ page[o].view = "list"
      BY <1>0, <1>8, <2>1 DEF Refetched, Shape
    <2>3. p.step = "idle" /\ Shape(p)
      BY <1>0, <2>1, <2>2 DEF Shape, Page
    <2> QED
      BY <1>0, <2>2, <2>3, IdleStep
  <1>9. CASE Fail(o)
    <2> DEFINE inList == page[o].view = "list"
               attendee == IF inList THEN Nobody ELSE page[o].attendee
               status == IF inList THEN "pending" ELSE page[o].status
    <2>0. /\ attendee \in Attendees \cup {Nobody}
          /\ status \in Standings \cup {"pending"}
      BY <1>0 DEF Page
    <2>1. PICK p \in Page :
             p = [page[o] EXCEPT !.step = "idle", !.groups = {},
                                 !.mails = NoMails, !.sent = {},
                                 !.attendee = attendee, !.status = status]
      <3> HIDE DEF attendee, status
      <3> QED
        BY <1>0, <2>0, PageRequestTypes, NoMailsTypes
    <2>2. /\ page' = [page EXCEPT ![o] = p]
          /\ UNCHANGED <<attendees, told>>
          /\ mistaken' = mistaken \cup ConcernedBy(page[o])
      BY <1>9, <2>1, HandledByPages DEF Fail
    <2>3. /\ p.step = "idle" /\ p.view = page[o].view /\ p.mails = NoMails
          /\ p.sent = {} /\ p.pending = page[o].pending
          /\ p.attendee = attendee /\ p.status = status
      BY <1>0, <2>1 DEF Page
    <2>4. Shape(p)
      BY <1>0, <2>3, NoMailsIsNothing DEF Shape, Page
    <2>5. ConcernedBy(p) = {}
      BY <2>3 DEF ConcernedBy
    <2> HIDE DEF attendee, status
    <2> QED
      BY <1>0, <2>2, <2>4, <2>5, HandlerStep
  <1> QED
    BY <1>2, <1>3, <1>4, <1>5, <1>6, <1>7, <1>8, <1>9 DEF RequestStep

\* Check-in pages and applicants take away what a mail said only by a status
\* that tells nothing.
LEMMA ToldOtherStep ==
    ASSUME ToldInv,
           \/ \E s \in Scanners : ScannerStep(s)
           \/ \E a \in Attendees : ApplicantStep(a)
           \/ UNCHANGED vars
    PROVE  ToldInv'
  <1>0. /\ Base /\ Base' /\ attendees \in [Attendees -> Row]
    BY BaseOtherStep DEF ToldInv, Base, TypeOK
  <1>1. UNCHANGED <<page, told>> /\ mistaken \subseteq mistaken'
    BY DEF ScannerStep, LoadScanner, handleTapCheckin, handleUndoConfirm,
           ApplicantStep, withdrawAttendee, BeginEdit, EndEdit, vars
  <1>2. ASSUME NEW a \in Attendees \ mistaken'
        PROVE  /\ attendees'[a].responded = attendees[a].responded
               /\ \/ attendees'[a].status \in {"pending", "cancelled"}
                  \/ attendees'[a].status = attendees[a].status
                  \/ {attendees[a].status, attendees'[a].status}
                        \subseteq {"confirmed", "checked-in"}
    <2>1. ASSUME NEW b \in Attendees, NEW status,
                 attendees' = [attendees EXCEPT ![b].status = status]
          PROVE  /\ attendees'[a].responded = attendees[a].responded
                 /\ a # b => attendees'[a].status = attendees[a].status
                 /\ a = b => attendees'[a].status = status
      BY <1>0, <2>1 DEF Row
    <2>2. ASSUME NEW s \in Scanners, NEW b \in Attendees,
                 NEW status \in {"confirmed", "checked-in"},
                 attendees' = [attendees EXCEPT ![b].status = status],
                 mistaken' = mistaken \cup ({b} \ Accepted)
          PROVE  \/ attendees'[a].status = attendees[a].status
                 \/ {attendees[a].status, attendees'[a].status}
                       \subseteq {"confirmed", "checked-in"}
      BY <1>2, <2>1, <2>2 DEF Accepted
    <2>3. CASE \E s \in Scanners : ScannerStep(s)
      <3>1. PICK s \in Scanners : ScannerStep(s)
        BY <2>3
      <3>2. CASE LoadScanner(s)
        BY <3>2 DEF LoadScanner
      <3>3. ASSUME NEW b \in Attendees,
                   handleTapCheckin(s, b) \/ handleUndoConfirm(s, b)
            PROVE  /\ attendees'[a].responded = attendees[a].responded
                   /\ \/ attendees'[a].status = attendees[a].status
                      \/ {attendees[a].status, attendees'[a].status}
                            \subseteq {"confirmed", "checked-in"}
        BY <2>1, <2>2, <3>3 DEF handleTapCheckin, handleUndoConfirm
      <3> QED
        BY <3>1, <3>2, <3>3 DEF ScannerStep
    <2>4. CASE \E b \in Attendees : ApplicantStep(b)
      BY <2>1, <2>4 DEF ApplicantStep, withdrawAttendee, BeginEdit, EndEdit
    <2>5. CASE UNCHANGED vars
      BY <2>5 DEF vars
    <2> QED
      BY <2>3, <2>4, <2>5
  <1>3. ASSUME NEW a \in Attendees \ mistaken', NEW text, Says(text, a)
        PROVE  Says(text, a)'
    <2>1. Standing("confirmed") = Standing("checked-in")
      BY DEF Standing
    <2>2. attendees[a].status \in Status
      BY <1>0 DEF Row
    <2> QED
      BY <1>2, <1>3, <2>1, <2>2 DEF Says
  <1>4. ASSUME NEW a \in Attendees \ mistaken'
        PROVE  /\ OneHandler(a)'
               /\ \A o \in Organizers :
                     a \in ConcernedBy(page'[o]) => Due(page[o], a)'
               /\ (\A o \in Organizers : a \notin ConcernedBy(page'[o])) =>
                     ToldRight(a)'
    <2>1. /\ OneHandler(a)
          /\ \A o \in Organizers :
                a \in ConcernedBy(page[o]) => Due(page[o], a)
          /\ (\A o \in Organizers : a \notin ConcernedBy(page[o])) =>
                ToldRight(a)
      BY <1>1, <1>4 DEF ToldInv
    <2>2. OneHandler(a)'
      BY <1>1, <2>1 DEF OneHandler, ConcernedBy
    <2>3. ASSUME NEW o \in Organizers, a \in ConcernedBy(page'[o])
          PROVE  Due(page[o], a)'
      <3>1. Due(page[o], a) /\ page'[o] = page[o] /\ told'[a] = told[a]
        BY <1>1, <2>1, <2>3
      <3>2. \A text : Says(text, a) => Says(text, a)'
        BY <1>3
      <3>3. attendees'[a].responded = attendees[a].responded
        BY <1>2
      <3> HIDE DEF Says
      <3> QED
        BY <3>1, <3>2, <3>3 DEF Due
    <2>4. ASSUME \A o \in Organizers : a \notin ConcernedBy(page'[o])
          PROVE  ToldRight(a)'
      <3>1. ToldRight(a)
        BY <1>1, <2>1, <2>4
      <3> QED
        BY <1>1, <1>2, <1>3, <3>1 DEF ToldRight
    <2> QED
      BY <2>2, <2>3, <2>4
  <1> QED
    BY <1>0, <1>1, <1>4 DEF ToldInv, Shape, ConcernedBy

THEOREM ToldInvHolds == Spec => []ToldInv
  <1>1. ToldInv /\ [Next]_vars => ToldInv'
    BY ToldPageStep, ToldRequestStep, ToldOtherStep DEF Next
  <1> QED
    BY <1>1, ToldStart, PTL DEF Spec

\* What a notified attendee was told last is his status, unless somebody was
\* mistaken about him or a handler is about him just now
\* (ManageAttendeesModal.tsx, meets.controller.ts).
THEOREM ToldStaysSo == Spec => []ToldIsSo
  <1>1. ToldInv => ToldIsSo
    BY HandledByPages DEF ToldInv, ToldIsSo, ToldRight, Says
  <1> QED
    BY <1>1, ToldInvHolds, PTL

-----------------------------------------------------------------------------
(***************************************************************************)
(* AttendeeStatus implements AttendeeProtocol.  What a page intends only   *)
(* grows when its list is fetched, or when a button is pressed that the    *)
(* list offers; a decision that is held is one of the decisions.           *)
(***************************************************************************)
ProtocolStep == [Protocol!ProtocolNext]_(Protocol!protocolVars)

StatusesKept == \A a \in Attendees : attendees'[a].status = attendees[a].status

NoNewIntents ==
    \A a \in Attendees, s \in Status : Intended(a, s)' => Intended(a, s)

NewIntentsPermitted ==
    \A a \in Attendees, s \in Status :
        Intended(a, s)' =>
            Intended(a, s) \/ Protocol!Permitted(attendees[a].status, s)

DecisionHeld ==
    \A o \in Organizers :
        page[o].attendee \in Attendees => page[o].status \in Decisions

\* From the actions of AttendeeStatus to those of the protocol.
LEMMA LookStep ==
    ASSUME StatusesKept, NewIntentsPermitted
    PROVE  ProtocolStep
  <1>1. Protocol!Look
    BY DEF StatusesKept, NewIntentsPermitted, Protocol!Look,
           Protocol!PermittedIn, Protocol!Intent, Protocol!Statuses, Status,
           Standings
  <1> QED
    BY <1>1 DEF ProtocolStep, Protocol!ProtocolNext

LEMMA StatusSet ==
    ASSUME TypeOK, NEW a \in Attendees, NEW s \in Status,
           attendees' = [attendees EXCEPT ![a].status = s]
    PROVE  /\ [b \in Attendees |-> attendees'[b].status]
                = [[b \in Attendees |-> attendees[b].status] EXCEPT ![a] = s]
           /\ attendees'[a].status = s
  BY DEF TypeOK, Row

LEMMA WithdrawStep ==
    ASSUME TypeOK, NEW a \in Attendees, NoNewIntents,
           attendees' = [attendees EXCEPT ![a].status = "cancelled"]
    PROVE  ProtocolStep
  <1>1. Protocol!Withdraw(a)
    BY StatusSet DEF NoNewIntents, Protocol!Withdraw, Status
  <1> QED
    BY <1>1 DEF ProtocolStep, Protocol!ProtocolNext

LEMMA CarryOutStep ==
    ASSUME TypeOK, NEW a \in Attendees, NEW s \in Status, Intended(a, s),
           attendees' = [attendees EXCEPT ![a].status = s],
           \A b \in Attendees, r \in Status :
               Intended(b, r)' =>
                   Intended(b, r) \/ (b = a /\ Protocol!Permitted(s, r))
    PROVE  ProtocolStep
  <1> DEFINE i == [attendee |-> a, to |-> s]
  <1>1. i \in {j \in [attendee : Attendees, to : Status] :
                 Intended(j.attendee, j.to)}
    OBVIOUS
  <1>2. /\ [b \in Attendees |-> attendees'[b].status]
             = [[b \in Attendees |-> attendees[b].status] EXCEPT ![a] = s]
        /\ attendees'[a].status = s
    BY StatusSet
  <1>3. Protocol!CarryOut(i)
    BY <1>2 DEF Protocol!CarryOut, Protocol!PermittedIn, Protocol!Intent,
                Protocol!Statuses, Status, Standings
  <1> QED
    BY <1>1, <1>3 DEF ProtocolStep, Protocol!ProtocolNext

-----------------------------------------------------------------------------
\* One page moves, and takes up no decision.
PageQuiet(o) ==
    /\ \A p \in Organizers : p # o => page'[p] = page[p]
    /\ page'[o].attendee \in Attendees =>
          /\ page'[o].attendee = page[o].attendee
          /\ page'[o].status = page[o].status
    /\ UNCHANGED <<scanner, editing>>

LEMMA QuietKeepsDecisions ==
    ASSUME DecisionHeld, NEW o \in Organizers, PageQuiet(o)
    PROVE  DecisionHeld'
  BY DEF DecisionHeld, PageQuiet

LEMMA QuietIntendsNothing ==
    ASSUME NEW o \in Organizers, PageQuiet(o), page'[o].list = page[o].list
    PROVE  NoNewIntents
  BY DEF NoNewIntents, PageQuiet, Intended, PageIntends, ScannerIntends

LEMMA FetchingIsALook ==
    ASSUME TypeOK, NEW o \in Organizers, PageQuiet(o),
           page'[o].list = attendees
    PROVE  NewIntentsPermitted
  BY DEF NewIntentsPermitted, PageQuiet, Intended, PageIntends, ScannerIntends,
         Protocol!Permitted

\* What the steps of a page do to its list and its decision.
LEMMA PagesAreQuiet ==
    ASSUME TypeOK, NEW o \in Organizers,
           \/ RefetchList(o) \/ ConfirmDialog(o) \/ CancelDialog(o)
           \/ handleRequestClose(o) \/ handleNotifyBeforeCloseLater(o)
           \/ handleNotifyBeforeCloseNow(o) \/ CloseMeet(o)
           \/ \E to \in SUBSET Attendees, text \in Told : Message(o, to, text)
           \/ RequestStep(o)
    PROVE  /\ PageQuiet(o)
           /\ \/ page'[o].list = page[o].list
              \/ page'[o].list = attendees /\ UNCHANGED attendees
  <1> DEFINE Done ==
        /\ PageQuiet(o)
        /\ \/ page'[o].list = page[o].list
           \/ page'[o].list = attendees /\ UNCHANGED attendees
  <1> USE AttendeeStatusConstants DEF PageQuiet
  <1>0. page[o] \in Page /\ page \in [Organizers -> Page]
    BY DEF TypeOK
  <1>1. ASSUME RefetchList(o) \/ Refetched(o) PROVE Done
    <2>1. CASE RefetchList(o)
      BY <1>0, <2>1 DEF RefetchList, Page
    <2>2. CASE Refetched(o)
      BY <1>0, <2>2 DEF Refetched, Page
    <2> QED
      BY <1>1, <2>1, <2>2
  <1>2. ASSUME NEW view, NEW mails, Post(o, view, mails) PROVE Done
    BY <1>0, <1>2 DEF Post, Page
  <1>3. ASSUME ConfirmDialog(o) \/ ListAttendees(o) PROVE Done
    BY <1>2, <1>3 DEF ConfirmDialog, ListAttendees
  <1>4. ASSUME NEW to, NEW text, Message(o, to, text) PROVE Done
    BY <1>2, <1>4 DEF Message
  <1>5. ASSUME CancelDialog(o) \/ CloseMeet(o) PROVE Done
    <2>1. CASE CancelDialog(o)
      BY <1>0, <2>1 DEF CancelDialog, Page
    <2>2. CASE CloseMeet(o)
      BY <1>0, <2>2 DEF CloseMeet, Page
    <2> QED
      BY <1>5, <2>1, <2>2
  <1>6. ASSUME handleRequestClose(o) \/ handleNotifyBeforeCloseLater(o)
        PROVE  Done
    <2>1. CASE handleRequestClose(o)
      BY <1>0, <2>1 DEF handleRequestClose, Page
    <2>2. CASE handleNotifyBeforeCloseLater(o)
      BY <1>0, <2>2 DEF handleNotifyBeforeCloseLater, Page
    <2> QED
      BY <1>6, <2>1, <2>2
  <1>7. ASSUME handleNotifyBeforeCloseNow(o) PROVE Done
    BY <1>0, <1>7 DEF handleNotifyBeforeCloseNow, Page
  <1>8. ASSUME AllGroupsDone(o) \/ \E status \in Standings : NextGroup(o, status)
        PROVE  Done
    <2>1. CASE AllGroupsDone(o)
      BY <1>0, <2>1 DEF AllGroupsDone, Page
    <2>2. CASE \E status \in Standings : NextGroup(o, status)
      BY <1>0, <2>2 DEF NextGroup, Page
    <2> QED
      BY <1>8, <2>1, <2>2
  <1>9. ASSUME NEW a \in Attendees, SendMail(o, a) PROVE Done
    BY <1>0, <1>9 DEF SendMail, Page
  <1>10. ASSUME Mark(o) PROVE Done
    BY <1>0, <1>10 DEF Mark, Marked, Page
  <1>11. ASSUME Patch(o) PROVE Done
    BY <1>0, <1>11 DEF Patch, Page
  <1>12. ASSUME Fail(o) PROVE Done
    BY <1>0, <1>12 DEF Fail, Page
  <1> QED
    BY <1>1, <1>3, <1>4, <1>5, <1>6, <1>7, <1>8, <1>9, <1>10, <1>11, <1>12
    DEF RequestStep

LEMMA RefinePage ==
    ASSUME TypeOK, DecisionHeld, NEW o \in Organizers,
           PageStep(o) \/ RequestStep(o)
    PROVE  ProtocolStep /\ DecisionHeld'
  <1>0. page[o] \in Page /\ attendees \in [Attendees -> Row]
    BY DEF TypeOK
  <1>1. ASSUME NEW a \in Attendees, NEW s \in Decisions, NEW closed \in BOOLEAN,
               handleUpdateStatus(o, a, s, closed)
        PROVE  ProtocolStep /\ DecisionHeld'
    <2>1. /\ page'[o].list = page[o].list
          /\ page'[o].attendee = a /\ page'[o].status = s
          /\ \A p \in Organizers : p # o => page'[p] = page[p]
          /\ UNCHANGED <<attendees, scanner, editing>>
      BY <1>0, <1>1 DEF handleUpdateStatus, Page, TypeOK
    <2>2. PageIntends(o, a, s)
      BY <1>1 DEF handleUpdateStatus, PageIntends
    <2>3. NoNewIntents
      BY <2>1, <2>2 DEF NoNewIntents, Intended, PageIntends, ScannerIntends
    <2>4. DecisionHeld'
      BY <2>1 DEF DecisionHeld
    <2> QED
      BY <2>1, <2>3, <2>4, LookStep
      DEF NoNewIntents, NewIntentsPermitted, StatusesKept
  <1>2. ASSUME PageQuiet(o), page'[o].list = page[o].list,
               StatusesKept
        PROVE  ProtocolStep /\ DecisionHeld'
    BY <1>2, QuietKeepsDecisions, QuietIntendsNothing, LookStep
    DEF NoNewIntents, NewIntentsPermitted
  <1>3. ASSUME PageQuiet(o), page'[o].list = attendees, UNCHANGED attendees
        PROVE  ProtocolStep /\ DecisionHeld'
    BY <1>3, QuietKeepsDecisions, FetchingIsALook, LookStep DEF StatusesKept
  <1>4. CASE Patch(o)
    <2>1. PageQuiet(o) /\ page'[o].list = page[o].list
      BY <1>0, <1>4, AttendeeStatusConstants
      DEF Patch, PageQuiet, Page, TypeOK
    <2> DEFINE a == page[o].attendee
               s == page[o].status
    <2>2. CASE a \in Attendees
      <3>1. s \in Decisions /\ s \in Status
        BY <2>2, AttendeeStatusConstants DEF DecisionHeld, Status
      <3>2. Intended(a, s)
        BY <3>1 DEF Intended, PageIntends
      <3>3. attendees' = [attendees EXCEPT ![a].status = s]
        BY <1>4 DEF Patch
      <3>4. \A b \in Attendees, r \in Status :
               Intended(b, r)' => Intended(b, r)
        BY <2>1, QuietIntendsNothing DEF NoNewIntents
      <3> QED
        BY <2>1, <2>2, <3>1, <3>2, <3>3, <3>4, QuietKeepsDecisions,
           CarryOutStep
    <2>3. CASE a \notin Attendees
      <3>1. attendees' = attendees
        BY <1>0, <1>4, <2>3 DEF Patch
      <3> QED
        BY <1>2, <2>1, <3>1 DEF StatusesKept
    <2> QED
      BY <2>2, <2>3
  <1>5. ASSUME \/ RefetchList(o) \/ ConfirmDialog(o) \/ CancelDialog(o)
               \/ handleRequestClose(o) \/ handleNotifyBeforeCloseLater(o)
               \/ handleNotifyBeforeCloseNow(o) \/ CloseMeet(o)
               \/ \E to \in SUBSET Attendees, text \in Told :
                     Message(o, to, text)
               \/ RequestStep(o) /\ ~Patch(o)
        PROVE  ProtocolStep /\ DecisionHeld'
    <2>1. StatusesKept
      BY <1>0, <1>5 DEF StatusesKept, RefetchList, ConfirmDialog, CancelDialog,
         handleRequestClose, handleNotifyBeforeCloseLater,
         handleNotifyBeforeCloseNow, CloseMeet, Message, Post, RequestStep,
         NextGroup, AllGroupsDone, ListAttendees, SendMail, Mark, Marked,
         Refetched, Fail, Row
    <2> QED
      BY <1>2, <1>3, <1>5, <2>1, PagesAreQuiet
  <1> QED
    BY <1>1, <1>4, <1>5 DEF PageStep

-----------------------------------------------------------------------------
\* The pages keep what they intend while others move.
LEMMA PagesKeep ==
    ASSUME UNCHANGED page
    PROVE  /\ DecisionHeld => DecisionHeld'
           /\ \A a \in Attendees, s \in Status :
                Intended(a, s)' =>
                   \/ Intended(a, s)
                   \/ \E n \in Scanners : ScannerIntends(n, a, s)'
                   \/ s = "pending" /\ a \in editing'
  BY DEF DecisionHeld, Intended, PageIntends

LEMMA RefineScanner ==
    ASSUME TypeOK, NEW n \in Scanners, ScannerStep(n)
    PROVE  ProtocolStep
  <1>0. /\ scanner \in [Scanners -> Scanner] /\ scanner[n] \in Scanner
        /\ attendees \in [Attendees -> Row]
        /\ UNCHANGED <<page, editing>>
    BY DEF TypeOK, ScannerStep, LoadScanner, handleTapCheckin, handleUndoConfirm
  <1>1. ASSUME NEW a \in Attendees, NEW s \in Status, Intended(a, s)'
        PROVE  Intended(a, s) \/ \E k \in Scanners : ScannerIntends(k, a, s)'
    BY <1>0, <1>1, PagesKeep DEF Intended
  <1>2. CASE LoadScanner(n)
    <2>1. ASSUME NEW a \in Attendees, NEW s \in Status, NEW k \in Scanners,
                 ScannerIntends(k, a, s)'
          PROVE  Intended(a, s) \/ Protocol!Permitted(attendees[a].status, s)
      <3>1. CASE k # n
        BY <1>0, <1>2, <2>1, <3>1 DEF LoadScanner, Intended, ScannerIntends
      <3>2. CASE k = n
        <4>1. /\ scanner'[n].accepted = Accepted
              /\ scanner'[n].checked =
                   {b \in Attendees : attendees[b].status = "checked-in"}
          BY <1>0, <1>2 DEF LoadScanner
        <4> QED
          BY <2>1, <3>2, <4>1
          DEF ScannerIntends, Accepted, Protocol!Permitted
      <3> QED
        BY <3>1, <3>2
    <2>2. NewIntentsPermitted
      BY <1>1, <2>1 DEF NewIntentsPermitted
    <2> QED
      BY <1>2, <2>2, LookStep DEF LoadScanner, StatusesKept
  <1>3. ASSUME NEW a \in Attendees, NEW s \in Status, NEW back \in Status,
               attendees' = [attendees EXCEPT ![a].status = s],
               ScannerIntends(n, a, s),
               Protocol!Permitted(s, back),
               \A k \in Scanners, b \in Attendees, r \in Status :
                  ScannerIntends(k, b, r)' =>
                     ScannerIntends(k, b, r) \/ (b = a /\ r = back)
        PROVE  ProtocolStep
    <2>1. Intended(a, s)
      BY <1>3 DEF Intended
    <2>2. \A b \in Attendees, r \in Status :
             Intended(b, r)' =>
                Intended(b, r) \/ (b = a /\ Protocol!Permitted(s, r))
      BY <1>1, <1>3 DEF Intended
    <2> QED
      BY <1>3, <2>1, <2>2, CarryOutStep
  <1>4. /\ "checked-in" \in Status /\ "confirmed" \in Status
        /\ Protocol!Permitted("checked-in", "confirmed")
        /\ Protocol!Permitted("confirmed", "checked-in")
    BY DEF Status, Standings, Protocol!Permitted
  <1>5. ASSUME NEW a \in Attendees, handleTapCheckin(n, a) PROVE ProtocolStep
    <2>1. \A k \in Scanners :
             /\ scanner'[k].accepted = scanner[k].accepted
             /\ scanner'[k].checked \in {scanner[k].checked,
                                         scanner[k].checked \cup {a}}
      BY <1>0, <1>5 DEF handleTapCheckin, Scanner
    <2>2. \A k \in Scanners, b \in Attendees, r \in Status :
             ScannerIntends(k, b, r)' =>
                ScannerIntends(k, b, r) \/ (b = a /\ r = "confirmed")
      BY <2>1 DEF ScannerIntends
    <2>3. ScannerIntends(n, a, "checked-in")
      BY <1>5 DEF handleTapCheckin, ScannerIntends
    <2> QED
      BY <1>3, <1>4, <1>5, <2>2, <2>3 DEF handleTapCheckin
  <1>6. ASSUME NEW a \in Attendees, handleUndoConfirm(n, a) PROVE ProtocolStep
    <2>1. \A k \in Scanners :
             /\ scanner'[k].accepted = scanner[k].accepted
             /\ scanner'[k].checked \in {scanner[k].checked,
                                         scanner[k].checked \ {a}}
      BY <1>0, <1>6 DEF handleUndoConfirm, Scanner
    <2>2. \A k \in Scanners, b \in Attendees, r \in Status :
             ScannerIntends(k, b, r)' =>
                ScannerIntends(k, b, r) \/ (b = a /\ r = "checked-in")
      BY <2>1 DEF ScannerIntends
    <2>3. ScannerIntends(n, a, "confirmed")
      BY <1>6 DEF handleUndoConfirm, ScannerIntends
    <2> QED
      BY <1>3, <1>4, <1>6, <2>2, <2>3 DEF handleUndoConfirm
  <1> QED
    BY <1>2, <1>5, <1>6 DEF ScannerStep

LEMMA RefineApplicant ==
    ASSUME TypeOK, NEW a \in Attendees, ApplicantStep(a)
    PROVE  ProtocolStep
  <1>1. UNCHANGED <<page, scanner>>
    BY DEF ApplicantStep, withdrawAttendee, BeginEdit, EndEdit
  <1>2. \A b \in Attendees, s \in Status :
           Intended(b, s)' =>
              Intended(b, s) \/ (s = "pending" /\ b \in editing')
    BY <1>1 DEF Intended, PageIntends, ScannerIntends
  <1>3. CASE withdrawAttendee(a)
    <2>1. NoNewIntents
      BY <1>2, <1>3 DEF withdrawAttendee, NoNewIntents, Intended
    <2> QED
      BY <1>3, <2>1, WithdrawStep DEF withdrawAttendee
  <1>4. CASE BeginEdit(a)
    <2>1. NewIntentsPermitted
      BY <1>2, <1>4
      DEF BeginEdit, NewIntentsPermitted, Intended, Protocol!Permitted
    <2> QED
      BY <1>4, <2>1, LookStep DEF BeginEdit, StatusesKept
  <1>5. CASE EndEdit(a)
    <2>1. \A b \in Attendees, s \in Status :
             Intended(b, s)' => Intended(b, s)
      BY <1>2, <1>5 DEF EndEdit, Intended
    <2>2. "pending" \in Status /\ Intended(a, "pending")
      BY <1>5 DEF EndEdit, Intended, Status
    <2> QED
      BY <1>5, <2>1, <2>2, CarryOutStep DEF EndEdit
  <1> QED
    BY <1>3, <1>4, <1>5 DEF ApplicantStep

LEMMA RefineStart == Init => Protocol!ProtocolInit /\ DecisionHeld
  <1> SUFFICES ASSUME Init PROVE Protocol!ProtocolInit /\ DecisionHeld
    OBVIOUS
  <1>1. \A a \in Attendees : attendees[a].status = "pending"
    BY DEF Init, Applied
  <1>2. ASSUME NEW a \in Attendees, NEW s \in Status, Intended(a, s)
        PROVE  Protocol!Permitted("pending", s)
    BY <1>2, AttendeeStatusConstants
    DEF Init, Applied, Intended, PageIntends, ScannerIntends,
        Protocol!Permitted
  <1>3. Protocol!ProtocolInit
    BY <1>1, <1>2 DEF Protocol!ProtocolInit, Protocol!PermittedIn,
       Protocol!Intent, Protocol!Statuses, Status, Standings
  <1>4. DecisionHeld
    BY AttendeeStatusConstants DEF Init, DecisionHeld
  <1> QED
    BY <1>3, <1>4

LEMMA RefineStep ==
    ASSUME TypeOK, DecisionHeld, [Next]_vars
    PROVE  ProtocolStep /\ DecisionHeld'
  <1>1. ASSUME NEW n \in Scanners, ScannerStep(n)
        PROVE  ProtocolStep /\ DecisionHeld'
    BY <1>1, RefineScanner, PagesKeep
    DEF ScannerStep, LoadScanner, handleTapCheckin, handleUndoConfirm
  <1>2. ASSUME NEW a \in Attendees, ApplicantStep(a)
        PROVE  ProtocolStep /\ DecisionHeld'
    BY <1>2, RefineApplicant, PagesKeep
    DEF ApplicantStep, withdrawAttendee, BeginEdit, EndEdit
  <1>3. CASE UNCHANGED vars
    BY <1>3 DEF vars, DecisionHeld, ProtocolStep, Protocol!protocolVars,
                Intended, PageIntends, ScannerIntends
  <1> QED
    BY <1>1, <1>2, <1>3, RefinePage DEF Next

\* Whatever becomes of an application was permitted by a status somebody saw,
\* or is its withdrawal (AttendeeActionButtons.tsx:22-95,
\* MeetCheckinPage.tsx:41-96, meets.service.ts:727-767).
THEOREM StatusesRefineProtocol == Spec => RefinesAttendeeProtocol
  <1>1. Spec => [](TypeOK /\ DecisionHeld)
    BY RefineStart, RefineStep, TypeCorrectness, PTL DEF Spec
  <1>2. Spec => [][Protocol!ProtocolNext]_(Protocol!protocolVars)
    BY <1>1, RefineStep, PTL DEF Spec, ProtocolStep
  <1> QED
    BY <1>2, RefineStart, PTL
    DEF Spec, RefinesAttendeeProtocol, Protocol!ProtocolSpec
=============================================================================
