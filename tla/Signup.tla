-------------------------------- MODULE Signup --------------------------------
(***************************************************************************)
(* Signing up for one meet: the rows of table meet_attendees, the sheets   *)
(* (browser pages) people fill in, and the requests their clicks start.    *)
(*                                                                         *)
(* A click on "Submit application" asks the API whether the contact is on  *)
(* the list already and, if it is not, posts the application.  The API     *)
(* reads the highest sequence number, inserts the row with the next one,   *)
(* commits, and only then mails the applicant the link that edits the      *)
(* application.  It looks neither at the meet's status nor for the contact *)
(* again, and no key of the table forbids a second row for it.  A click on *)
(* "Update" in a sheet opened from that link patches the row.              *)
(*                                                                         *)
(* Simplifications.  Of an application only the contact is kept, and of    *)
(* the meet only whether its status is Open.  The check made when a field  *)
(* loses focus is answered at once: all it does is open a dialog.  Rows    *)
(* are never removed: handleRemove of the sheet is passed to a dialog that *)
(* ignores it, and nothing else in web/ sends the DELETE.                  *)
(***************************************************************************)
EXTENDS Integers

CONSTANTS
    Sheets,           \* browser pages
    Requests,         \* clicks on "Submit application" or "Update"
    Contacts,         \* what may be entered: email, phone, minor or not
    OrganizerContact, \* the contact of the organizer's own row
    Organizer,        \* id of that row
    Nobody            \* no sheet, no row, no request, no contact

\* A row inserted for request r has id r.
Ids == Requests \cup {Organizer}

ASSUME SignupConstants ==
    /\ \A c \in Contacts : c.minor \in BOOLEAN
    /\ OrganizerContact \in Contacts
    /\ Organizer \notin Requests
    /\ Nobody \notin Sheets \cup Ids \cup Contacts

VARIABLES
    open,    \* the meet's status is Open
    rows,    \* rows[i]: the row with id i; DOMAIN rows is the table
    sheet,   \* sheet[v]: what page v shows
    request, \* request[r]: how far request r has come
    mailed,  \* history: the rows whose applicant was sent the link
    edited   \* history: the rows changed since they were inserted

vars == <<open, rows, sheet, request, mailed, edited>>

Row == [contact : Contacts, sequence : Nat]

\* A sheet shows its form (and over it, perhaps, the dialog "Already signed
\* up") or that the application was submitted.  "link" is the row whose edit
\* link opened it and "row" that row once it was fetched; "adding" is the
\* request its last POST belongs to.
Sheet == [view : {"form", "dialog", "submitted"}, isOpenMeet : BOOLEAN,
          contact : Contacts \cup {Nobody}, link : Ids \cup {Nobody},
          row : Ids \cup {Nobody}, adding : Requests \cup {Nobody}]

\* "sheet" is Nobody once the page no longer waits for the answer.  "row" is
\* the row to update.  "seen" are the rows the check found in the table,
\* "before" those in it when the highest sequence number, "max", was read.
Request == [pc : {"unused", "checking", "posted", "inserting", "mailing",
                  "updating", "over"},
            sheet : Sheets \cup {Nobody}, contact : Contacts \cup {Nobody},
            row : Ids \cup {Nobody}, max : Nat,
            seen : SUBSET Ids, before : SUBSET Ids]

TypeOK ==
    /\ open \in BOOLEAN
    /\ DOMAIN rows \subseteq Ids
    /\ \A i \in DOMAIN rows : rows[i] \in Row
    /\ sheet \in [Sheets -> Sheet]
    /\ request \in [Requests -> Request]
    /\ mailed \subseteq DOMAIN rows
    /\ edited \subseteq DOMAIN rows

BlankSheet(link) == [view |-> "form", isOpenMeet |-> open, contact |-> Nobody,
                     link |-> link, row |-> Nobody, adding |-> Nobody]

Unused == [pc |-> "unused", sheet |-> Nobody, contact |-> Nobody,
           row |-> Nobody, max |-> 0, seen |-> {}, before |-> {}]

\* Creating the meet inserted the organizer's row, with the column's default
\* sequence.
Init ==
    /\ open \in BOOLEAN
    /\ rows = [i \in {Organizer} |-> [contact |-> OrganizerContact,
                                      sequence |-> 0]]
    /\ sheet = [v \in Sheets |-> BlankSheet(Nobody)]
    /\ request = [r \in Requests |-> Unused]
    /\ mailed = {}
    /\ edited = {}

-----------------------------------------------------------------------------
(***************************************************************************)
(* The sheet                                                               *)
(***************************************************************************)

\* findAttendeeByContact: the same phone, or the same email.  The sheet does
\* not send a minor's email: it is the guardian's.
Matches(i, c) ==
    \/ rows[i].contact.phone = c.phone
    \/ ~c.minor /\ rows[i].contact.email = c.email

KnownByBoth(c) ==
    \E i \in DOMAIN rows : /\ rows[i].contact.phone = c.phone
                          /\ rows[i].contact.email = c.email

Known(c) == \E i \in DOMAIN rows : Matches(i, c)

\* The page goes away: a check it waits for is never followed by a POST, the
\* other requests run on without it.
Abandoned(v) ==
    [r \in Requests |->
        IF request[r].sheet # v THEN request[r]
        ELSE [request[r] EXCEPT
                !.sheet = Nobody,
                !.pc = IF @ = "checking" THEN "over" ELSE @]]

\* The page of the meet is opened or reloaded: without a link, or with the
\* edit link of an application.
Load(v, link) ==
    /\ link \in mailed \cup {Nobody}
    /\ sheet' = [sheet EXCEPT ![v] = BlankSheet(link)]
    /\ request' = Abandoned(v)
    /\ UNCHANGED <<open, rows, mailed, edited>>

\* The meet is fetched again, on focus.
Refetch(v) ==
    /\ sheet' = [sheet EXCEPT ![v].isOpenMeet = open]
    /\ UNCHANGED <<open, rows, request, mailed, edited>>

\* The application of an edit link is fetched and fills the form in.
FetchApplication(v) ==
    LET i == sheet[v].link IN
    /\ sheet[v].view = "form"
    /\ i # Nobody /\ sheet[v].row = Nobody
    /\ sheet' = [sheet EXCEPT ![v] = [@ EXCEPT !.row = i,
                                               !.contact = rows[i].contact]]
    /\ UNCHANGED <<open, rows, request, mailed, edited>>

\* The contact is entered, or filled in from the profile of the user who is
\* signed in.  Leaving the field looks for it in the table, except in a sheet
\* opened from a link; the answer may not come.
Enter(v, c) ==
    /\ sheet[v].view = "form" /\ sheet[v].isOpenMeet
    /\ \E view \in {"form", "dialog"} :
         /\ view = "dialog" => sheet[v].link = Nobody /\ Known(c)
         /\ sheet' = [sheet EXCEPT ![v] = [@ EXCEPT !.contact = c,
                                                    !.view = view]]
    /\ UNCHANGED <<open, rows, request, mailed, edited>>

CloseDialog(v) ==
    /\ sheet[v].view = "dialog"
    /\ sheet' = [sheet EXCEPT ![v].view = "form"]
    /\ UNCHANGED <<open, rows, request, mailed, edited>>

\* isSubmitting: the page waits for the answer to its last POST.  It does not
\* become true before the check is answered.
isSubmitting(v) ==
    LET r == sheet[v].adding IN
    r # Nobody /\ request[r].sheet = v /\ request[r].pc # "over"

\* handleSubmit, up to its first await.  In a sheet opened from a link the
\* row is patched if it was fetched, and a new one posted if it was not.
Submit(v, r) ==
    LET s == sheet[v]
        pc == IF s.link = Nobody THEN "checking"
              ELSE IF s.row # Nobody THEN "updating" ELSE "posted" IN
    /\ s.view = "form" /\ s.isOpenMeet /\ s.contact # Nobody
    /\ ~isSubmitting(v)
    /\ request[r] = Unused
    /\ request' = [request EXCEPT
                     ![r] = [@ EXCEPT !.pc = pc, !.sheet = v,
                                      !.contact = s.contact, !.row = s.row]]
    /\ sheet' = IF pc = "posted"
                THEN [sheet EXCEPT ![v].adding = r] ELSE sheet
    /\ UNCHANGED <<open, rows, mailed, edited>>

\* The check is answered: the dialog opens, or the application is posted.
Checked(r) ==
    LET v == request[r].sheet
        known == Known(request[r].contact) IN
    /\ request[r].pc = "checking"
    /\ request' = [request EXCEPT
                     ![r] = [@ EXCEPT !.pc = IF known THEN "over" ELSE "posted",
                                      !.seen = DOMAIN rows]]
    /\ IF known
       THEN sheet' = [sheet EXCEPT
                        ![v].view = IF @ = "form" THEN "dialog" ELSE @]
       ELSE sheet' = [sheet EXCEPT ![v].adding = r]
    /\ UNCHANGED <<open, rows, mailed, edited>>

\* The page gives up waiting for the answer: the form is as it was, and the
\* request still runs.
LoseAnswer(r) ==
    /\ request[r].sheet # Nobody
    /\ request[r].pc \in {"posted", "inserting", "mailing", "updating"}
    /\ request' = [request EXCEPT ![r].sheet = Nobody]
    /\ UNCHANGED <<open, rows, sheet, mailed, edited>>

-----------------------------------------------------------------------------
(***************************************************************************)
(* The API                                                                 *)
(***************************************************************************)

\* What the page of request r shows once the request succeeded.
Shown(r, i) ==
    IF request[r].sheet = Nobody THEN sheet
    ELSE [sheet EXCEPT ![request[r].sheet] =
            [@ EXCEPT !.view = "submitted", !.row = i]]

ReadFirst(r) ==
    /\ request[r].pc = "posted"
    /\ \E i \in DOMAIN rows :
         request' = [request EXCEPT ![r] = [@ EXCEPT !.pc = "inserting",
                                                     !.max = rows[i].sequence,
                                                     !.before = DOMAIN rows]]
    /\ UNCHANGED <<open, rows, sheet, mailed, edited>>

\* addAttendee reads the highest sequence number of the meet.
ReadMax(r) ==
    /\ request[r].pc = "posted"
    /\ \E i \in DOMAIN rows :
         /\ \A j \in DOMAIN rows : rows[j].sequence <= rows[i].sequence
         /\ request' = [request EXCEPT
                          ![r] = [@ EXCEPT !.pc = "inserting",
                                           !.max = rows[i].sequence,
                                           !.before = DOMAIN rows]]
    /\ UNCHANGED <<open, rows, sheet, mailed, edited>>

\* It inserts the row and commits.
Insert(r) ==
    /\ request[r].pc = "inserting"
    /\ rows' = [i \in DOMAIN rows \cup {r} |->
                  IF i = r THEN [contact |-> request[r].contact,
                                 sequence |-> request[r].max + 1]
                  ELSE rows[i]]
    /\ request' = [request EXCEPT ![r].pc = "mailing"]
    /\ UNCHANGED <<open, sheet, mailed, edited>>

MailBeforeInsert(r) ==
    /\ request[r].pc \in {"inserting", "mailing"}
    /\ mailed' = mailed \cup {r}
    /\ request' = [request EXCEPT ![r].pc = IF @ = "mailing" THEN "over" ELSE @]
    /\ sheet' = Shown(r, r)
    /\ UNCHANGED <<open, rows, edited>>

\* The link is mailed and the request answered.
Mail(r) ==
    /\ request[r].pc = "mailing"
    /\ mailed' = mailed \cup {r}
    /\ request' = [request EXCEPT ![r].pc = "over"]
    /\ sheet' = Shown(r, r)
    /\ UNCHANGED <<open, rows, edited>>

\* updateAttendee, and its answer.
Update(r) ==
    LET i == request[r].row IN
    /\ request[r].pc = "updating"
    /\ rows' = [rows EXCEPT ![i].contact = request[r].contact]
    /\ edited' = edited \cup {i}
    /\ request' = [request EXCEPT ![r].pc = "over"]
    /\ sheet' = Shown(r, i)
    /\ UNCHANGED <<open, mailed>>

FailUnnoticed(r) ==
    /\ request[r].pc \in {"checking", "posted", "inserting", "mailing",
                          "updating"}
    /\ request' = [request EXCEPT ![r].pc = "over"]
    /\ sheet' = IF request[r].pc = "mailing" THEN Shown(r, r) ELSE sheet
    /\ UNCHANGED <<open, rows, mailed, edited>>

\* The request fails.  A row that was committed stays, whether its mail went
\* out or not: the mail is not part of the transaction.
Fail(r) ==
    /\ request[r].pc \in {"checking", "posted", "inserting", "mailing",
                          "updating"}
    /\ request' = [request EXCEPT ![r].pc = "over"]
    /\ \/ UNCHANGED mailed
       \/ request[r].pc = "mailing" /\ mailed' = mailed \cup {r}
    /\ UNCHANGED <<open, rows, sheet, edited>>

\* The organizer or the worker moves the meet to or from status Open.
StatusChanges ==
    /\ open' = ~open
    /\ UNCHANGED <<rows, sheet, request, mailed, edited>>

SheetStep(v) ==
    \/ \E link \in mailed \cup {Nobody} : Load(v, link)
    \/ Refetch(v) \/ FetchApplication(v) \/ CloseDialog(v)
    \/ \E c \in Contacts : Enter(v, c)
    \/ \E r \in Requests : Submit(v, r)

RequestStep(r) ==
    \/ Checked(r) \/ LoseAnswer(r)
    \/ ReadMax(r) \/ Insert(r) \/ Mail(r) \/ Update(r) \/ Fail(r)

Next ==
    \/ \E v \in Sheets : SheetStep(v)
    \/ \E r \in Requests : RequestStep(r)
    \/ StatusChanges

Spec == Init /\ [][Next]_vars

-----------------------------------------------------------------------------
(***************************************************************************)
(* Properties                                                              *)
(***************************************************************************)

\* The list is sorted by sequence: of two applications, the one that was
\* committed before the other's POST was handled comes first.  Only POSTs
\* handled at the same time may share a number.
SequenceRespectsOrder ==
    \A r \in DOMAIN rows \ {Organizer}, i \in DOMAIN rows :
        i \in request[r].before => rows[i].sequence < rows[r].sequence

\* Two rows of one contact come from requests that overlapped, or from an
\* edit: an application that was committed before another one was checked is
\* found by that check.
NoDuplicateBehindCheck ==
    \A r \in DOMAIN rows \ {Organizer}, i \in DOMAIN rows :
        i \in request[r].seen \ (edited \cup {r}) /\ r \notin edited =>
            ~Matches(i, rows[r].contact)

\* A page that says the application was submitted names a row that is on the
\* list and whose applicant has been sent the link that edits it.
SubmittedIsStoredAndMailed ==
    \A v \in Sheets :
        sheet[v].view = "submitted" => sheet[v].row \in DOMAIN rows \cap mailed

(***************************************************************************)
(* What the dialogs and forms promise and the system does not keep         *)
(***************************************************************************)

\* ConfirmCloseMeetDialog: "Closing the meet will prevent any new
\* submissions."  No row is added while the status is not Open.
ClosingPreventsSubmissions == [][DOMAIN rows' # DOMAIN rows => open]_vars

\* The button of a sheet that an edit link opened reads "Update": a request
\* such a sheet waits for adds no row.
UpdateAddsNoRow ==
    [][\A v \in Sheets, r \in Requests :
         sheet[v].link # Nobody /\ request[r].sheet = v =>
             r \notin DOMAIN rows' \ DOMAIN rows]_vars

=============================================================================
