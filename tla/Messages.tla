------------------------------- MODULE Messages -------------------------------
(***************************************************************************)
(* The mail of one meet: what is sent to its address goes to the organizer *)
(* and into the list of messages of the attendee who has the sender's      *)
(* address; what the organizer sends from the dialog "Manage attendees"    *)
(* goes to the attendee and into the same list.  In the dialog a dot shows *)
(* that the selected attendee has messages that have not been read; a      *)
(* click on such a message marks it.                                       *)
(*                                                                         *)
(* A row does not say which way a message went: the dialog finds out from  *)
(* the address it went to, which is a message to the attendee when it      *)
(* contains the attendee's address.                                        *)
(*                                                                         *)
(* The mail server hands a mail to the API once: its script does not look  *)
(* at what the API answered, so that nothing is ever tried again.          *)
(*                                                                         *)
(* Simplifications.  A mail is its sender; subjects, bodies, templates and *)
(* quoted text are left out.  One organizer's tab, one attendee per        *)
(* message that is sent.                                                   *)
(***************************************************************************)
EXTENDS Naturals

CONSTANTS
    Attendees, \* the attendees of the meet
    NoAttendee,
    Addresses, \* e-mail addresses
    Organizer, \* the address of the organizer
    PartsOf,  \* PartsOf[e]: the addresses that are a part of e
    Incoming,  \* mails to the meet
    Outgoing   \* messages of the organizer

ASSUME MessagesConstants ==
    /\ NoAttendee \notin Attendees
    /\ Organizer \in Addresses
    /\ \A e \in Addresses : PartsOf[e] \subseteq Addresses /\ e \in PartsOf[e]
    /\ Incoming \cap Outgoing = {}

VARIABLES
    email,    \* email[a]: the address of an attendee
    mail,     \* mail[m]: a mail on its way in or out
    messages, \* the rows of the table
    delivered, \* the mails that were delivered
    dialog    \* the organizer's dialog

messagesVars == <<email, mail, messages, delivered, dialog>>

Mails == Incoming \cup Outgoing
MailSteps == {"none", "deliver", "save", "saved", "lost"}
Mail == [step : MailSteps, address : Addresses,
         attendee : Attendees \cup {NoAttendee}]

Message == [id : Mails, attendee : Attendees \cup {NoAttendee},
            to : Addresses, read : BOOLEAN]

\* "shown": the messages it has fetched for the attendee who is selected, with
\* the address it knows of him; "marking": the messages it asked to mark.
MessagesDialog == [selected : Attendees \cup {NoAttendee}, address : Addresses,
                   shown : SUBSET Message, marking : SUBSET Mails]
NoSelection == [selected |-> NoAttendee, address |-> Organizer,
                shown |-> {}, marking |-> {}]

MessagesInit ==
    /\ email \in [Attendees -> Addresses]
    /\ \E from \in [Mails -> Addresses] :
          /\ \A m \in Outgoing : from[m] = Organizer
          /\ mail = [m \in Mails |-> [step |-> "none", address |-> from[m],
                                      attendee |-> NoAttendee]]
    /\ messages = {}
    /\ delivered = {}
    /\ dialog = NoSelection

-------------------------------------------------------------------------------
(* The API. *)

saveBeforeForwarding(m) ==
    LET found == {a \in Attendees : email[a] = mail[m].address} IN
    /\ m \in Incoming
    /\ mail[m].step = "none"
    /\ \E a \in IF found = {} THEN {NoAttendee} ELSE found :
          mail' = [mail EXCEPT ![m].step = "save", ![m].attendee = a]
    /\ UNCHANGED <<email, messages, delivered, dialog>>

\* Any attendee with the sender's address, if there is one.
handleIncoming(m) ==
    LET found == {a \in Attendees : email[a] = mail[m].address} IN
    /\ m \in Incoming
    /\ mail[m].step = "none"
    /\ \E a \in IF found = {} THEN {NoAttendee} ELSE found :
          mail' = [mail EXCEPT ![m].step = "deliver", ![m].attendee = a]
    /\ UNCHANGED <<email, messages, delivered, dialog>>

messageAttendees(m, a) ==
    /\ m \in Outgoing
    /\ mail[m].step = "none"
    /\ dialog.selected = a
    /\ mail' = [mail EXCEPT ![m] = [step |-> "deliver", address |-> email[a],
                                    attendee |-> a]]
    /\ UNCHANGED <<email, messages, delivered, dialog>>

sendEmail(m) ==
    /\ mail[m].step = "deliver"
    /\ delivered' = delivered \cup {m}
    /\ mail' = [mail EXCEPT ![m].step = "save"]
    /\ UNCHANGED <<email, messages, dialog>>

Save(m, row) ==
    /\ mail[m].step = "save"
    /\ messages' = messages \cup {row}
    /\ mail' = [mail EXCEPT ![m].step = "saved"]
    /\ UNCHANGED <<email, delivered, dialog>>

saveIncomingMessage(m) ==
    /\ m \in Incoming
    /\ Save(m, [id |-> m, attendee |-> mail[m].attendee, to |-> Organizer,
                read |-> FALSE])

saveMessageUnread(m) ==
    /\ m \in Outgoing
    /\ Save(m, [id |-> m, attendee |-> mail[m].attendee, to |-> mail[m].address,
                read |-> FALSE])

saveMessage(m) ==
    /\ m \in Outgoing
    /\ Save(m, [id |-> m, attendee |-> mail[m].attendee, to |-> mail[m].address,
                read |-> TRUE])

\* The mail server refuses, the database fails, the API is restarted.  A message
\* may have been delivered although the mail server's answer was lost.
MailFails(m) ==
    /\ mail[m].step \in {"deliver", "save"}
    /\ mail' = [mail EXCEPT ![m].step = "lost"]
    /\ delivered' \in {delivered, delivered \cup {m}}
    /\ UNCHANGED <<email, messages, dialog>>

\* The attendee or the organizer changes it.
updateAttendee(a, e) ==
    /\ email' = [email EXCEPT ![a] = e]
    /\ UNCHANGED <<mail, messages, delivered, dialog>>

-------------------------------------------------------------------------------
(* The dialog. *)

\* The attendees had been fetched before, or are fetched again.
setSelectedAttendeeId(a) ==
    /\ \E e \in Addresses :
          /\ e = email[a] \/ (a = dialog.selected /\ e = dialog.address)
          /\ dialog' = [NoSelection EXCEPT !.selected = a, !.address = e,
                          !.marking = dialog.marking,
                          !.shown = IF a = dialog.selected
                                      THEN dialog.shown ELSE {}]
    /\ UNCHANGED <<email, mail, messages, delivered>>

listAttendeeMessages ==
    /\ dialog.selected # NoAttendee
    /\ dialog' = [dialog EXCEPT !.shown =
                    {r \in messages : r.attendee = dialog.selected}]
    /\ UNCHANGED <<email, mail, messages, delivered>>

hasUnreadMessages == \E r \in dialog.shown : ~r.read

direction(r) == IF dialog.address \in PartsOf[r.to] THEN "sent" ELSE "received"

\* A click on a message.
markRead(r) ==
    /\ r \in dialog.shown
    /\ ~r.read /\ direction(r) = "received"
    /\ dialog' = [dialog EXCEPT !.marking = @ \cup {r.id}]
    /\ UNCHANGED <<email, mail, messages, delivered>>

markAttendeeMessageRead(m) ==
    /\ m \in dialog.marking
    /\ \/ messages' = {IF r.id = m THEN [r EXCEPT !.read = TRUE] ELSE r :
                         r \in messages}
       \/ UNCHANGED messages  \* the request is lost
    /\ dialog' = [dialog EXCEPT !.marking = @ \ {m}]
    /\ UNCHANGED <<email, mail, delivered>>

MessagesNext ==
    \/ \E m \in Mails :
          \/ handleIncoming(m)
          \/ \E a \in Attendees : messageAttendees(m, a)
          \/ sendEmail(m) \/ saveIncomingMessage(m) \/ saveMessage(m)
          \/ MailFails(m)
          \/ markAttendeeMessageRead(m)
    \/ \E a \in Attendees : \/ setSelectedAttendeeId(a)
                            \/ \E e \in Addresses : updateAttendee(a, e)
    \/ listAttendeeMessages
    \/ \E r \in dialog.shown : markRead(r)

MessagesSpec == MessagesInit /\ [][MessagesNext]_messagesVars

-------------------------------------------------------------------------------
(* Properties. *)

MessagesTypeOK ==
    /\ email \in [Attendees -> Addresses]
    /\ mail \in [Mails -> Mail]
    /\ messages \subseteq Message
    /\ delivered \subseteq Mails
    /\ dialog \in MessagesDialog

\* A message that is listed was delivered: the organizer reads nothing in the
\* list that is not in his mailbox, and nothing he believes he sent without
\* the attendee having got it (incoming-mail.controller.ts:147-160,
\* meets.controller.ts:503-566).
ListedWasDelivered == \A r \in messages : r.id \in delivered

\* The dot that shows unread messages can be put out: each of them can be
\* marked by a click, whoever's address changed since, unless the attendee's
\* address is a part of the organizer's own (ManageAttendeesModal.tsx:134-137,
\* AttendeeMessages.tsx:56-59, 119-125).
DotGoesOut ==
    hasUnreadMessages /\ dialog.address \notin PartsOf[Organizer]
    => \A r \in dialog.shown : ~r.read => direction(r) = "received"
=============================================================================
