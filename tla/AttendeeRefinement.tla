-------------------------- MODULE AttendeeRefinement --------------------------
(***************************************************************************)
(* AttendeeStatus implements AttendeeProtocol: where pages and requests    *)
(* keep what they intend to do with an attendee.                           *)
(***************************************************************************)
EXTENDS AttendeeStatus

\* The buttons of an attendee in a page's list, and what follows a click: the
\* dialog that announces a mail, the mail, and the PATCH.
PageIntends(o, a, s) ==
    \/ page[o].list[a].status \notin {"checked-in", "cancelled", s}
    \/ page[o].attendee = a /\ page[o].status = s

\* The names to tap, and the ticks to undo.
ScannerIntends(n, a, s) ==
    \/ s = "checked-in" /\ a \in scanner[n].accepted \ scanner[n].checked
    \/ s = "confirmed" /\ a \in scanner[n].checked

Intended(a, s) ==
    \/ s \in Decisions /\ \E o \in Organizers : PageIntends(o, a, s)
    \/ \E n \in Scanners : ScannerIntends(n, a, s)
    \/ s = "pending" /\ a \in editing

Protocol ==
    INSTANCE AttendeeProtocol
    WITH status <- [a \in Attendees |-> attendees[a].status],
         intents <- {i \in [attendee : Attendees, to : Status] :
                       Intended(i.attendee, i.to)}

\* What is done to an application was permitted by its status as somebody saw
\* it, or is its withdrawal: a mail that goes out first, a dialog that stays
\* open, a handler that fails and a check-in page that was loaded long ago add
\* nothing that the list or the scanner would not have offered when it was
\* fetched (AttendeeActionButtons.tsx:22-95, MeetCheckinPage.tsx:41-96,
\* meets.service.ts:727-767).
RefinesAttendeeProtocol == Protocol!ProtocolSpec
=============================================================================
