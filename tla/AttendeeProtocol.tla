--------------------------- MODULE AttendeeProtocol ---------------------------
(***************************************************************************)
(* What the parts of AttendeeStatus promise each other about the statuses  *)
(* of attendees, without mails and without saying who keeps an intention   *)
(* where.                                                                  *)
(*                                                                         *)
(* As in MeetProtocol, an intention starts from a status that was seen, as *)
(* far as Permitted goes, and is carried out at any later time, whatever   *)
(* the status is by then.  Applicants withdraw without looking.            *)
(***************************************************************************)
CONSTANTS Attendees, Decisions

VARIABLES
    status, \* status[a]: the status of an attendee
    intents \* the changes that are intended

protocolVars == <<status, intents>>

Statuses == {"pending", "confirmed", "waitlisted", "rejected", "checked-in",
             "cancelled"}
Intent == [attendee : Attendees, to : Statuses]

\* Organizers decide about whoever is neither checked in nor withdrawn, only the
\* confirmed are checked in, and only an edit takes up an application that was
\* withdrawn.
Permitted(from, to) ==
    \/ from \notin {"checked-in", "cancelled"} /\ to \in Decisions \ {from}
    \/ <<from, to>> \in {<<"confirmed", "checked-in">>,
                         <<"checked-in", "confirmed">>,
                         <<"cancelled", "pending">>}

PermittedIn(s, i) == i \in Intent /\ Permitted(s[i.attendee], i.to)

ProtocolInit ==
    /\ status = [a \in Attendees |-> "pending"]
    /\ \A i \in intents : PermittedIn(status, i)

\* Somebody looks, and others may give up.
Look ==
    /\ UNCHANGED status
    /\ \A i \in intents' \ intents : PermittedIn(status, i)

Withdraw(a) ==
    /\ status' = [status EXCEPT ![a] = "cancelled"]
    /\ intents' \subseteq intents

\* Whoever carries out his intention sees what he did, and may go on from it.
CarryOut(i) ==
    /\ status' = [status EXCEPT ![i.attendee] = i.to]
    /\ \A j \in intents' \ intents :
          j.attendee = i.attendee /\ PermittedIn(status', j)

ProtocolNext ==
    \/ Look
    \/ \E a \in Attendees : Withdraw(a)
    \/ \E i \in intents : CarryOut(i)

ProtocolSpec == ProtocolInit /\ [][ProtocolNext]_protocolVars
=============================================================================
