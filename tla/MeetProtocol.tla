----------------------------- MODULE MeetProtocol -----------------------------
(***************************************************************************)
(* What the parts of MeetLifecycle promise each other: the statuses of     *)
(* meets, and the changes that somebody intends.  No part is named, nor    *)
(* where it keeps its intentions: in a list, a dialog, a form, a set of    *)
(* ids or a request under way.                                             *)
(*                                                                         *)
(* An intention starts from a look at the meet, and only at what Permitted *)
(* says of the status that is seen.  It may be carried out at any later    *)
(* time, and then sets the status whatever it is by then; that it is not   *)
(* looked at again is how far the promise goes.                            *)
(***************************************************************************)
CONSTANTS Meets

VARIABLES
    status, \* status[m]: the status of a meet
    intents \* the changes that are intended

protocolVars == <<status, intents>>

Statuses == {"Absent", "Draft", "Published", "Open", "Closed", "Cancelled",
             "Postponed", "Completed"}
Intent == [meet : Meets, to : Statuses]

\* Drafts and postponed meets are published; nothing is done any more to a meet
\* that is cancelled or completed.
Permitted == [Absent    |-> {},
              Draft     |-> {"Published"},
              Published |-> {"Open", "Completed"},
              Open      |-> {"Closed", "Cancelled", "Postponed", "Completed"},
              Closed    |-> {"Open", "Cancelled", "Postponed", "Completed"},
              Postponed |-> {"Cancelled", "Published"},
              Cancelled |-> {},
              Completed |-> {}]

ProtocolInit ==
    /\ status = [m \in Meets |-> "Absent"]
    /\ intents = {}

\* Somebody looks, and others may give up.
Look ==
    /\ intents' \subseteq
          intents \cup {i \in Intent : i.to \in Permitted[status[i.meet]]}
    /\ UNCHANGED status

\* Whoever makes a meet intends to publish it.
Create(m) ==
    /\ status[m] = "Absent"
    /\ status' = [status EXCEPT ![m] = "Draft"]
    /\ intents' \subseteq intents \cup {[meet |-> m, to |-> "Published"]}

CarryOut(i) ==
    /\ status' = [status EXCEPT ![i.meet] = i.to]
    /\ intents' \subseteq intents

ProtocolNext ==
    \/ Look
    \/ \E m \in Meets : Create(m)
    \/ \E i \in intents : CarryOut(i)

ProtocolSpec == ProtocolInit /\ [][ProtocolNext]_protocolVars
=============================================================================
