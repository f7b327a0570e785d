------------------------------ MODULE MCBrowser -------------------------------
(***************************************************************************)
(* An instance, for TLC, of the modules about what a browser keeps and     *)
(* shows.  They share no variable, so one run takes them one at a time:    *)
(* "which" names the module that moves, and the others stay where they     *)
(* start.                                                                  *)
(***************************************************************************)
EXTENDS Session, Workspace, Calendar, Messages, Listing, TLC

VARIABLE which

Which == {"session", "workspace", "calendar", "messages", "listing"}

browserVars == <<which, sessionVars, workspaceVars, calendarVars, messagesVars,
                 listingVars>>

\* A module that does not move has one initial state.
BrowserInit ==
    /\ which \in Which
    /\ SessionInit
    /\ WorkspaceInit
    /\ which # "workspace" => orgsOf = {}
    /\ CalendarInit
    /\ which # "calendar" =>
          ~phone /\ \A m \in CalendarMeets :
                       meet[m] = [start |-> NoDay, end |-> NoDay,
                                  midnight |-> FALSE]
    /\ MessagesInit
    /\ which # "messages" =>
          /\ \A a \in Attendees : email[a] = Organizer
          /\ \A m \in Mails : mail[m].address = Organizer
    /\ ListingInit
    /\ which # "listing" =>
          role = "member" /\ \A m \in Meets : row[m].status = "draft"

BrowserNext ==
    /\ UNCHANGED which
    /\ IF which = "session" THEN SessionNext ELSE UNCHANGED sessionVars
    /\ IF which = "workspace" THEN WorkspaceNext ELSE UNCHANGED workspaceVars
    /\ IF which = "calendar" THEN CalendarNext ELSE UNCHANGED calendarVars
    /\ IF which = "messages" THEN MessagesNext ELSE UNCHANGED messagesVars
    /\ IF which = "listing" THEN ListingNext ELSE UNCHANGED listingVars

BrowserSpec ==
    /\ BrowserInit /\ [][BrowserNext]_browserVars
    /\ \A t \in Tabs, c \in Calls : WF_sessionVars(Answer(t, c))

\* The variables of the module that moves keep their types.
BrowserTypeOK ==
    /\ which \in Which
    /\ which = "session" => SessionTypeOK
    /\ which = "workspace" => WorkspaceTypeOK
    /\ which = "calendar" => CalendarTypeOK
    /\ which = "messages" => MessagesTypeOK
    /\ which = "listing" => ListingTypeOK

-------------------------------------------------------------------------------
(* Values of constants. *)

CONSTANTS o1, o2          \* organizations
MCAllowedModes == o1 :> {"dark", "glass"} @@ o2 :> {"light"}

\* Two months, of 28 and 31 days; the clocks go forward on a Sunday of the
\* first.
MCDays == {0, 3, 6, 7, 13, 31, 34}
MCFirstDay == <<3, 31, 62>>
MCShortDays == {7}

\* The organizer's address has an attendee's in it.
CONSTANTS ann, bob, joanne
MCPartsOf == ann :> {ann} @@ bob :> {bob} @@ joanne :> {joanne, ann}

MCRow(start, status, hidden, applied, matches) ==
    [start |-> start, status |-> status, hidden |-> hidden, applied |-> applied,
     matches |-> matches]
MCRows ==
    {MCRow(NoTime, "draft", FALSE, FALSE, TRUE)}
    \cup {MCRow(start, "open", hidden, FALSE, TRUE) :
            start \in {0, 1, 2}, hidden \in BOOLEAN}
    \cup {MCRow(1, "closed", FALSE, applied, FALSE) : applied \in BOOLEAN}
    \cup {MCRow(1, "cancelled", FALSE, TRUE, TRUE)}
=============================================================================
