---------------------------- MODULE MeetRefinement ----------------------------
(***************************************************************************)
(* MeetLifecycle implements MeetProtocol: where tabs and the worker keep   *)
(* what they intend to do with a meet.                                     *)
(***************************************************************************)
EXTENDS MeetLifecycle

\* The menu of a list, an open dialog, and a modal with a publish button.
MenuIntends(t, m, s) ==
    \E a \in DialogActions : page[t][m] \in ShownIn[a] /\ s = DialogStatus[a]

DialogIntends(t, m, s) ==
    /\ tab[t].view = "confirm"
    /\ tab[t].meet = m /\ s = DialogStatus[tab[t].action]

ModalIntends(t, m, s) ==
    /\ tab[t].view = "edit"
    /\ tab[t].meet = m /\ tab[t].publishable /\ s = "Published"

PublicationIntends(t, m, s) ==
    publishing[t] # NotPublishing /\ publishing[t].meet = m /\ s = "Published"

TabIntends(t, m, s) ==
    \/ MenuIntends(t, m, s) \/ DialogIntends(t, m, s)
    \/ ModalIntends(t, m, s) \/ PublicationIntends(t, m, s)

\* The ids of the worker's step, and the PATCHes it no longer waits for.
WorkerIntends(m, s) ==
    \/ Running /\ m \in worker.ids /\ s = StepStatus[worker.pc]
    \/ [meet |-> m, status |-> s] \in lost

Intended(m, s) == WorkerIntends(m, s) \/ \E t \in Tabs : TabIntends(t, m, s)

Protocol ==
    INSTANCE MeetProtocol
    WITH status <- [m \in Meets |-> meets[m].status],
         intents <- {i \in [meet : Meets, to : Status] : Intended(i.meet, i.to)}

\* Every step of a tab or of the worker is a look, a creation or the carrying
\* out of an intention, or none of the protocol's business: what is done to a
\* meet was once permitted, by its status as it was seen, and the worker's
\* queries, the menu and the modal agree on what that is
\* (meetScheduler.ts:71-115, MeetActionsMenu.tsx:41-103,
\* CreateMeetModal.tsx:809-826).
RefinesProtocol == Protocol!ProtocolSpec
=============================================================================
