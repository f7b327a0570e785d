------------------------- MODULE MeetLifecycleProofs -------------------------
(***************************************************************************)
(* Proofs about MeetLifecycle, for every set of meets and tabs, every      *)
(* bound and every set of dates and limits an organizer may enter.         *)
(***************************************************************************)
EXTENDS MeetLifecycle, TLAPS

-----------------------------------------------------------------------------
(***************************************************************************)
(* Types                                                                   *)
(***************************************************************************)

\* What a tab in a given view shows, and what a running publication holds.
LEMMA TabTypes ==
    ASSUME TypeOK, NEW t \in Tabs
    PROVE  /\ tab[t].view = "confirm" => tab[t] \in ConfirmView
           /\ tab[t].view = "edit" => tab[t] \in EditView
           /\ tab[t] # ListView => tab[t].meet \in Meets
           /\ publishing[t] # NotPublishing => publishing[t] \in Publication
           /\ publishing[t].next # "nothing" => publishing[t] \in Publication
  BY DEF TypeOK, ListView, ConfirmView, EditView, NotPublishing, Publication

\* A dialog asks for a status of a meet.
LEMMA DialogTypes ==
    ASSUME NEW a \in DialogActions
    PROVE  DialogStatus[a] \in Status
  BY DEF DialogActions, DialogStatus, Status

LEMMA StepTypes ==
    ASSUME NEW step \in Steps
    PROVE  /\ StepStatus[step] \in Status
           /\ step # LastStep => StepAfter[step] \in Steps
  BY DEF Steps, StepStatus, StepAfter, Status, LastStep

\* Every date may be stored, and a date column may be NULL.
LEMMA DateTypes == NoDate \in OptDate /\ Dates \subseteq OptDate /\ 0 \in Dates
  BY LifecycleConstants DEF Dates, OptDate

\* A row stays a row whatever dates and limits are stored in it.
LEMMA RowTypes ==
    ASSUME NEW row \in MeetRow, NEW d \in OptDate, NEW e \in OptDate,
           NEW n \in 0..MaxWaitlisted
    PROVE  /\ [row EXCEPT !.opening = d] \in MeetRow
           /\ [row EXCEPT !.closing = d] \in MeetRow
           /\ [row EXCEPT !.start = d, !.end = e] \in MeetRow
           /\ [row EXCEPT !.opening = d, !.closing = e,
                          !.waitlistSize = n] \in MeetRow
  BY DEF MeetRow

\* Storing a status keeps the type of the table.
LEMMA UpdateStatusTypes ==
    ASSUME meets \in [Meets -> MeetRow], NEW m \in Meets, NEW s \in Status,
           updateStatus(m, s)
    PROVE  meets' \in [Meets -> MeetRow]
  BY DEF updateStatus, MeetRow

LEMMA FormTypes ==
    ASSUME meets \in [Meets -> MeetRow], NEW m \in Meets
    PROVE  FormOf(m) \in EditView
  BY DEF FormOf, EditView, MeetRow

LEMMA GiveUpTypes ==
    ASSUME TypeOK, NEW m \in Meets, worker.pc \in Steps, GiveUp(m)
    PROVE  lost' \subseteq [meet : Meets, status : {StepStatus[s] : s \in Steps}]
  BY StepTypes DEF TypeOK, GiveUp

LEMMA TypeInit == Init => TypeOK
  <1> SUFFICES ASSUME Init PROVE TypeOK
    OBVIOUS
  <1>1. NoMeet \in MeetRow
    BY LifecycleConstants, DateTypes DEF NoMeet, MeetRow
  <1>2. 0 \in 0..(MaxSkips - 1) /\ 0 \in 0..MaxCrashes
    BY LifecycleConstants
  <1>3. /\ IdleWorker \in [pc : Steps \cup {"idle", "down"},
                           ids : SUBSET Meets, skips : 0..(MaxSkips - 1)]
        /\ 0 \in Dates /\ 0 \in 0..MaxWaitlisted
    BY <1>2, LifecycleConstants, DateTypes DEF IdleWorker
  <1> QED
    BY <1>1, <1>2, <1>3 DEF Init, TypeOK

LEMMA TypeTabStep ==
    ASSUME TypeOK, NEW t \in Tabs, TabStep(t)
    PROVE  TypeOK'
  <1> USE LifecycleConstants DEF TypeOK, tabVars, workerVars
  <1>0. FetchedList \in [Meets -> Status \cup {"Absent"}]
    BY DEF FetchedList, MeetRow
  <1>1. CASE LoadList(t)
    BY <1>0, <1>1 DEF LoadList
  <1>2. CASE ConfirmAction(t)
    <2>1. tab[t].meet \in Meets /\ tab[t].action \in DialogActions
      BY <1>2, TabTypes DEF ConfirmAction, ConfirmView
    <2>2. meets' \in [Meets -> MeetRow]
      BY <1>2, <2>1, DialogTypes, UpdateStatusTypes DEF ConfirmAction
    <2> QED
      BY <1>2, <2>2 DEF ConfirmAction
  <1>3. CASE Dismiss(t)
    BY <1>3 DEF Dismiss
  <1>4. CASE Reload(t)
    BY <1>0, <1>4 DEF Reload
  <1>5. ASSUME NEW m \in Meets, Create(t, m) PROVE TypeOK'
    <2>1. [NoMeet EXCEPT !.status = "Draft"] \in MeetRow
      BY LifecycleConstants, DateTypes DEF NoMeet, MeetRow, Status
    <2>2. [view |-> "edit", meet |-> m, linked |-> FALSE,
           publishable |-> TRUE, hasOpening |-> FALSE,
           hasClosing |-> FALSE, start |-> NoDate] \in EditView
      BY DateTypes DEF EditView
    <2> QED
      BY <1>5, <2>1, <2>2 DEF Create
  <1>6. ASSUME NEW m \in Meets, OpenEdit(t, m) PROVE TypeOK'
    BY <1>6, FormTypes DEF OpenEdit
  <1>7. ASSUME NEW m \in Meets, NEW a \in DialogActions, ChooseAction(t, m, a)
        PROVE  TypeOK'
    <2>1. [view |-> "confirm", meet |-> m, action |-> a] \in ConfirmView
      BY DEF ConfirmView
    <2> QED
      BY <1>7, <2>1 DEF ChooseAction
  <1>8. CASE Refetch(t)
    BY <1>8, TabTypes, FormTypes DEF Refetch, EditView
  <1>9. ASSUME NEW x \in Times, SaveTimes(t, x) PROVE TypeOK'
    <2>1. tab[t] \in EditView
      BY <1>9, TabTypes DEF SaveTimes, Editing
    <2>2. x.start \in OptDate /\ EndOf(x) \in OptDate
      BY DateTypes DEF EndOf, OptDate
    <2>3. [tab[t] EXCEPT !.start = x.start] \in EditView
      BY <2>1, <2>2 DEF EditView
    <2>4. tab[t].meet \in Meets
      BY <2>1 DEF EditView
    <2>5. [meets[tab[t].meet] EXCEPT !.start = x.start, !.end = EndOf(x)]
            \in MeetRow
      BY <2>2, <2>4, RowTypes
    <2>6. meets' \in [Meets -> MeetRow]
      BY <1>9, <2>4, <2>5 DEF SaveTimes
    <2> QED
      BY <1>9, <2>3, <2>6 DEF SaveTimes
  <1>10. ASSUME NEW x \in Limits, SaveLimits(t, x) PROVE TypeOK'
    <2>1. tab[t] \in EditView
      BY <1>10, TabTypes DEF SaveLimits, Editing
    <2>2. tab' \in [Tabs -> {ListView} \cup ConfirmView \cup EditView]
      BY <1>10, <2>1 DEF SaveLimits, EditView
    <2>3. tab[t].meet \in Meets
      BY <2>1 DEF EditView
    <2>4. [meets[tab[t].meet] EXCEPT !.opening = x.opening,
                                     !.closing = x.closing,
                                     !.waitlistSize = x.waitlistSize]
            \in MeetRow
      BY <2>3, RowTypes
    <2>5. meets' \in [Meets -> MeetRow]
      BY <1>10, <2>3, <2>4 DEF SaveLimits
    <2> QED
      BY <1>10, <2>2, <2>5 DEF SaveLimits
  <1>11. CASE Publish(t)
    <2>1. tab[t] \in EditView
      BY <1>11, TabTypes DEF Publish, Editing
    <2>2. tab[t].start \in Dates
      BY <1>11, <2>1 DEF Publish, EditView, OptDate
    <2>3. publishing'[t] \in Publication
      BY <1>11, <2>1, <2>2 DEF Publish, EditView, Publication, AfterOpening
    <2> QED
      BY <1>11, <2>3 DEF Publish
  <1>12. CASE PublishOpening(t)
    <2>1. publishing[t] \in Publication
      BY <1>12, TabTypes DEF PublishOpening
    <2>2. publishing' \in [Tabs -> {NotPublishing} \cup Publication]
      BY <1>12, <2>1 DEF PublishOpening, Publication, AfterOpening
    <2>3. publishing[t].meet \in Meets
      BY <2>1 DEF Publication
    <2>4. [meets[publishing[t].meet] EXCEPT !.opening = now]
            \in MeetRow
      <3>1. now \in OptDate /\ publishing[t].start \in OptDate
        BY <2>1, DateTypes DEF Publication
      <3> QED
        BY <2>3, <3>1, RowTypes
    <2>5. meets' \in [Meets -> MeetRow]
      BY <1>12, <2>3, <2>4 DEF PublishOpening
    <2> QED
      BY <1>12, <2>2, <2>5 DEF PublishOpening
  <1>13. CASE PublishClosing(t)
    <2>1. publishing[t] \in Publication
      BY <1>13, TabTypes DEF PublishClosing
    <2>2. publishing' \in [Tabs -> {NotPublishing} \cup Publication]
      BY <1>13, <2>1 DEF PublishClosing, Publication
    <2>3. publishing[t].meet \in Meets
      BY <2>1 DEF Publication
    <2>4. [meets[publishing[t].meet] EXCEPT !.closing = publishing[t].start]
            \in MeetRow
      <3>1. now \in OptDate /\ publishing[t].start \in OptDate
        BY <2>1, DateTypes DEF Publication
      <3> QED
        BY <2>3, <3>1, RowTypes
    <2>5. meets' \in [Meets -> MeetRow]
      BY <1>13, <2>3, <2>4 DEF PublishClosing
    <2> QED
      BY <1>13, <2>2, <2>5 DEF PublishClosing
  <1>14. CASE PublishStatus(t)
    <2>1. publishing[t].meet \in Meets
      BY <1>14, TabTypes DEF PublishStatus, Publication
    <2>2. meets' \in [Meets -> MeetRow]
      BY <1>14, <2>1, UpdateStatusTypes DEF PublishStatus, Status
    <2> QED
      BY <1>14, <2>2 DEF PublishStatus
  <1>15. CASE PublishFails(t)
    BY <1>15 DEF PublishFails
  <1> QED
    BY <1>1, <1>2, <1>3, <1>4, <1>5, <1>6, <1>7, <1>8, <1>9, <1>10, <1>11,
       <1>12, <1>13, <1>14, <1>15 DEF TabStep, PublishStep

LEMMA TypeWorkerStep ==
    ASSUME TypeOK, WorkerStep
    PROVE  TypeOK'
  <1> USE LifecycleConstants DEF TypeOK, tabVars, workerVars
  <1>1. CASE StartPass
    BY <1>1 DEF StartPass, FirstStep, Steps
  <1>2. CASE NextStep
    BY <1>2, StepTypes DEF NextStep, Running, Enter
  <1>3. CASE EndPass
    BY <1>3 DEF EndPass
  <1>4. ASSUME NEW step \in Steps, NEW m \in Meets, Patch(step, m)
        PROVE  TypeOK'
    <2>1. meets' \in [Meets -> MeetRow]
      BY <1>4, StepTypes, UpdateStatusTypes DEF Patch
    <2> QED
      BY <1>4, <2>1 DEF Patch
  <1>5. ASSUME NEW m \in Meets, PatchFails(m) PROVE TypeOK'
    <2>1. lost' \subseteq [meet : Meets, status : {StepStatus[s] : s \in Steps}]
      BY <1>5, GiveUpTypes DEF PatchFails, Running
    <2> QED
      BY <1>5, <2>1 DEF PatchFails
  <1>6. ASSUME Dies PROVE TypeOK'
    <2>1. lost' \subseteq [meet : Meets, status : {StepStatus[s] : s \in Steps}]
      BY <1>6, GiveUpTypes DEF Dies, Running
    <2>2. crashes' \in 0..MaxCrashes
      BY <1>6 DEF Dies
    <2>3. worker' \in [pc : Steps \cup {"idle", "down"}, ids : SUBSET Meets,
                       skips : 0..(MaxSkips - 1)]
      <3>1. 0 \in 0..(MaxSkips - 1)
        OBVIOUS
      <3> QED
        BY <1>6, <3>1 DEF Dies, IdleWorker
    <2> QED
      BY <1>6, <2>1, <2>2, <2>3 DEF Dies
  <1>7. CASE SkipTick
    <2>1. worker.skips + 1 \in 0..(MaxSkips - 1)
      BY <1>7 DEF SkipTick
    <2> QED
      BY <1>7, <2>1 DEF SkipTick
  <1>8. CASE Restart
    BY <1>8 DEF Restart, IdleWorker
  <1>9. ASSUME NEW r \in lost, LostApplied(r) PROVE TypeOK'
    <2>1. r.meet \in Meets /\ r.status \in Status
      BY StepTypes
    <2>2. meets' \in [Meets -> MeetRow]
      BY <1>9, <2>1, UpdateStatusTypes DEF LostApplied
    <2> QED
      BY <1>9, <2>2 DEF LostApplied
  <1>10. ASSUME NEW r \in lost, LostDropped(r) PROVE TypeOK'
    BY <1>10 DEF LostDropped
  <1> QED
    BY <1>1, <1>2, <1>3, <1>4, <1>5, <1>6, <1>7, <1>8, <1>9, <1>10
       DEF WorkerStep, Crash, SkipTooMany

LEMMA TypeNext == TypeOK /\ [Next]_vars => TypeOK'
  <1> SUFFICES ASSUME TypeOK, [Next]_vars PROVE TypeOK'
    OBVIOUS
  <1>1. ASSUME NEW m \in Meets, WaitlistChanges(m) PROVE TypeOK'
    BY <1>1, LifecycleConstants
       DEF WaitlistChanges, TypeOK, tabVars, workerVars
  <1>2. CASE Clock
    <2>1. now' \in Dates
      BY <1>2, LifecycleConstants DEF Clock, TypeOK, Dates
    <2> QED
      BY <1>2, <2>1 DEF Clock, TypeOK, tabVars, workerVars
  <1>3. CASE UNCHANGED vars
    BY <1>3 DEF vars, TypeOK
  <1> QED
    BY <1>1, <1>2, <1>3, TypeTabStep, TypeWorkerStep DEF Next

\* Every reachable state has the types of TypeOK: no tab, publication, lost
\* PATCH or row is ever of a form the actions do not expect.
THEOREM TypeCorrect == Spec => []TypeOK
  BY TypeInit, TypeNext, PTL DEF Spec

-----------------------------------------------------------------------------
(***************************************************************************)
(* Drafts                                                                  *)
(***************************************************************************)

\* Nobody has anything stale about a meet that was never published: no tab's
\* list shows it further than it is, no dialog is about it and the worker has
\* never listed it.  A meet that does not exist is nowhere at all.
DraftInv ==
    \A m \in Meets :
        /\ meets[m].status \in {"Absent", "Draft"} =>
             /\ \A t \in Tabs : /\ page[t][m] \in {"Absent", "Draft"}
                                /\ tab[t].view = "confirm" => tab[t].meet # m
             /\ m \notin worker.ids
             /\ \A r \in lost : r.meet # m
        /\ meets[m].status = "Absent" =>
             \A t \in Tabs :
                /\ page[t][m] = "Absent"
                /\ tab[t] # ListView => tab[t].meet # m
                /\ publishing[t] # NotPublishing => publishing[t].meet # m

\* The action of DraftOnlyPublished.
DraftStep ==
    \A m \in Meets :
        /\ meets[m].status = "Absent" =>
             meets'[m].status \in {"Absent", "Draft"}
        /\ meets[m].status = "Draft" =>
             meets'[m].status \in {"Draft", "Published"}

LEMMA DraftInit == Init => DraftInv
  BY DEF Init, DraftInv, NoMeet, ListView, NotPublishing, IdleWorker

\* An action that leaves the table alone.
LEMMA DraftTable ==
    ASSUME UNCHANGED meets
    PROVE  DraftStep
  BY DEF DraftStep

\* An action that stores a status in the row of a meet that was published.
LEMMA DraftUpdate ==
    ASSUME TypeOK, NEW m \in Meets, NEW s \in Status, updateStatus(m, s),
           meets[m].status \notin {"Absent", "Draft"},
           s # "Draft"
    PROVE  /\ DraftStep
           /\ \A n \in Meets :
                /\ meets'[n].status = "Absent" => meets[n].status = "Absent"
                /\ meets'[n].status = "Draft" => meets[n].status = "Draft"
  BY DEF TypeOK, MeetRow, updateStatus, DraftStep, Status

\* The menu offers no dialog for a draft, and no dialog makes one.
LEMMA DialogFacts ==
    ASSUME NEW a \in DialogActions
    PROVE  /\ "Absent" \notin ShownIn[a] /\ "Draft" \notin ShownIn[a]
           /\ DialogStatus[a] \in Status \ {"Draft"}
           /\ "Absent" \notin ShownIn["edit"]
  BY DEF DialogActions, DialogStatus, ShownIn, Status

\* Nothing is due for a draft, and no step makes one.
LEMMA StepFacts ==
    ASSUME NEW step \in Steps, NEW m \in Meets
    PROVE  /\ Due(step, m) => meets[m].status \notin {"Absent", "Draft"}
           /\ StepStatus[step] \in Status \ {"Draft"}
  BY DEF Steps, StepStatus, Due, Status

\* A PATCH the worker gives up is about one of its ids.
LEMMA GiveUpFacts ==
    ASSUME NEW m \in Meets, GiveUp(m)
    PROVE  \A r \in lost' : r \in lost \/ r.meet = m
  BY DEF GiveUp

LEMMA DraftTabStep ==
    ASSUME TypeOK, DraftInv, NEW t \in Tabs, TabStep(t)
    PROVE  DraftInv' /\ DraftStep
  <1> USE DEF tabVars, workerVars
  <1>0. /\ meets \in [Meets -> MeetRow]
        /\ tab \in [Tabs -> {ListView} \cup ConfirmView \cup EditView]
        /\ publishing \in [Tabs -> {NotPublishing} \cup Publication]
        /\ page \in [Tabs -> [Meets -> Status \cup {"Absent"}]]
    BY DEF TypeOK
  <1>1. CASE LoadList(t)
    BY <1>0, <1>1, DraftTable DEF LoadList, FetchedList, DraftInv
  <1>2. CASE ConfirmAction(t)
    <2>1. tab[t].meet \in Meets /\ tab[t].action \in DialogActions
      BY <1>2, TabTypes DEF ConfirmAction, ConfirmView
    <2>2. meets[tab[t].meet].status \notin {"Absent", "Draft"}
      BY <1>2, <2>1 DEF ConfirmAction, DraftInv
    <2>3. /\ DraftStep
          /\ \A n \in Meets :
               /\ meets'[n].status = "Absent" => meets[n].status = "Absent"
               /\ meets'[n].status = "Draft" => meets[n].status = "Draft"
      BY <1>2, <2>1, <2>2, DialogFacts, DraftUpdate DEF ConfirmAction
    <2>4. DraftInv'
      BY <1>0, <1>2, <2>3 DEF ConfirmAction, DraftInv, ListView
    <2> QED
      BY <2>3, <2>4
  <1>3. CASE Dismiss(t)
    BY <1>0, <1>3, DraftTable DEF Dismiss, DraftInv, ListView
  <1>4. CASE Reload(t)
    BY <1>0, <1>4, DraftTable
       DEF Reload, FetchedList, DraftInv, ListView, NotPublishing
  <1>5. ASSUME NEW m \in Meets, Create(t, m) PROVE DraftInv' /\ DraftStep
    <2>1. meets' = [meets EXCEPT ![m] = [NoMeet EXCEPT !.status = "Draft"]]
      BY <1>5 DEF Create
    <2>2. /\ meets'[m].status = "Draft"
          /\ \A n \in Meets \ {m} : meets'[n] = meets[n]
      BY <1>0, <2>1 DEF NoMeet
    <2>3. DraftStep
      BY <1>5, <2>2 DEF Create, DraftStep
    <2>4. /\ tab'[t].view = "edit" /\ tab'[t].meet = m
          /\ \A u \in Tabs \ {t} : tab'[u] = tab[u]
      BY <1>0, <1>5 DEF Create
    <2>5. DraftInv'
      BY <1>5, <2>2, <2>4 DEF Create, DraftInv
    <2> QED
      BY <2>3, <2>5
  <1>6. ASSUME NEW m \in Meets, OpenEdit(t, m) PROVE DraftInv' /\ DraftStep
    <2>1. meets[m].status # "Absent"
      BY <1>6, DialogFacts DEF OpenEdit, DraftInv, ShownIn
    <2>2. /\ tab'[t].view = "edit" /\ tab'[t].meet = m
          /\ \A u \in Tabs \ {t} : tab'[u] = tab[u]
      BY <1>0, <1>6 DEF OpenEdit, FormOf
    <2> QED
      BY <1>6, <2>1, <2>2, DraftTable DEF OpenEdit, DraftInv
  <1>7. ASSUME NEW m \in Meets, NEW a \in DialogActions, ChooseAction(t, m, a)
        PROVE  DraftInv' /\ DraftStep
    <2>1. meets[m].status \notin {"Absent", "Draft"}
      BY <1>7, DialogFacts DEF ChooseAction, DraftInv
    <2>2. /\ tab'[t].meet = m
          /\ \A u \in Tabs \ {t} : tab'[u] = tab[u]
      BY <1>0, <1>7 DEF ChooseAction
    <2> QED
      BY <1>7, <2>1, <2>2, DraftTable DEF ChooseAction, DraftInv
  <1>8. CASE Refetch(t)
    <2>1. /\ tab[t] # ListView
          /\ tab'[t].view = "edit" /\ tab'[t].meet = tab[t].meet
          /\ \A u \in Tabs \ {t} : tab'[u] = tab[u]
      BY <1>0, <1>8 DEF Refetch, FormOf, ListView
    <2> QED
      BY <1>8, <2>1, DraftTable DEF Refetch, DraftInv
  <1>9. ASSUME UNCHANGED <<page, publishing, worker, lost>>,
               tab'[t] # ListView => tab[t] # ListView,
               tab'[t].view = tab[t].view, tab'[t].meet = tab[t].meet,
               \A u \in Tabs \ {t} : tab'[u] = tab[u],
               \A n \in Meets : meets'[n].status = meets[n].status
        PROVE  DraftInv' /\ DraftStep
    <2>1. \A u \in Tabs : /\ tab'[u] # ListView => tab[u] # ListView
                          /\ tab'[u].view = tab[u].view
                          /\ tab'[u].meet = tab[u].meet
      BY <1>9
    <2>2. DraftStep
      BY <1>9 DEF DraftStep
    <2>3. DraftInv'
      BY <1>9, <2>1 DEF DraftInv
    <2> QED
      BY <2>2, <2>3
  <1>10. ASSUME NEW x \in Times, SaveTimes(t, x)
         PROVE  DraftInv' /\ DraftStep
    <2>1. tab[t] \in EditView /\ tab[t] # ListView
      BY <1>10, TabTypes DEF SaveTimes, Editing, ListView
    <2>2. /\ tab'[t].view = tab[t].view /\ tab'[t].meet = tab[t].meet
          /\ \A u \in Tabs \ {t} : tab'[u] = tab[u]
      BY <1>0, <1>10, <2>1 DEF SaveTimes, EditView
    <2>3. \A n \in Meets : meets'[n].status = meets[n].status
      BY <1>0, <1>10, <2>1 DEF SaveTimes, EditView, MeetRow
    <2> QED
      BY <1>9, <1>10, <2>1, <2>2, <2>3 DEF SaveTimes
  <1>11. ASSUME NEW x \in Limits, SaveLimits(t, x)
         PROVE  DraftInv' /\ DraftStep
    <2>1. tab[t] \in EditView /\ tab[t] # ListView
      BY <1>11, TabTypes DEF SaveLimits, Editing, ListView
    <2>2. /\ tab'[t].view = tab[t].view /\ tab'[t].meet = tab[t].meet
          /\ \A u \in Tabs \ {t} : tab'[u] = tab[u]
      BY <1>0, <1>11, <2>1 DEF SaveLimits, EditView
    <2>3. \A n \in Meets : meets'[n].status = meets[n].status
      BY <1>0, <1>11, <2>1 DEF SaveLimits, EditView, MeetRow
    <2> QED
      BY <1>9, <1>11, <2>1, <2>2, <2>3 DEF SaveLimits
  <1>12. CASE Publish(t)
    <2>1. /\ tab[t] # ListView
          /\ publishing'[t].meet = tab[t].meet
          /\ \A u \in Tabs \ {t} : publishing'[u] = publishing[u]
      BY <1>0, <1>12 DEF Publish, Editing, ListView
    <2> QED
      BY <1>12, <2>1, DraftTable DEF Publish, DraftInv
  <1>13. ASSUME UNCHANGED <<page, tab, worker, lost>>,
                publishing[t] # NotPublishing,
                publishing'[t].meet = publishing[t].meet,
                \A u \in Tabs \ {t} : publishing'[u] = publishing[u],
                \A n \in Meets : meets'[n].status = meets[n].status
         PROVE  DraftInv' /\ DraftStep
    BY <1>0, <1>13 DEF DraftInv, DraftStep, MeetRow
  <1>14. CASE PublishOpening(t)
    <2>1. publishing[t] \in Publication /\ publishing[t] # NotPublishing
      BY <1>14, TabTypes DEF PublishOpening, NotPublishing
    <2>2. /\ publishing'[t].meet = publishing[t].meet
          /\ \A u \in Tabs \ {t} : publishing'[u] = publishing[u]
      BY <1>0, <1>14, <2>1 DEF PublishOpening, Publication
    <2>3. \A n \in Meets : meets'[n].status = meets[n].status
      BY <1>0, <1>14, <2>1 DEF PublishOpening, Publication, MeetRow
    <2> QED
      BY <1>13, <1>14, <2>1, <2>2, <2>3 DEF PublishOpening
  <1>15. CASE PublishClosing(t)
    <2>1. publishing[t] \in Publication /\ publishing[t] # NotPublishing
      BY <1>15, TabTypes DEF PublishClosing, NotPublishing
    <2>2. /\ publishing'[t].meet = publishing[t].meet
          /\ \A u \in Tabs \ {t} : publishing'[u] = publishing[u]
      BY <1>0, <1>15, <2>1 DEF PublishClosing, Publication
    <2>3. \A n \in Meets : meets'[n].status = meets[n].status
      BY <1>0, <1>15, <2>1 DEF PublishClosing, Publication, MeetRow
    <2> QED
      BY <1>13, <1>15, <2>1, <2>2, <2>3 DEF PublishClosing
  <1>16. CASE PublishStatus(t)
    <2> DEFINE p == publishing[t].meet
    <2>1. p \in Meets /\ publishing[t] # NotPublishing
      BY <1>16, TabTypes DEF PublishStatus, NotPublishing, Publication
    <2>2. meets[p].status # "Absent"
      BY <2>1 DEF DraftInv
    <2>3. /\ meets'[p].status = "Published"
          /\ \A n \in Meets \ {p} : meets'[n] = meets[n]
      BY <1>0, <1>16, <2>1 DEF PublishStatus, updateStatus, MeetRow
    <2>4. DraftStep
      BY <2>2, <2>3 DEF DraftStep
    <2>5. \A u \in Tabs : /\ tab'[u] = ListView \/ tab'[u] = tab[u]
                          /\ publishing'[u] \in {NotPublishing, publishing[u]}
      BY <1>0, <1>16 DEF PublishStatus
    <2>6. DraftInv'
      BY <1>16, <2>3, <2>5 DEF PublishStatus, DraftInv, ListView
    <2> QED
      BY <2>4, <2>6
  <1>17. CASE PublishFails(t)
    BY <1>0, <1>17, DraftTable DEF PublishFails, DraftInv
  <1> QED
    BY <1>1, <1>2, <1>3, <1>4, <1>5, <1>6, <1>7, <1>8, <1>10, <1>11, <1>12,
       <1>14, <1>15, <1>16, <1>17 DEF TabStep, PublishStep

LEMMA DraftWorkerStep ==
    ASSUME TypeOK, DraftInv, WorkerStep
    PROVE  DraftInv' /\ DraftStep
  <1> USE DEF tabVars, workerVars
  <1>0. /\ meets \in [Meets -> MeetRow]
        /\ worker \in [pc : Steps \cup {"idle", "down"}, ids : SUBSET Meets,
                       skips : 0..(MaxSkips - 1)]
        /\ lost \subseteq [meet : Meets, status : {StepStatus[s] : s \in Steps}]
    BY DEF TypeOK
  \* A step that selects finds no draft.
  <1>1. ASSUME NEW step \in Steps,
               worker'.ids = {m \in Meets : Due(step, m)},
               UNCHANGED <<meets, page, tab, publishing, lost>>
        PROVE  DraftInv' /\ DraftStep
    BY <1>1, DraftTable, StepFacts DEF DraftInv
  \* A step that sends nothing new and changes no meet.
  <1>2. ASSUME worker'.ids \subseteq worker.ids,
               \A r \in lost' : r \in lost \/ r.meet \in worker.ids,
               UNCHANGED <<meets, page, tab, publishing>>
        PROVE  DraftInv' /\ DraftStep
    BY <1>2, DraftTable DEF DraftInv
  <1>3. CASE StartPass
    BY <1>1, <1>3 DEF StartPass, FirstStep, Steps
  <1>4. CASE NextStep
    <2>1. StepAfter[worker.pc] \in Steps
      BY <1>4, StepTypes DEF NextStep, Running
    <2>2. worker'.ids = {m \in Meets : Due(StepAfter[worker.pc], m)}
      BY <1>0, <1>4 DEF NextStep, Enter
    <2> QED
      BY <1>1, <1>4, <2>1, <2>2 DEF NextStep
  <1>5. CASE EndPass \/ SkipTick
    BY <1>0, <1>2, <1>5 DEF EndPass, SkipTick
  <1>6. ASSUME NEW step \in Steps, NEW m \in Meets, Patch(step, m)
        PROVE  DraftInv' /\ DraftStep
    <2>1. meets[m].status \notin {"Absent", "Draft"}
      BY <1>6 DEF Patch, DraftInv
    <2>2. /\ DraftStep
          /\ \A n \in Meets :
               /\ meets'[n].status = "Absent" => meets[n].status = "Absent"
               /\ meets'[n].status = "Draft" => meets[n].status = "Draft"
      BY <1>6, <2>1, StepFacts, DraftUpdate DEF Patch
    <2>3. worker'.ids \subseteq worker.ids
      BY <1>0, <1>6 DEF Patch
    <2> QED
      BY <1>6, <2>2, <2>3 DEF Patch, DraftInv
  <1>7. ASSUME NEW m \in Meets, PatchFails(m) PROVE DraftInv' /\ DraftStep
    BY <1>0, <1>2, <1>7, GiveUpFacts DEF PatchFails
  <1>8. CASE Dies
    <2>1. \A r \in lost' : r \in lost \/ r.meet \in worker.ids
      BY <1>0, <1>8, GiveUpFacts DEF Dies
    <2> QED
      BY <1>2, <1>8, <2>1 DEF Dies, IdleWorker
  <1>9. CASE Restart
    BY <1>0, <1>2, <1>9 DEF Restart, IdleWorker
  <1>10. ASSUME NEW r \in lost, LostApplied(r) PROVE DraftInv' /\ DraftStep
    <2>1. r.meet \in Meets /\ r.status \in Status \ {"Draft"}
      BY <1>0, StepFacts
    <2>2. meets[r.meet].status \notin {"Absent", "Draft"}
      BY <2>1 DEF DraftInv
    <2>3. /\ DraftStep
          /\ \A n \in Meets :
               /\ meets'[n].status = "Absent" => meets[n].status = "Absent"
               /\ meets'[n].status = "Draft" => meets[n].status = "Draft"
      BY <1>10, <2>1, <2>2, DraftUpdate DEF LostApplied
    <2> QED
      BY <1>10, <2>3 DEF LostApplied, DraftInv
  <1>11. ASSUME NEW r \in lost, LostDropped(r) PROVE DraftInv' /\ DraftStep
    BY <1>2, <1>11 DEF LostDropped
  <1> QED
    BY <1>3, <1>4, <1>5, <1>6, <1>7, <1>8, <1>9, <1>10, <1>11
       DEF WorkerStep, Crash, SkipTooMany

LEMMA DraftNext == TypeOK /\ DraftInv /\ [Next]_vars => DraftInv' /\ DraftStep
  <1> SUFFICES ASSUME TypeOK, DraftInv, [Next]_vars
               PROVE  DraftInv' /\ DraftStep
    OBVIOUS
  <1>1. ASSUME UNCHANGED <<meets, page, tab, publishing, worker, lost>>
        PROVE  DraftInv' /\ DraftStep
    BY <1>1, DraftTable DEF DraftInv
  <1>2. ASSUME NEW m \in Meets, WaitlistChanges(m)
        PROVE  DraftInv' /\ DraftStep
    BY <1>1, <1>2 DEF WaitlistChanges, tabVars, workerVars
  <1>3. CASE Clock
    BY <1>1, <1>3 DEF Clock, tabVars, workerVars
  <1>4. CASE UNCHANGED vars
    BY <1>1, <1>4 DEF vars
  <1> QED
    BY <1>2, <1>3, <1>4, DraftTabStep, DraftWorkerStep DEF Next

\* A draft leaves that status by being published and in no other way, with
\* any number of tabs, crashes and lost PATCHes.
THEOREM DraftsAreOnlyPublished == Spec => DraftOnlyPublished
  <1>1. TypeOK /\ DraftInv /\ [Next]_vars => [DraftStep]_vars
    BY DraftNext
  <1>2. Spec => [][DraftStep]_vars
    BY <1>1, TypeInit, TypeNext, DraftInit, DraftNext, PTL DEF Spec
  <1> QED
    BY <1>2 DEF DraftOnlyPublished, DraftStep

-----------------------------------------------------------------------------
(***************************************************************************)
(* Settled meets                                                           *)
(***************************************************************************)

\* The action of SettledForever.
SettledStep == \A m \in Meets : Settled(m) => Settled(m)'

\* No list shows a settled meet in a status with an action.
LEMMA SettledFacts ==
    /\ \A s \in {"Cancelled", "Completed"}, a \in DOMAIN ShownIn :
          s \notin ShownIn[a]
    /\ DialogActions \subseteq DOMAIN ShownIn /\ "edit" \in DOMAIN ShownIn
    /\ \A step \in Steps, m \in Meets :
          Due(step, m) => meets[m].status \notin {"Cancelled", "Completed"}
  BY DEF ShownIn, DialogActions, DialogStatus, Due, Steps

LEMMA SettledTabStep ==
    ASSUME TypeOK, NEW m \in Meets, Settled(m), NEW t \in Tabs, TabStep(t)
    PROVE  Settled(m)'
  <1> USE DEF tabVars, workerVars
  <1>0. /\ meets \in [Meets -> MeetRow]
        /\ tab \in [Tabs -> {ListView} \cup ConfirmView \cup EditView]
        /\ publishing \in [Tabs -> {NotPublishing} \cup Publication]
        /\ page \in [Tabs -> [Meets -> Status \cup {"Absent"}]]
    BY DEF TypeOK
  <1>s. /\ meets[m].status \in {"Cancelled", "Completed"}
        /\ \A u \in Tabs :
             /\ \A a \in DOMAIN ShownIn : page[u][m] \notin ShownIn[a]
             /\ tab[u] # ListView => tab[u].meet # m
             /\ publishing[u] # NotPublishing => publishing[u].meet # m
        /\ m \notin worker.ids
        /\ \A r \in lost : r.meet # m
    BY DEF Settled, Stale
  \* What a step of tab t must leave true of m.
  <1>1. SUFFICES
          /\ meets'[m].status = meets[m].status
          /\ page'[t][m] \in {page[t][m], meets[m].status}
          /\ tab'[t] # ListView => tab'[t].meet # m
          /\ publishing'[t] # NotPublishing => publishing'[t].meet # m
          /\ \A u \in Tabs \ {t} : /\ page'[u] = page[u]
                                   /\ tab'[u] = tab[u]
                                   /\ publishing'[u] = publishing[u]
          /\ UNCHANGED <<worker, lost>>
    BY <1>s, SettledFacts DEF Settled, Stale
  <1>2. CASE LoadList(t)
    BY <1>0, <1>s, <1>2 DEF LoadList, FetchedList
  <1>3. CASE ConfirmAction(t)
    <2>1. tab[t].meet \in Meets \ {m}
      BY <1>s, <1>3, TabTypes DEF ConfirmAction, ConfirmView, ListView
    <2> QED
      BY <1>0, <1>s, <1>3, <2>1 DEF ConfirmAction, updateStatus
  <1>4. CASE Dismiss(t)
    BY <1>0, <1>s, <1>4 DEF Dismiss
  <1>5. CASE Reload(t)
    BY <1>0, <1>s, <1>5 DEF Reload, FetchedList
  <1>6. ASSUME NEW n \in Meets, Create(t, n) PROVE <1>1!1
    BY <1>0, <1>s, <1>6 DEF Create
  <1>7. ASSUME NEW n \in Meets, OpenEdit(t, n) PROVE <1>1!1
    BY <1>0, <1>s, <1>7, SettledFacts DEF OpenEdit, FormOf
  <1>8. ASSUME NEW n \in Meets, NEW a \in DialogActions, ChooseAction(t, n, a)
        PROVE  <1>1!1
    BY <1>0, <1>s, <1>8, SettledFacts DEF ChooseAction
  <1>9. CASE Refetch(t)
    BY <1>0, <1>s, <1>9 DEF Refetch, FormOf, ListView
  <1>10. ASSUME NEW x \in Times, SaveTimes(t, x) PROVE <1>1!1
    <2>1. tab[t] \in EditView /\ tab[t].meet # m
      BY <1>s, <1>10, TabTypes DEF SaveTimes, Editing, ListView
    <2>2. tab'[t].meet = tab[t].meet
      BY <1>0, <1>10, <2>1 DEF SaveTimes, EditView
    <2> QED
      BY <1>0, <1>s, <1>10, <2>1, <2>2 DEF SaveTimes
  <1>11. ASSUME NEW x \in Limits, SaveLimits(t, x) PROVE <1>1!1
    <2>1. tab[t] \in EditView /\ tab[t].meet # m
      BY <1>s, <1>11, TabTypes DEF SaveLimits, Editing, ListView
    <2>2. tab'[t].meet = tab[t].meet
      BY <1>0, <1>11, <2>1 DEF SaveLimits, EditView
    <2> QED
      BY <1>0, <1>s, <1>11, <2>1, <2>2 DEF SaveLimits
  <1>12. CASE Publish(t)
    BY <1>0, <1>s, <1>12 DEF Publish, Editing, ListView
  <1>13. CASE PublishOpening(t)
    <2>1. publishing[t] \in Publication /\ publishing[t].meet # m
      BY <1>s, <1>13, TabTypes DEF PublishOpening, NotPublishing
    <2>2. publishing'[t].meet = publishing[t].meet
      BY <1>0, <1>13, <2>1 DEF PublishOpening, Publication
    <2> QED
      BY <1>0, <1>s, <1>13, <2>1, <2>2 DEF PublishOpening
  <1>14. CASE PublishClosing(t)
    <2>1. publishing[t] \in Publication /\ publishing[t].meet # m
      BY <1>s, <1>14, TabTypes DEF PublishClosing, NotPublishing
    <2>2. publishing'[t].meet = publishing[t].meet
      BY <1>0, <1>14, <2>1 DEF PublishClosing, Publication
    <2> QED
      BY <1>0, <1>s, <1>14, <2>1, <2>2 DEF PublishClosing
  <1>15. CASE PublishStatus(t)
    <2>1. publishing[t].meet # m
      BY <1>s, <1>15 DEF PublishStatus, NotPublishing
    <2> QED
      BY <1>0, <1>s, <1>15, <2>1 DEF PublishStatus, updateStatus
  <1>16. CASE PublishFails(t)
    BY <1>0, <1>s, <1>16 DEF PublishFails
  <1> QED
    BY <1>2, <1>3, <1>4, <1>5, <1>6, <1>7, <1>8, <1>9, <1>10, <1>11, <1>12,
       <1>13, <1>14, <1>15, <1>16 DEF TabStep, PublishStep

LEMMA SettledWorkerStep ==
    ASSUME TypeOK, NEW m \in Meets, Settled(m), WorkerStep
    PROVE  Settled(m)'
  <1> USE DEF tabVars, workerVars
  <1>0. /\ meets \in [Meets -> MeetRow]
        /\ worker \in [pc : Steps \cup {"idle", "down"}, ids : SUBSET Meets,
                       skips : 0..(MaxSkips - 1)]
    BY DEF TypeOK
  <1>s. /\ meets[m].status \in {"Cancelled", "Completed"}
        /\ m \notin worker.ids
        /\ \A r \in lost : r.meet # m
    BY DEF Settled, Stale
  \* What a step of the worker must leave true of m.
  <1>1. SUFFICES /\ meets'[m].status = meets[m].status
                 /\ UNCHANGED <<page, tab, publishing>>
                 /\ m \notin worker'.ids
                 /\ \A r \in lost' : r.meet # m
    BY DEF Settled, Stale
  <1>2. CASE StartPass
    BY <1>s, <1>2, SettledFacts DEF StartPass, FirstStep, Steps
  <1>3. CASE NextStep
    BY <1>0, <1>s, <1>3, StepTypes, SettledFacts DEF NextStep, Running, Enter
  <1>4. CASE EndPass \/ SkipTick
    BY <1>0, <1>s, <1>4 DEF EndPass, SkipTick
  <1>5. ASSUME NEW step \in Steps, NEW n \in Meets, Patch(step, n)
        PROVE  <1>1!1
    BY <1>0, <1>s, <1>5 DEF Patch, updateStatus
  <1>6. ASSUME NEW n \in Meets, PatchFails(n) PROVE <1>1!1
    BY <1>0, <1>s, <1>6, GiveUpFacts DEF PatchFails
  <1>7. CASE Dies
    BY <1>0, <1>s, <1>7, GiveUpFacts DEF Dies, IdleWorker
  <1>8. CASE Restart
    BY <1>s, <1>8 DEF Restart, IdleWorker
  <1>9. ASSUME NEW r \in lost, LostApplied(r) PROVE <1>1!1
    BY <1>0, <1>s, <1>9 DEF LostApplied, updateStatus
  <1>10. ASSUME NEW r \in lost, LostDropped(r) PROVE <1>1!1
    BY <1>s, <1>10 DEF LostDropped
  <1> QED
    BY <1>2, <1>3, <1>4, <1>5, <1>6, <1>7, <1>8, <1>9, <1>10
       DEF WorkerStep, Crash, SkipTooMany

LEMMA SettledNext == TypeOK /\ [Next]_vars => SettledStep
  <1> SUFFICES ASSUME TypeOK, [Next]_vars, NEW m \in Meets, Settled(m)
               PROVE  Settled(m)'
    BY DEF SettledStep
  <1>1. ASSUME UNCHANGED <<meets, page, tab, publishing, worker, lost>>
        PROVE  Settled(m)'
    BY <1>1 DEF Settled, Stale
  <1>2. ASSUME NEW n \in Meets, WaitlistChanges(n) PROVE Settled(m)'
    BY <1>1, <1>2 DEF WaitlistChanges, tabVars, workerVars
  <1>3. CASE Clock
    BY <1>1, <1>3 DEF Clock, tabVars, workerVars
  <1>4. CASE UNCHANGED vars
    BY <1>1, <1>4 DEF vars
  <1> QED
    BY <1>2, <1>3, <1>4, SettledTabStep, SettledWorkerStep DEF Next

\* A cancelled or completed meet about which nobody holds anything stale
\* stays as it is for ever, with any number of tabs.
THEOREM SettledMeetsStaySettled == Spec => SettledForever
  <1>1. TypeOK /\ [Next]_vars => [SettledStep]_vars
    BY SettledNext
  <1>2. Spec => [][SettledStep]_vars
    BY <1>1, TypeInit, TypeNext, PTL DEF Spec
  <1> QED
    BY <1>2 DEF SettledForever, SettledStep

-----------------------------------------------------------------------------
(***************************************************************************)
(* Quiet passes                                                            *)
(***************************************************************************)

\* The steps a pass has still to begin.
Ahead(pc) ==
    CASE pc = "openScheduledMeets" ->
           {"closeOpenMeets", "closeWhenWaitlistFull", "archiveEndedMeets"}
      [] pc = "closeOpenMeets" -> {"closeWhenWaitlistFull", "archiveEndedMeets"}
      [] pc = "closeWhenWaitlistFull" -> {"archiveEndedMeets"}
      [] OTHER -> {}

\* In an undisturbed pass whatever is due is either on the worker's list or
\* for a step still ahead; QuietPassSettles is the case of no step ahead.
QuietInv ==
    undisturbed =>
        /\ worker.pc # "down"
        /\ \A step \in Steps, m \in Meets :
             Due(step, m) => \/ step \in Ahead(worker.pc)
                             \/ step = worker.pc /\ m \in worker.ids

LEMMA QuietInit == Init => QuietInv
  BY DEF Init, QuietInv

\* A step's PATCH makes work for later steps only.
LEMMA PatchMakesLaterWork ==
    ASSUME TypeOK, NEW step \in Steps, NEW m \in Meets,
           updateStatus(m, StepStatus[step]), UNCHANGED <<waitlisted, now>>
    PROVE  /\ \A s \in Steps, n \in Meets \ {m} : Due(s, n)' <=> Due(s, n)
           /\ \A s \in Steps : Due(s, m)' => s \in Ahead(step)
  <1>1. /\ meets'[m].status = StepStatus[step]
        /\ \A n \in Meets \ {m} : meets'[n] = meets[n]
    BY DEF TypeOK, MeetRow, updateStatus
  <1>2. \A s \in Steps, n \in Meets \ {m} : Due(s, n)' <=> Due(s, n)
    BY <1>1 DEF Due, Passed
  <1>3. ASSUME NEW s \in Steps, Due(s, m)'
        PROVE  s \in Ahead(step)
    <2>1. /\ s = "openScheduledMeets" => StepStatus[step] = "Published"
          /\ s \in {"closeOpenMeets", "closeWhenWaitlistFull"} =>
               StepStatus[step] = "Open"
          /\ StepStatus[step] # "Completed"
      BY <1>1, <1>3 DEF Due, Steps, StepStatus
    <2> QED
      BY <2>1 DEF Steps, StepStatus, Ahead
  <1> QED
    BY <1>2, <1>3

LEMMA QuietWorkerStep ==
    ASSUME TypeOK, QuietInv, WorkerStep
    PROVE  QuietInv'
  <1> USE DEF tabVars, workerVars
  <1>0. worker \in [pc : Steps \cup {"idle", "down"}, ids : SUBSET Meets,
                    skips : 0..(MaxSkips - 1)]
    BY DEF TypeOK
  <1>1. SUFFICES ASSUME undisturbed' PROVE QuietInv'
    BY DEF QuietInv
  \* What is due does not depend on the worker.
  <1>2. ASSUME UNCHANGED <<meets, waitlisted, now>>
        PROVE  \A step \in Steps, m \in Meets : Due(step, m)' <=> Due(step, m)
    BY <1>2 DEF Due, Passed
  <1>3. CASE StartPass
    <2>1. /\ worker'.pc = "openScheduledMeets"
          /\ worker'.ids = {m \in Meets : Due("openScheduledMeets", m)}
      BY <1>3 DEF StartPass, FirstStep
    <2> QED
      BY <1>2, <1>3, <2>1 DEF StartPass, QuietInv, Ahead, Steps
  <1>4. CASE NextStep
    <2> DEFINE next == StepAfter[worker.pc]
    <2>1. /\ worker'.pc = next
          /\ worker'.ids = {m \in Meets : Due(next, m)}
      BY <1>0, <1>4 DEF NextStep, Enter
    <2>2. next \in Steps /\ Ahead(worker.pc) = {next} \cup Ahead(next)
      BY <1>4 DEF NextStep, Running, Steps, LastStep, StepAfter, Ahead
    <2>3. undisturbed /\ worker.ids = {}
      BY <1>1, <1>4 DEF NextStep
    <2>4. ASSUME NEW step \in Steps, NEW m \in Meets, Due(step, m)'
          PROVE  step \in Ahead(next) \/ (step = next /\ m \in worker'.ids)
      <3>1. Due(step, m)
        BY <1>2, <1>4, <2>4 DEF NextStep
      <3>2. step \in Ahead(worker.pc)
        BY <2>3, <3>1 DEF QuietInv
      <3> QED
        BY <2>1, <2>2, <3>1, <3>2
    <2> QED
      BY <2>1, <2>2, <2>4 DEF QuietInv, Steps
  <1>5. CASE EndPass
    <2>1. worker'.pc = "idle" /\ worker.ids = {}
      BY <1>0, <1>5 DEF EndPass
    <2>2. \A step \in Steps, m \in Meets : ~Due(step, m)
      BY <1>1, <1>5, <2>1 DEF EndPass, QuietInv, Ahead, LastStep
    <2> QED
      BY <1>2, <1>5, <2>1, <2>2 DEF EndPass, QuietInv
  <1>6. ASSUME NEW step \in Steps, NEW m \in Meets, Patch(step, m)
        PROVE  QuietInv'
    <2>1. /\ worker.pc = step /\ worker'.pc = step
          /\ worker'.ids = worker.ids \ {m}
          /\ undisturbed
      BY <1>0, <1>1, <1>6 DEF Patch
    <2>2. /\ \A s \in Steps, n \in Meets \ {m} : Due(s, n)' <=> Due(s, n)
          /\ \A s \in Steps : Due(s, m)' => s \in Ahead(step)
      BY <1>6, PatchMakesLaterWork DEF Patch
    <2>3. ASSUME NEW s \in Steps, NEW n \in Meets, Due(s, n)'
          PROVE  s \in Ahead(step) \/ (s = step /\ n \in worker'.ids)
      BY <2>1, <2>2, <2>3 DEF QuietInv
    <2> QED
      BY <1>0, <2>1, <2>3 DEF QuietInv, Steps
  <1>7. CASE SkipTick
    <2>1. worker'.pc = worker.pc /\ worker'.ids = worker.ids
      BY <1>0, <1>7 DEF SkipTick
    <2> QED
      BY <1>2, <1>7, <2>1 DEF SkipTick, QuietInv
  <1>8. CASE Restart
    BY <1>1, <1>8 DEF Restart, QuietInv
  <1>9. ASSUME NEW r \in lost, LostDropped(r) PROVE QuietInv'
    BY <1>2, <1>9 DEF LostDropped, QuietInv
  <1> QED
    BY <1>1, <1>3, <1>4, <1>5, <1>6, <1>7, <1>8, <1>9
       DEF WorkerStep, Crash, SkipTooMany, Dies, PatchFails, LostApplied

LEMMA QuietNext == TypeOK /\ QuietInv /\ [Next]_vars => QuietInv'
  <1> SUFFICES ASSUME TypeOK, QuietInv, [Next]_vars PROVE QuietInv'
    OBVIOUS
  <1>1. ASSUME UNCHANGED <<meets, waitlisted, now, worker, undisturbed>>
        PROVE  QuietInv'
    BY <1>1 DEF QuietInv, Due, Passed
  <1>2. ASSUME undisturbed' = FALSE PROVE QuietInv'
    BY <1>2 DEF QuietInv
  <1>3. ASSUME NEW t \in Tabs, TabStep(t) PROVE QuietInv'
    BY <1>1, <1>2, <1>3
       DEF TabStep, PublishStep, LoadList, ConfirmAction, Dismiss, Reload,
           Create, OpenEdit, ChooseAction, Refetch, SaveTimes, SaveLimits,
           Publish, PublishOpening, PublishClosing, PublishStatus,
           PublishFails, workerVars
  <1>4. ASSUME NEW m \in Meets, WaitlistChanges(m) PROVE QuietInv'
    BY <1>2, <1>4 DEF WaitlistChanges
  <1>5. CASE Clock
    BY <1>2, <1>5 DEF Clock
  <1>6. CASE UNCHANGED vars
    BY <1>1, <1>6 DEF vars
  <1> QED
    BY <1>3, <1>4, <1>5, <1>6, QuietWorkerStep DEF Next

\* A pass during which nothing else happens leaves nothing to do, however
\* many meets are due and for whatever reasons: the order of the steps makes
\* a second pass unnecessary.
THEOREM QuietPassesSettle == Spec => []QuietPassSettles
  <1>1. QuietInv => QuietPassSettles
    BY DEF QuietInv, QuietPassSettles, Ahead, Steps
  <1> QED
    BY <1>1, TypeInit, TypeNext, QuietInit, QuietNext, PTL DEF Spec

-----------------------------------------------------------------------------
(***************************************************************************)
(* Dates of published meets, with one tab                                  *)
(***************************************************************************)

\* No two tabs.
OneTab == \A t, u \in Tabs : t = u

\* A date that a form or a publication knows of is stored, and a publication
\* has filled in what it has passed.
DatesInv ==
    \A t \in Tabs :
        /\ tab[t].view = "edit" =>
             /\ tab[t].hasOpening => meets[tab[t].meet].opening # NoDate
             /\ tab[t].hasClosing => meets[tab[t].meet].closing # NoDate
        /\ publishing[t] # NotPublishing =>
             /\ publishing[t].next # "opening" =>
                  meets[publishing[t].meet].opening # NoDate
             /\ publishing[t].next = "status" \/ publishing[t].hasClosing =>
                  meets[publishing[t].meet].closing # NoDate

\* The action of PublishedWithDates.
DatedStep ==
    \A m \in Meets :
        /\ meets[m].status # "Published"
        /\ meets'[m].status = "Published"
        => meets[m].opening # NoDate /\ meets[m].closing # NoDate

\* No date is taken away, and no meet published.
DatesKept ==
    \A m \in Meets :
        /\ meets[m].opening # NoDate => meets'[m].opening # NoDate
        /\ meets[m].closing # NoDate => meets'[m].closing # NoDate
        /\ meets'[m].status = "Published" => meets[m].status = "Published"

LEMMA DatesInit == Init => DatesInv
  BY DEF Init, DatesInv, ListView, NotPublishing

LEMMA KeptDates ==
    ASSUME TypeOK, DatesInv, DatesKept,
           \A t \in Tabs : tab'[t] = tab[t] \/ tab'[t].view # "edit",
           \A t \in Tabs : \/ publishing'[t] = publishing[t]
                           \/ publishing'[t] = NotPublishing
    PROVE  DatesInv' /\ DatedStep
  <1>1. ASSUME NEW t \in Tabs, tab[t].view = "edit"
        PROVE  tab[t].meet \in Meets
    BY <1>1, TabTypes DEF ListView
  <1>2. ASSUME NEW t \in Tabs, publishing[t] # NotPublishing
        PROVE  publishing[t].meet \in Meets
    BY <1>2, TabTypes DEF Publication
  <1> QED
    BY <1>1, <1>2 DEF DatesInv, DatedStep, DatesKept

LEMMA StatusKeepsDates ==
    ASSUME TypeOK, NEW m \in Meets, NEW s \in Status \ {"Published"},
           updateStatus(m, s)
    PROVE  DatesKept
  BY DEF TypeOK, MeetRow, updateStatus, DatesKept, Status

LEMMA NobodyElsePublishes ==
    /\ \A a \in DialogActions : DialogStatus[a] \in Status \ {"Published"}
    /\ \A step \in Steps : StepStatus[step] \in Status \ {"Published"}
  BY DEF DialogActions, DialogStatus, Steps, StepStatus, Status

LEMMA DatesTabStep ==
    ASSUME OneTab, TypeOK, DatesInv, NEW t \in Tabs, TabStep(t)
    PROVE  DatesInv' /\ DatedStep
  <1> USE DEF tabVars, workerVars
  <1>0. /\ meets \in [Meets -> MeetRow]
        /\ tab \in [Tabs -> {ListView} \cup ConfirmView \cup EditView]
        /\ publishing \in [Tabs -> {NotPublishing} \cup Publication]
        /\ \A u \in Tabs : u = t
    BY DEF TypeOK, OneTab
  \* What holds of this tab holds of all.
  <1>1. ASSUME tab'[t].view = "edit" =>
                  /\ tab'[t].hasOpening => meets'[tab'[t].meet].opening # NoDate
                  /\ tab'[t].hasClosing => meets'[tab'[t].meet].closing # NoDate,
               publishing'[t] # NotPublishing =>
                  /\ publishing'[t].next # "opening" =>
                       meets'[publishing'[t].meet].opening # NoDate
                  /\ publishing'[t].next = "status" \/ publishing'[t].hasClosing =>
                       meets'[publishing'[t].meet].closing # NoDate
        PROVE  DatesInv'
    BY <1>0, <1>1 DEF DatesInv
  <1>2. UNCHANGED meets => DatesKept /\ DatedStep
    BY DEF DatesKept, DatedStep
  <1>3. CASE LoadList(t) \/ Dismiss(t) \/ Reload(t) \/ PublishFails(t)
    BY <1>0, <1>2, <1>3, KeptDates
       DEF LoadList, Dismiss, Reload, PublishFails, ListView
  <1>4. CASE ConfirmAction(t)
    <2>1. tab[t].meet \in Meets /\ tab[t].action \in DialogActions
      BY <1>4, TabTypes DEF ConfirmAction, ConfirmView
    <2>2. DatesKept
      BY <1>4, <2>1, StatusKeepsDates, NobodyElsePublishes DEF ConfirmAction
    <2> QED
      BY <1>0, <1>4, <2>2, KeptDates DEF ConfirmAction, ListView
  <1>5. ASSUME NEW m \in Meets, NEW a \in DialogActions, ChooseAction(t, m, a)
        PROVE  DatesInv' /\ DatedStep
    BY <1>0, <1>2, <1>5, KeptDates DEF ChooseAction
  <1>6. ASSUME NEW m \in Meets, Create(t, m) PROVE DatesInv' /\ DatedStep
    <2>1. /\ ~tab'[t].hasOpening /\ ~tab'[t].hasClosing
          /\ publishing'[t] = NotPublishing
      BY <1>0, <1>6 DEF Create
    <2>2. DatedStep
      BY <1>0, <1>6 DEF Create, DatedStep, NoMeet
    <2> QED
      BY <1>1, <2>1, <2>2
  \* The form is the row.
  <1>7. ASSUME NEW m \in Meets, tab' = [tab EXCEPT ![t] = FormOf(m)],
               UNCHANGED <<meets, publishing>>
        PROVE  DatesInv' /\ DatedStep
    <2>1. /\ tab'[t].meet = m
          /\ tab'[t].hasOpening => meets[m].opening # NoDate
          /\ tab'[t].hasClosing => meets[m].closing # NoDate
      BY <1>0, <1>7 DEF FormOf
    <2> QED
      BY <1>0, <1>1, <1>2, <1>7, <2>1 DEF DatesInv
  <1>8. ASSUME NEW m \in Meets, OpenEdit(t, m) PROVE DatesInv' /\ DatedStep
    BY <1>7, <1>8 DEF OpenEdit
  <1>9. CASE Refetch(t)
    BY <1>7, <1>9, TabTypes DEF Refetch, EditView
  <1>10. ASSUME Editing(t)
         PROVE  /\ tab[t] \in EditView /\ tab[t].meet \in Meets
                /\ publishing[t] = NotPublishing
    BY <1>10, TabTypes DEF Editing, EditView
  <1>11. ASSUME NEW x \in Times, SaveTimes(t, x) PROVE DatesInv' /\ DatedStep
    <2>1. /\ tab[t] \in EditView /\ tab[t].meet \in Meets
          /\ publishing'[t] = NotPublishing
      BY <1>10, <1>11 DEF SaveTimes
    <2>2. DatesKept /\ DatedStep
      BY <1>0, <1>11, <2>1 DEF SaveTimes, DatesKept, DatedStep, MeetRow
    <2>3. /\ tab'[t].meet = tab[t].meet
          /\ tab'[t].hasOpening = tab[t].hasOpening
          /\ tab'[t].hasClosing = tab[t].hasClosing /\ tab[t].view = "edit"
      BY <1>0, <1>11, <2>1 DEF SaveTimes, EditView
    <2> QED
      BY <1>1, <2>1, <2>2, <2>3 DEF DatesInv, DatesKept
  <1>12. ASSUME NEW x \in Limits, SaveLimits(t, x) PROVE DatesInv' /\ DatedStep
    <2>1. /\ tab[t] \in EditView /\ tab[t].meet \in Meets
          /\ publishing'[t] = NotPublishing
      BY <1>10, <1>12 DEF SaveLimits
    <2>2. /\ meets'[tab[t].meet].opening = x.opening
          /\ meets'[tab[t].meet].closing = x.closing
          /\ \A m \in Meets : meets'[m].status = meets[m].status
      BY <1>0, <1>12, <2>1 DEF SaveLimits, MeetRow
    <2>3. /\ tab'[t].meet = tab[t].meet
          /\ tab'[t].hasOpening <=> x.opening # NoDate
          /\ tab'[t].hasClosing <=> x.closing # NoDate
      BY <1>0, <1>12, <2>1 DEF SaveLimits, EditView
    <2> QED
      BY <1>1, <2>1, <2>2, <2>3 DEF DatedStep
  <1>13. CASE Publish(t)
    <2>1. tab[t] \in EditView /\ tab[t].view = "edit"
      BY <1>10, <1>13 DEF Publish, Editing
    <2>2. /\ publishing'[t].meet = tab[t].meet
          /\ publishing'[t].hasClosing = tab[t].hasClosing
          /\ publishing'[t].next # "opening" => tab[t].hasOpening
          /\ publishing'[t].next = "status" => tab[t].hasClosing
      BY <1>0, <1>13 DEF Publish, AfterOpening
    <2> QED
      BY <1>1, <1>2, <1>13, <2>1, <2>2 DEF Publish, DatesInv
  <1>14. CASE PublishOpening(t)
    <2>1. publishing[t] \in Publication /\ publishing[t] # NotPublishing
      BY <1>14, TabTypes DEF PublishOpening, NotPublishing
    <2>2. now # NoDate
      BY LifecycleConstants DEF TypeOK
    <2>3. /\ DatesKept /\ DatedStep
          /\ meets'[publishing[t].meet].opening # NoDate
      BY <1>0, <1>14, <2>1, <2>2
         DEF PublishOpening, Publication, DatesKept, DatedStep, MeetRow
    <2>4. /\ publishing'[t].meet = publishing[t].meet
          /\ publishing'[t].hasClosing = publishing[t].hasClosing
          /\ publishing'[t].next = "status" => publishing[t].hasClosing
          /\ publishing[t].meet \in Meets
      BY <1>0, <1>14, <2>1 DEF PublishOpening, Publication, AfterOpening
    <2>5. tab' = tab /\ (tab[t].view = "edit" => tab[t].meet \in Meets)
      BY <1>14, TabTypes DEF PublishOpening, ListView
    <2> QED
      BY <1>1, <2>1, <2>3, <2>4, <2>5 DEF DatesInv, DatesKept
  <1>15. CASE PublishClosing(t)
    <2>1. publishing[t] \in Publication /\ publishing[t] # NotPublishing
      BY <1>15, TabTypes DEF PublishClosing, NotPublishing
    <2>2. publishing[t].start # NoDate
      BY <2>1, LifecycleConstants DEF Publication
    <2>3. /\ DatesKept /\ DatedStep
          /\ meets'[publishing[t].meet].closing # NoDate
      BY <1>0, <1>15, <2>1, <2>2
         DEF PublishClosing, Publication, DatesKept, DatedStep, MeetRow
    <2>4. /\ publishing'[t].meet = publishing[t].meet
          /\ publishing[t].next = "closing" /\ publishing[t].meet \in Meets
      BY <1>0, <1>15, <2>1 DEF PublishClosing, Publication
    <2>5. tab' = tab /\ (tab[t].view = "edit" => tab[t].meet \in Meets)
      BY <1>15, TabTypes DEF PublishClosing, ListView
    <2> QED
      BY <1>1, <2>1, <2>3, <2>4, <2>5 DEF DatesInv, DatesKept
  <1>16. CASE PublishStatus(t)
    <2>1. publishing[t] \in Publication /\ publishing[t] # NotPublishing
      BY <1>16, TabTypes DEF PublishStatus, NotPublishing
    <2>2. /\ meets[publishing[t].meet].opening # NoDate
          /\ meets[publishing[t].meet].closing # NoDate
      BY <1>16, <2>1 DEF PublishStatus, DatesInv
    <2>3. DatedStep
      BY <1>0, <1>16, <2>2 DEF PublishStatus, updateStatus, DatedStep
    <2>4. tab'[t].view # "edit" /\ publishing'[t] = NotPublishing
      BY <1>0, <1>16 DEF PublishStatus, ListView
    <2> QED
      BY <1>1, <2>3, <2>4
  <1> QED
    BY <1>3, <1>4, <1>5, <1>6, <1>8, <1>9, <1>11, <1>12, <1>13, <1>14, <1>15,
       <1>16 DEF TabStep, PublishStep

LEMMA DatesNext ==
    ASSUME OneTab, TypeOK, DatesInv, [Next]_vars
    PROVE  DatesInv' /\ DatedStep
  <1> USE DEF tabVars, workerVars
  <1>1. ASSUME UNCHANGED <<meets, tab, publishing>>
        PROVE  DatesInv' /\ DatedStep
    BY <1>1 DEF DatesInv, DatedStep
  <1>2. ASSUME NEW m \in Meets, NEW s \in Status \ {"Published"},
               updateStatus(m, s), UNCHANGED <<tab, publishing>>
        PROVE  DatesInv' /\ DatedStep
    BY <1>2, StatusKeepsDates, KeptDates
  <1>3. ASSUME NEW step \in Steps, NEW m \in Meets, Patch(step, m)
        PROVE  DatesInv' /\ DatedStep
    BY <1>2, <1>3, NobodyElsePublishes DEF Patch
  <1>4. ASSUME NEW r \in lost, LostApplied(r) PROVE DatesInv' /\ DatedStep
    <2>1. r.meet \in Meets /\ r.status \in Status \ {"Published"}
      BY NobodyElsePublishes DEF TypeOK
    <2> QED
      BY <1>2, <1>4, <2>1 DEF LostApplied
  <1>5. CASE WorkerStep
    BY <1>1, <1>3, <1>4, <1>5
       DEF WorkerStep, StartPass, NextStep, EndPass, PatchFails, Crash, Dies,
           SkipTick, SkipTooMany, Restart, LostDropped
  <1>6. CASE (\E m \in Meets : WaitlistChanges(m)) \/ Clock \/ UNCHANGED vars
    BY <1>1, <1>6 DEF WaitlistChanges, Clock, vars
  <1> QED
    BY <1>5, <1>6, DatesTabStep DEF Next

\* With one tab, a meet is published with both dates set, whatever an
\* organizer leaves blank and whichever PATCH of a publication fails
\* (CreateMeetModal.tsx:428-470).
THEOREM PublishedHaveDates ==
    ASSUME OneTab
    PROVE  Spec => PublishedWithDates
  <1>1. TypeOK /\ DatesInv /\ [Next]_vars => DatesInv' /\ [DatedStep]_vars
    BY DatesNext
  <1>2. Spec => [][DatedStep]_vars
    BY <1>1, TypeInit, TypeNext, DatesInit, PTL DEF Spec
  <1> QED
    BY <1>2 DEF PublishedWithDates, DatedStep

=============================================================================
