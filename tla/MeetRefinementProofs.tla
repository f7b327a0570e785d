------------------------- MODULE MeetRefinementProofs -------------------------
(***************************************************************************)
(* MeetLifecycle implements MeetProtocol, for every set of meets and tabs  *)
(* and every bound.                                                        *)
(***************************************************************************)
EXTENDS MeetRefinement, MeetLifecycleProofs

\* Whatever is intended in the next state was intended, or is permitted now.
NewIntentsPermitted ==
    \A m \in Meets, s \in Status :
       Intended(m, s)' => \/ Intended(m, s)
                          \/ s \in Protocol!Permitted[meets[m].status]

NoNewIntents ==
    \A m \in Meets, s \in Status : Intended(m, s)' => Intended(m, s)

NoNewTabIntents ==
    \A t \in Tabs, m \in Meets, s \in Status :
       TabIntends(t, m, s)' => TabIntends(t, m, s)

StatusesKept == \A m \in Meets : meets'[m].status = meets[m].status

ProtocolStep == [Protocol!ProtocolNext]_(Protocol!protocolVars)

\* The menu, the modal and the worker's queries offer what is permitted.
LEMMA MenuPermits ==
    ASSUME NEW a \in DialogActions, NEW s \in ShownIn[a]
    PROVE  DialogStatus[a] \in Protocol!Permitted[s]
  BY DEF DialogActions, DialogStatus, ShownIn, Protocol!Permitted

LEMMA ModalPermits ==
    ASSUME NEW s \in {"Draft", "Postponed"}
    PROVE  "Published" \in Protocol!Permitted[s]
  BY DEF Protocol!Permitted

LEMMA WorkerPermits ==
    ASSUME NEW step \in Steps, NEW m \in Meets, Due(step, m)
    PROVE  StepStatus[step] \in Protocol!Permitted[meets[m].status]
  <1>1. CASE meets[m].status = "Published" /\ step = "openScheduledMeets"
    BY <1>1 DEF StepStatus, Protocol!Permitted
  <1>2. CASE /\ meets[m].status = "Open"
             /\ step \in {"closeOpenMeets", "closeWhenWaitlistFull"}
    BY <1>2 DEF StepStatus, Protocol!Permitted
  <1>3. CASE /\ meets[m].status \in {"Open", "Closed", "Published"}
             /\ step = "archiveEndedMeets"
    BY <1>3 DEF StepStatus, Protocol!Permitted
  <1> QED
    BY <1>1, <1>2, <1>3 DEF Due

-------------------------------------------------------------------------------
(* From the actions of MeetLifecycle to those of the protocol. *)

\* A step that changes no status looks, if what it intends is permitted.
LEMMA LookStep ==
    ASSUME StatusesKept, NewIntentsPermitted
    PROVE  ProtocolStep
  <1>1. Protocol!Look
    BY DEF StatusesKept, NewIntentsPermitted, Protocol!Look, Protocol!Intent,
           Protocol!Statuses, Status
  <1> QED
    BY <1>1 DEF ProtocolStep, Protocol!ProtocolNext

\* A PATCH carries out an intention, if nothing new is intended.
LEMMA CarryOutStep ==
    ASSUME TypeOK, NEW m \in Meets, NEW s \in Status, updateStatus(m, s),
           Intended(m, s), NoNewIntents
    PROVE  ProtocolStep
  <1> DEFINE i == [meet |-> m, to |-> s]
  <1>1. i \in {j \in [meet : Meets, to : Status] : Intended(j.meet, j.to)}
    OBVIOUS
  <1>2. [n \in Meets |-> meets'[n].status]
          = [[n \in Meets |-> meets[n].status] EXCEPT ![m] = s]
    BY DEF TypeOK, MeetRow, updateStatus
  <1>3. Protocol!CarryOut(i)
    BY <1>2 DEF NoNewIntents, Protocol!CarryOut
  <1> QED
    BY <1>1, <1>3 DEF ProtocolStep, Protocol!ProtocolNext

LEMMA CreateStep ==
    ASSUME TypeOK, NEW m \in Meets, meets[m].status = "Absent",
           meets' = [meets EXCEPT ![m] = [NoMeet EXCEPT !.status = "Draft"]],
           \A n \in Meets, s \in Status :
              Intended(n, s)' => Intended(n, s) \/ (n = m /\ s = "Published")
    PROVE  ProtocolStep
  <1>1. [n \in Meets |-> meets'[n].status]
          = [[n \in Meets |-> meets[n].status] EXCEPT ![m] = "Draft"]
    BY DEF TypeOK, NoMeet
  <1>2. Protocol!Create(m)
    BY <1>1 DEF Protocol!Create
  <1> QED
    BY <1>2 DEF ProtocolStep, Protocol!ProtocolNext

\* One tab moves: the intentions of the others, and the worker's, stay.
OnlyTab(t) ==
    /\ \A u \in Tabs \ {t} : /\ page'[u] = page[u] /\ tab'[u] = tab[u]
                             /\ publishing'[u] = publishing[u]
    /\ UNCHANGED <<worker, lost>>

LEMMA OthersKeep ==
    ASSUME NEW t \in Tabs, OnlyTab(t)
    PROVE  \A m \in Meets, s \in Status :
              Intended(m, s)' => Intended(m, s) \/ TabIntends(t, m, s)'
  BY DEF OnlyTab, Intended, WorkerIntends, Running, TabIntends, MenuIntends,
         DialogIntends, ModalIntends, PublicationIntends

-------------------------------------------------------------------------------
(* Tabs. *)

\* What the menu offers of a list that was just fetched.
LEMMA FetchedPermits ==
    ASSUME TypeOK, NEW t \in Tabs,
           page' = [page EXCEPT ![t] = FetchedList],
           NEW m \in Meets, NEW s \in Status, MenuIntends(t, m, s)'
    PROVE  s \in Protocol!Permitted[meets[m].status]
  <1>1. page'[t][m] = meets[m].status
    BY DEF TypeOK, FetchedList
  <1>2. PICK a \in DialogActions : meets[m].status \in ShownIn[a]
                                   /\ s = DialogStatus[a]
    BY <1>1 DEF MenuIntends
  <1> QED
    BY <1>2, MenuPermits

\* What the modal offers of a form that was just filled.
LEMMA FormPermits ==
    ASSUME TypeOK, NEW t \in Tabs, NEW n \in Meets,
           tab' = [tab EXCEPT ![t] = FormOf(n)],
           NEW m \in Meets, NEW s \in Status,
           DialogIntends(t, m, s)' \/ ModalIntends(t, m, s)'
    PROVE  s \in Protocol!Permitted[meets[m].status]
  <1>1. tab'[t] = FormOf(n)
    BY DEF TypeOK
  <1>2. /\ tab'[t].view = "edit" /\ tab'[t].meet = n
        /\ tab'[t].publishable = (meets[n].status \in {"Draft", "Postponed"})
    BY <1>1 DEF FormOf
  <1>3. ModalIntends(t, m, s)'
    BY <1>2 DEF DialogIntends
  <1>4. m = n /\ s = "Published"
    BY <1>2, <1>3 DEF ModalIntends
  <1>5. meets[n].status \in {"Draft", "Postponed"}
    BY <1>2, <1>3, Zenon DEF ModalIntends
  <1> QED
    BY <1>4, <1>5, ModalPermits

LEMMA RefineTabStep ==
    ASSUME TypeOK, NEW t \in Tabs, TabStep(t)
    PROVE  ProtocolStep
  <1> USE DEF tabVars, workerVars
  <1>0. /\ meets \in [Meets -> MeetRow]
        /\ tab \in [Tabs -> {ListView} \cup ConfirmView \cup EditView]
        /\ publishing \in [Tabs -> {NotPublishing} \cup Publication]
        /\ page \in [Tabs -> [Meets -> Status \cup {"Absent"}]]
    BY DEF TypeOK
  <1>1. ASSUME OnlyTab(t), StatusesKept,
               \A m \in Meets, s \in Status :
                  TabIntends(t, m, s)' =>
                     TabIntends(t, m, s)
                     \/ s \in Protocol!Permitted[meets[m].status]
        PROVE  ProtocolStep
    <2>1. NewIntentsPermitted
      BY <1>1, OthersKeep DEF NewIntentsPermitted, Intended
    <2> QED
      BY <1>1, <2>1, LookStep
  <1>2. ASSUME NEW m \in Meets, NEW s \in Status, updateStatus(m, s),
               OnlyTab(t), TabIntends(t, m, s),
               \A n \in Meets, r \in Status :
                  TabIntends(t, n, r)' => TabIntends(t, n, r)
        PROVE  ProtocolStep
    <2>1. NoNewIntents /\ Intended(m, s)
      BY <1>2, OthersKeep DEF NoNewIntents, Intended
    <2> QED
      BY <1>2, <2>1, CarryOutStep
  <1>3. ASSUME UNCHANGED meets PROVE StatusesKept
    BY <1>3 DEF StatusesKept
  <1>4. ASSUME LoadList(t) PROVE ProtocolStep
    <2>1. OnlyTab(t)
      BY <1>0, <1>4 DEF LoadList, OnlyTab
    <2>2. ASSUME NEW m \in Meets, NEW s \in Status, TabIntends(t, m, s)'
          PROVE  TabIntends(t, m, s)
                 \/ s \in Protocol!Permitted[meets[m].status]
      <3>1. CASE MenuIntends(t, m, s)'
        BY <1>4, <3>1, FetchedPermits DEF LoadList
      <3>2. CASE \/ DialogIntends(t, m, s)' \/ ModalIntends(t, m, s)'
                 \/ PublicationIntends(t, m, s)'
        BY <1>4, <3>2 DEF LoadList, TabIntends, DialogIntends, ModalIntends,
                          PublicationIntends
      <3> QED
        BY <2>2, <3>1, <3>2 DEF TabIntends
    <2> QED
      BY <1>1, <1>3, <1>4, <2>1, <2>2 DEF LoadList
  <1>5. ASSUME ConfirmAction(t) PROVE ProtocolStep
    <2> DEFINE m == tab[t].meet
               s == DialogStatus[tab[t].action]
    <2>1. m \in Meets /\ s \in Status
      BY <1>5, TabTypes, DialogTypes DEF ConfirmAction, ConfirmView
    <2>2. OnlyTab(t)
      BY <1>0, <1>5 DEF ConfirmAction, OnlyTab
    <2>3. TabIntends(t, m, s)
      BY <1>5 DEF ConfirmAction, TabIntends, DialogIntends
    <2>4. \A n \in Meets, r \in Status :
             TabIntends(t, n, r)' => TabIntends(t, n, r)
      BY <1>0, <1>5 DEF ConfirmAction, TabIntends, MenuIntends, DialogIntends,
                        ModalIntends, PublicationIntends, ListView
    <2>5. updateStatus(m, s)
      BY <1>5 DEF ConfirmAction
    <2> QED
      BY <1>2, <2>1, <2>2, <2>3, <2>4, <2>5
  <1>6. ASSUME Dismiss(t) PROVE ProtocolStep
    <2>1. OnlyTab(t)
      BY <1>0, <1>6 DEF Dismiss, OnlyTab
    <2>2. \A m \in Meets, s \in Status :
             TabIntends(t, m, s)' => TabIntends(t, m, s)
      BY <1>0, <1>6 DEF Dismiss, TabIntends, MenuIntends, DialogIntends,
                        ModalIntends, PublicationIntends, ListView
    <2> QED
      BY <1>1, <1>3, <1>6, <2>1, <2>2 DEF Dismiss
  <1>7. ASSUME Reload(t) PROVE ProtocolStep
    <2>1. OnlyTab(t)
      BY <1>0, <1>7 DEF Reload, OnlyTab
    <2>2. ASSUME NEW m \in Meets, NEW s \in Status, TabIntends(t, m, s)'
          PROVE  s \in Protocol!Permitted[meets[m].status]
      <3>1. tab'[t] = ListView /\ publishing'[t] = NotPublishing
        BY <1>0, <1>7 DEF Reload
      <3>2. MenuIntends(t, m, s)'
        BY <2>2, <3>1 DEF TabIntends, DialogIntends, ModalIntends,
                          PublicationIntends, ListView
      <3> QED
        BY <1>7, <3>2, FetchedPermits DEF Reload
    <2> QED
      BY <1>1, <1>3, <1>7, <2>1, <2>2 DEF Reload
  <1>8. ASSUME NEW m \in Meets, Create(t, m) PROVE ProtocolStep
    <2>1. OnlyTab(t)
      BY <1>0, <1>8 DEF Create, OnlyTab
    <2>2. tab'[t].view = "edit" /\ tab'[t].meet = m
      BY <1>0, <1>8 DEF Create
    <2>3. \A n \in Meets, s \in Status :
             TabIntends(t, n, s)' =>
                TabIntends(t, n, s) \/ (n = m /\ s = "Published")
      BY <1>8, <2>2 DEF Create, TabIntends, MenuIntends, DialogIntends,
                        ModalIntends, PublicationIntends
    <2>4. \A n \in Meets, s \in Status :
             Intended(n, s)' => Intended(n, s) \/ (n = m /\ s = "Published")
      BY <2>1, <2>3, OthersKeep DEF Intended
    <2> QED
      BY <1>8, <2>4, CreateStep DEF Create
  <1>9. ASSUME NEW n \in Meets, tab' = [tab EXCEPT ![t] = FormOf(n)],
               UNCHANGED <<meets, page, publishing, worker, lost>>
        PROVE  ProtocolStep
    <2>1. OnlyTab(t)
      BY <1>0, <1>9 DEF OnlyTab
    <2>2. ASSUME NEW m \in Meets, NEW s \in Status, TabIntends(t, m, s)'
          PROVE  TabIntends(t, m, s)
                 \/ s \in Protocol!Permitted[meets[m].status]
      <3>1. CASE DialogIntends(t, m, s)' \/ ModalIntends(t, m, s)'
        BY <1>9, <3>1, FormPermits
      <3>2. CASE MenuIntends(t, m, s)' \/ PublicationIntends(t, m, s)'
        BY <1>9, <3>2 DEF TabIntends, MenuIntends, PublicationIntends
      <3> QED
        BY <2>2, <3>1, <3>2 DEF TabIntends
    <2> QED
      BY <1>1, <1>3, <1>9, <2>1, <2>2
  <1>10. ASSUME NEW m \in Meets, OpenEdit(t, m) PROVE ProtocolStep
    BY <1>9, <1>10 DEF OpenEdit
  <1>11. ASSUME Refetch(t) PROVE ProtocolStep
    BY <1>9, <1>11, TabTypes DEF Refetch, EditView
  <1>12. ASSUME NEW m \in Meets, NEW a \in DialogActions, ChooseAction(t, m, a)
         PROVE  ProtocolStep
    <2>1. OnlyTab(t)
      BY <1>0, <1>12 DEF ChooseAction, OnlyTab
    <2>2. tab'[t] = [view |-> "confirm", meet |-> m, action |-> a]
      BY <1>0, <1>12 DEF ChooseAction
    <2>3. MenuIntends(t, m, DialogStatus[a])
      BY <1>12 DEF ChooseAction, MenuIntends
    <2>4. \A n \in Meets, s \in Status :
             TabIntends(t, n, s)' => TabIntends(t, n, s)
      BY <1>12, <2>2, <2>3 DEF ChooseAction, TabIntends, MenuIntends,
             DialogIntends, ModalIntends, PublicationIntends
    <2> QED
      BY <1>1, <1>3, <1>12, <2>1, <2>4 DEF ChooseAction
  <1>13. ASSUME NEW x \in Times, SaveTimes(t, x) PROVE ProtocolStep
    <2>1. OnlyTab(t)
      BY <1>0, <1>13 DEF SaveTimes, OnlyTab
    <2>2. StatusesKept
      BY <1>0, <1>13 DEF SaveTimes, StatusesKept, MeetRow
    <2>3. tab[t] \in EditView /\ tab'[t] = [tab[t] EXCEPT !.start = x.start]
      BY <1>0, <1>13, TabTypes DEF SaveTimes, Editing
    <2>4. /\ tab'[t].view = tab[t].view /\ tab'[t].meet = tab[t].meet
          /\ tab'[t].publishable = tab[t].publishable /\ tab[t].view = "edit"
      BY <2>3 DEF EditView
    <2>5. \A m \in Meets, s \in Status :
             TabIntends(t, m, s)' => TabIntends(t, m, s)
      BY <1>13, <2>4 DEF SaveTimes, TabIntends, MenuIntends, DialogIntends,
                         ModalIntends, PublicationIntends
    <2> QED
      BY <1>1, <2>1, <2>2, <2>5
  <1>14. ASSUME NEW x \in Limits, SaveLimits(t, x) PROVE ProtocolStep
    <2>1. OnlyTab(t)
      BY <1>0, <1>14 DEF SaveLimits, OnlyTab
    <2>2. StatusesKept
      BY <1>0, <1>14 DEF SaveLimits, StatusesKept, MeetRow
    <2>3. /\ tab[t] \in EditView
          /\ tab'[t] = [tab[t] EXCEPT !.hasOpening = (x.opening # NoDate),
                                      !.hasClosing = (x.closing # NoDate)]
      BY <1>0, <1>14, TabTypes DEF SaveLimits, Editing
    <2>4. /\ tab'[t].view = tab[t].view /\ tab'[t].meet = tab[t].meet
          /\ tab'[t].publishable = tab[t].publishable /\ tab[t].view = "edit"
      BY <2>3 DEF EditView
    <2>5. \A m \in Meets, s \in Status :
             TabIntends(t, m, s)' => TabIntends(t, m, s)
      BY <1>14, <2>4 DEF SaveLimits, TabIntends, MenuIntends, DialogIntends,
                         ModalIntends, PublicationIntends
    <2> QED
      BY <1>1, <2>1, <2>2, <2>5
  <1>15. ASSUME Publish(t) PROVE ProtocolStep
    <2>1. OnlyTab(t)
      BY <1>0, <1>15 DEF Publish, OnlyTab
    <2>2. publishing'[t].meet = tab[t].meet
      BY <1>0, <1>15 DEF Publish
    <2>3. \A m \in Meets, s \in Status :
             TabIntends(t, m, s)' => TabIntends(t, m, s)
      BY <1>15, <2>2 DEF Publish, Editing, TabIntends, MenuIntends,
             DialogIntends, ModalIntends, PublicationIntends
    <2> QED
      BY <1>1, <1>3, <1>15, <2>1, <2>3 DEF Publish
  <1>16. ASSUME PublishOpening(t) \/ PublishClosing(t) PROVE ProtocolStep
    <2>1. OnlyTab(t)
      BY <1>0, <1>16 DEF PublishOpening, PublishClosing, OnlyTab
    <2>2. StatusesKept
      BY <1>0, <1>16 DEF PublishOpening, PublishClosing, StatusesKept, MeetRow
    <2>3. publishing[t] \in Publication
      BY <1>16, TabTypes DEF PublishOpening, PublishClosing
    <2>4. publishing'[t].meet = publishing[t].meet
      BY <1>0, <1>16, <2>3 DEF PublishOpening, PublishClosing, Publication
    <2>5. publishing[t] # NotPublishing
      BY <1>16 DEF PublishOpening, PublishClosing, NotPublishing
    <2>6. \A m \in Meets, s \in Status :
             TabIntends(t, m, s)' => TabIntends(t, m, s)
      BY <1>16, <2>4, <2>5 DEF PublishOpening, PublishClosing, TabIntends,
             MenuIntends, DialogIntends, ModalIntends, PublicationIntends
    <2> QED
      BY <1>1, <2>1, <2>2, <2>6
  <1>17. ASSUME PublishStatus(t) PROVE ProtocolStep
    <2>1. OnlyTab(t)
      BY <1>0, <1>17 DEF PublishStatus, OnlyTab
    <2>2. publishing[t] # NotPublishing /\ publishing[t].meet \in Meets
      BY <1>17, TabTypes DEF PublishStatus, NotPublishing, Publication
    <2>3. TabIntends(t, publishing[t].meet, "Published")
      BY <2>2 DEF TabIntends, PublicationIntends
    <2>4. tab'[t] = ListView /\ publishing'[t] = NotPublishing
      BY <1>0, <1>17 DEF PublishStatus
    <2>5. \A m \in Meets, s \in Status :
             TabIntends(t, m, s)' => TabIntends(t, m, s)
      BY <1>17, <2>4 DEF PublishStatus, TabIntends, MenuIntends,
             DialogIntends, ModalIntends, PublicationIntends, ListView
    <2>6. updateStatus(publishing[t].meet, "Published") /\ "Published" \in Status
      BY <1>17 DEF PublishStatus, Status
    <2> QED
      BY <1>2, <2>1, <2>2, <2>3, <2>5, <2>6
  <1>18. ASSUME PublishFails(t) PROVE ProtocolStep
    <2>1. OnlyTab(t)
      BY <1>0, <1>18 DEF PublishFails, OnlyTab
    <2>2. \A m \in Meets, s \in Status :
             TabIntends(t, m, s)' => TabIntends(t, m, s)
      BY <1>0, <1>18 DEF PublishFails, TabIntends, MenuIntends, DialogIntends,
                         ModalIntends, PublicationIntends
    <2> QED
      BY <1>1, <1>3, <1>18, <2>1, <2>2 DEF PublishFails
  <1> QED
    BY <1>4, <1>5, <1>6, <1>7, <1>8, <1>10, <1>11, <1>12, <1>13, <1>14, <1>15,
       <1>16, <1>17, <1>18 DEF TabStep, PublishStep

-------------------------------------------------------------------------------
(* The worker. *)

\* Nothing of the tabs changes in a step of the worker.
LEMMA TabsKeep ==
    ASSUME UNCHANGED tabVars
    PROVE  \A m \in Meets, s \in Status :
              Intended(m, s)' => Intended(m, s) \/ WorkerIntends(m, s)'
  BY DEF tabVars, Intended, TabIntends, MenuIntends, DialogIntends, ModalIntends,
         PublicationIntends

LEMMA RefineWorkerStep ==
    ASSUME TypeOK, WorkerStep
    PROVE  ProtocolStep
  <1>0. /\ meets \in [Meets -> MeetRow]
        /\ worker \in [pc : Steps \cup {"idle", "down"}, ids : SUBSET Meets,
                       skips : 0..(MaxSkips - 1)]
        /\ lost \subseteq [meet : Meets, status : {StepStatus[s] : s \in Steps}]
    BY DEF TypeOK
  <1>1. ASSUME UNCHANGED <<meets, tabVars>>,
               \A m \in Meets, s \in Status :
                  WorkerIntends(m, s)' =>
                     WorkerIntends(m, s)
                     \/ s \in Protocol!Permitted[meets[m].status]
        PROVE  ProtocolStep
    <2>1. NewIntentsPermitted
      BY <1>1, TabsKeep DEF NewIntentsPermitted, Intended
    <2> QED
      BY <1>1, <2>1, LookStep DEF StatusesKept
  <1>2. ASSUME NEW m \in Meets, NEW s \in Status, updateStatus(m, s),
               UNCHANGED tabVars, WorkerIntends(m, s),
               \A n \in Meets, r \in Status :
                  WorkerIntends(n, r)' => WorkerIntends(n, r)
        PROVE  ProtocolStep
    <2>1. NoNewIntents /\ Intended(m, s)
      BY <1>2, TabsKeep DEF NoNewIntents, Intended
    <2> QED
      BY <1>2, <2>1, CarryOutStep
  <1>3. ASSUME NEW step \in Steps, worker'.pc = step,
               worker'.ids = {m \in Meets : Due(step, m)},
               UNCHANGED <<meets, tabVars, lost>>
        PROVE  ProtocolStep
    <2>1. \A m \in Meets, s \in Status :
             WorkerIntends(m, s)' =>
                WorkerIntends(m, s) \/ s \in Protocol!Permitted[meets[m].status]
      BY <1>3, WorkerPermits DEF WorkerIntends, Running
    <2> QED
      BY <1>1, <1>3, <2>1
  <1>4. CASE StartPass
    BY <1>3, <1>4 DEF StartPass, FirstStep, Steps
  <1>5. CASE NextStep
    <2>1. StepAfter[worker.pc] \in Steps
      BY <1>5, StepTypes DEF NextStep, Running
    <2> QED
      BY <1>0, <1>3, <1>5, <2>1 DEF NextStep, Enter
  <1>6. ASSUME UNCHANGED <<meets, tabVars>>, worker'.ids \subseteq worker.ids,
               worker'.pc = worker.pc \/ worker'.pc \notin Steps,
               \A r \in lost' : \/ r \in lost
                               \/ /\ Running /\ r.meet \in worker.ids
                                  /\ r.status = StepStatus[worker.pc]
        PROVE  ProtocolStep
    <2>1. \A m \in Meets, s \in Status :
             WorkerIntends(m, s)' => WorkerIntends(m, s)
      BY <1>6 DEF WorkerIntends, Running
    <2> QED
      BY <1>1, <1>6, <2>1
  <1>7. CASE EndPass
    BY <1>0, <1>6, <1>7 DEF EndPass, Steps
  <1>8. ASSUME NEW step \in Steps, NEW m \in Meets, Patch(step, m)
        PROVE  ProtocolStep
    <2>1. WorkerIntends(m, StepStatus[step])
      BY <1>8 DEF Patch, WorkerIntends, Running
    <2>2. \A n \in Meets, r \in Status :
             WorkerIntends(n, r)' => WorkerIntends(n, r)
      BY <1>0, <1>8 DEF Patch, WorkerIntends, Running
    <2> QED
      BY <1>2, <1>8, <2>1, <2>2, StepTypes DEF Patch
  <1>9. ASSUME NEW m \in Meets, PatchFails(m) PROVE ProtocolStep
    BY <1>0, <1>6, <1>9 DEF PatchFails, GiveUp
  <1>10. ASSUME Dies PROVE ProtocolStep
    <2>1. /\ worker'.pc = "down" /\ worker'.ids = {}
          /\ UNCHANGED <<meets, tabVars>>
      BY <1>10 DEF Dies, IdleWorker
    <2>2. \A r \in lost' : \/ r \in lost
                           \/ /\ Running /\ r.meet \in worker.ids
                              /\ r.status = StepStatus[worker.pc]
      BY <1>10 DEF Dies, GiveUp
    <2> QED
      BY <1>6, <2>1, <2>2 DEF Steps
  <1>11. CASE SkipTick
    BY <1>0, <1>6, <1>11 DEF SkipTick
  <1>12. CASE Restart
    BY <1>0, <1>6, <1>12 DEF Restart, IdleWorker, Steps
  <1>13. ASSUME NEW r \in lost, LostApplied(r) PROVE ProtocolStep
    <2>1. r.meet \in Meets /\ r.status \in Status
      BY <1>0, StepTypes
    <2>2. r = [meet |-> r.meet, status |-> r.status]
      BY <1>0
    <2>3. WorkerIntends(r.meet, r.status)
      BY <2>2 DEF WorkerIntends
    <2>4. \A n \in Meets, s \in Status :
             WorkerIntends(n, s)' => WorkerIntends(n, s)
      BY <1>13 DEF LostApplied, WorkerIntends, Running
    <2> QED
      BY <1>2, <1>13, <2>1, <2>3, <2>4 DEF LostApplied
  <1>14. ASSUME NEW r \in lost, LostDropped(r) PROVE ProtocolStep
    BY <1>6, <1>14 DEF LostDropped
  <1> QED
    BY <1>4, <1>5, <1>7, <1>8, <1>9, <1>10, <1>11, <1>12, <1>13, <1>14
       DEF WorkerStep, Crash, SkipTooMany

-------------------------------------------------------------------------------

LEMMA RefineInit == Init => Protocol!ProtocolInit
  <1> SUFFICES ASSUME Init PROVE Protocol!ProtocolInit
    OBVIOUS
  <1>1. [m \in Meets |-> meets[m].status] = [m \in Meets |-> "Absent"]
    BY DEF Init, NoMeet
  <1>2. \A m \in Meets, s \in Status : ~Intended(m, s)
    <2>1. \A m \in Meets, s \in Status : ~WorkerIntends(m, s)
      BY DEF Init, WorkerIntends, Running, IdleWorker
    <2>2. \A a \in DialogActions : "Absent" \notin ShownIn[a]
      BY DialogFacts
    <2>3. \A t \in Tabs, m \in Meets, s \in Status : ~TabIntends(t, m, s)
      BY <2>2 DEF Init, TabIntends, MenuIntends, DialogIntends, ModalIntends,
                  PublicationIntends, ListView
    <2> QED
      BY <2>1, <2>3 DEF Intended
  <1> QED
    BY <1>1, <1>2 DEF Protocol!ProtocolInit

LEMMA RefineNext == TypeOK /\ [Next]_vars => ProtocolStep
  <1> SUFFICES ASSUME TypeOK, [Next]_vars PROVE ProtocolStep
    OBVIOUS
  <1>1. ASSUME UNCHANGED <<meets, tabVars, worker, lost>> PROVE ProtocolStep
    BY <1>1 DEF tabVars, ProtocolStep, Protocol!protocolVars, Intended,
                WorkerIntends, Running, TabIntends, MenuIntends, DialogIntends,
                ModalIntends, PublicationIntends
  <1>2. ASSUME NEW m \in Meets, WaitlistChanges(m) PROVE ProtocolStep
    BY <1>1, <1>2 DEF WaitlistChanges, workerVars
  <1>3. CASE Clock
    BY <1>1, <1>3 DEF Clock, workerVars
  <1>4. CASE UNCHANGED vars
    BY <1>1, <1>4 DEF vars, tabVars
  <1> QED
    BY <1>2, <1>3, <1>4, RefineTabStep, RefineWorkerStep DEF Next

\* Every behaviour of the tabs and the worker is one of the protocol: a status
\* only changes by carrying out what was permitted by the status somebody once
\* saw.
THEOREM LifecycleRefinesProtocol == Spec => RefinesProtocol
  <1>1. Spec => Protocol!ProtocolInit
    BY RefineInit DEF Spec
  <1>2. TypeOK /\ [Next]_vars => ProtocolStep
    BY RefineNext
  <1>3. Spec => [][Protocol!ProtocolNext]_(Protocol!protocolVars)
    BY <1>2, TypeInit, TypeNext, PTL DEF Spec, ProtocolStep
  <1> QED
    BY <1>1, <1>3, PTL DEF RefinesProtocol, Protocol!ProtocolSpec
===============================================================================
