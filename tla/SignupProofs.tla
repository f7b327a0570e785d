---------------------------- MODULE SignupProofs ----------------------------
(***************************************************************************)
(* Proofs about Signup, for every set of sheets, requests and contacts.    *)
(***************************************************************************)
EXTENDS Signup, TLAPS

-----------------------------------------------------------------------------
(***************************************************************************)
(* Types, and what keeps them: which rows sheets and requests refer to,    *)
(* and how far a request has come when its row is in the table.            *)
(***************************************************************************)
SheetRefs ==
    \A v \in Sheets :
        /\ sheet[v].link \in mailed \cup {Nobody}
        /\ sheet[v].row \in mailed \cup {Nobody}
        /\ sheet[v].view = "submitted" => sheet[v].row # Nobody

RequestRefs ==
    \A r \in Requests :
        /\ request[r].row \in mailed \cup {Nobody}
        /\ request[r].pc = "updating" => request[r].row # Nobody
        /\ request[r].pc # "unused" => request[r].contact \in Contacts
        /\ request[r].pc = "checking" => request[r].sheet # Nobody

InsertedBy ==
    \A r \in Requests :
        /\ request[r].pc = "mailing" => r \in DOMAIN rows
        /\ r \in DOMAIN rows => request[r].pc \in {"mailing", "over"}

Base == TypeOK /\ SheetRefs /\ RequestRefs /\ InsertedBy

\* Rows, requests and sheets stay so whatever is stored in their fields.
LEMMA RequestTypes ==
    ASSUME NEW q \in Request
    PROVE  /\ [q EXCEPT !.pc = "over"] \in Request
           /\ [q EXCEPT !.pc = "mailing"] \in Request
           /\ [q EXCEPT !.sheet = Nobody] \in Request
           /\ [q EXCEPT !.sheet = Nobody,
                        !.pc = IF @ = "checking" THEN "over" ELSE @] \in Request
           /\ \A n \in Nat, ids \in SUBSET Ids :
                [q EXCEPT !.pc = "inserting", !.max = n, !.before = ids]
                  \in Request
           /\ \A pc \in {"over", "posted"}, ids \in SUBSET Ids :
                [q EXCEPT !.pc = pc, !.seen = ids] \in Request
           /\ \A pc \in {"checking", "updating", "posted"}, v \in Sheets,
                 c \in Contacts, i \in Ids \cup {Nobody} :
                [q EXCEPT !.pc = pc, !.sheet = v, !.contact = c, !.row = i]
                  \in Request
  BY DEF Request

LEMMA SheetTypes ==
    ASSUME NEW s \in Sheet
    PROVE  /\ \A b \in BOOLEAN : [s EXCEPT !.isOpenMeet = b] \in Sheet
           /\ \A r \in Requests : [s EXCEPT !.adding = r] \in Sheet
           /\ \A view \in {"form", "dialog", "submitted"} :
                [s EXCEPT !.view = view] \in Sheet
           /\ \A c \in Contacts, view \in {"form", "dialog", "submitted"} :
                [s EXCEPT !.contact = c, !.view = view] \in Sheet
           /\ \A c \in Contacts, i \in Ids :
                [s EXCEPT !.row = i, !.contact = c] \in Sheet
           /\ \A i \in Ids : [s EXCEPT !.view = "submitted", !.row = i] \in Sheet
  BY DEF Sheet

LEMMA BlankTypes ==
    ASSUME TypeOK, NEW link \in mailed \cup {Nobody}
    PROVE  BlankSheet(link) \in Sheet
  BY DEF TypeOK, BlankSheet, Sheet

LEMMA BaseInit == Init => Base
  <1> SUFFICES ASSUME Init PROVE Base
    OBVIOUS
  <1> USE SignupConstants DEF Init
  <1>1. rows[Organizer] \in Row /\ DOMAIN rows = {Organizer}
    BY DEF Row
  <1>2. Unused \in Request
    BY DEF Unused, Request
  <1>3. BlankSheet(Nobody) \in Sheet
    BY DEF BlankSheet, Sheet
  <1>4. TypeOK
    BY <1>1, <1>2, <1>3 DEF TypeOK, Ids
  <1>5. SheetRefs /\ RequestRefs /\ InsertedBy
    BY DEF SheetRefs, RequestRefs, InsertedBy, BlankSheet, Unused
  <1> QED
    BY <1>4, <1>5 DEF Base

LEMMA BaseSheetStep ==
    ASSUME Base, NEW v \in Sheets, SheetStep(v)
    PROVE  Base'
  <1> USE SignupConstants DEF Base, TypeOK
  <1>0. /\ \A u \in Sheets : sheet[u] \in Sheet
        /\ \A q \in Requests : request[q] \in Request
    OBVIOUS
  <1>1. ASSUME NEW link \in mailed \cup {Nobody}, Load(v, link) PROVE Base'
    <2>1. request' \in [Requests -> Request]
      BY <1>0, <1>1, RequestTypes DEF Load, Abandoned
    <2>2. sheet' \in [Sheets -> Sheet]
      BY <1>1, BlankTypes DEF Load
    <2>3. SheetRefs'
      BY <1>1 DEF Load, SheetRefs, BlankSheet
    <2>4. ASSUME NEW r \in Requests
          PROVE  /\ request'[r].row = request[r].row
                 /\ request'[r].contact = request[r].contact
                 /\ request'[r].pc = IF request[r].sheet = v
                                        /\ request[r].pc = "checking"
                                     THEN "over" ELSE request[r].pc
                 /\ request'[r].sheet = IF request[r].sheet = v THEN Nobody
                                        ELSE request[r].sheet
      <3>1. request'[r] = IF request[r].sheet # v THEN request[r]
                          ELSE [request[r] EXCEPT
                                  !.sheet = Nobody,
                                  !.pc = IF @ = "checking" THEN "over" ELSE @]
        BY <1>1 DEF Load, Abandoned
      <3>2. request[r] \in Request
        OBVIOUS
      <3> QED
        BY <3>1, <3>2 DEF Request
    <2>5. RequestRefs' /\ InsertedBy'
      BY <1>1, <2>4 DEF Load, RequestRefs, InsertedBy
    <2> QED
      BY <1>1, <2>1, <2>2, <2>3, <2>5 DEF Load
  <1>2. CASE Refetch(v)
    <2>1. sheet' \in [Sheets -> Sheet]
      BY <1>0, <1>2, SheetTypes DEF Refetch
    <2>2. SheetRefs'
      BY <1>2 DEF Refetch, SheetRefs, Sheet
    <2> QED
      BY <1>2, <2>1, <2>2 DEF Refetch, RequestRefs, InsertedBy
  <1>3. CASE FetchApplication(v)
    <2>1. /\ sheet[v].link \in mailed /\ sheet[v].link \in Ids
          /\ rows[sheet[v].link].contact \in Contacts
      BY <1>3 DEF FetchApplication, SheetRefs, Row
    <2>2. sheet' \in [Sheets -> Sheet]
      BY <1>0, <1>3, <2>1, SheetTypes DEF FetchApplication
    <2>3. SheetRefs'
      BY <1>3, <2>1 DEF FetchApplication, SheetRefs, Sheet
    <2> QED
      BY <1>3, <2>2, <2>3 DEF FetchApplication, RequestRefs, InsertedBy
  <1>4. CASE CloseDialog(v)
    <2>1. sheet' \in [Sheets -> Sheet]
      BY <1>0, <1>4, SheetTypes DEF CloseDialog
    <2>2. SheetRefs'
      BY <1>4 DEF CloseDialog, SheetRefs, Sheet
    <2> QED
      BY <1>4, <2>1, <2>2 DEF CloseDialog, RequestRefs, InsertedBy
  <1>5. ASSUME NEW c \in Contacts, Enter(v, c) PROVE Base'
    <2>0. PICK view \in {"form", "dialog"} :
            sheet' = [sheet EXCEPT ![v] = [@ EXCEPT !.contact = c,
                                                    !.view = view]]
      BY <1>5 DEF Enter
    <2>1. sheet' \in [Sheets -> Sheet]
      BY <1>0, <2>0, SheetTypes
    <2>2. SheetRefs'
      BY <1>5, <2>0 DEF Enter, SheetRefs, Sheet
    <2> QED
      BY <1>5, <2>1, <2>2 DEF Enter, RequestRefs, InsertedBy
  <1>6. ASSUME NEW r \in Requests, Submit(v, r) PROVE Base'
    <2> DEFINE pc == IF sheet[v].link = Nobody THEN "checking"
                     ELSE IF sheet[v].row # Nobody THEN "updating" ELSE "posted"
               q == [request[r] EXCEPT !.pc = pc, !.sheet = v,
                                       !.contact = sheet[v].contact,
                                       !.row = sheet[v].row]
    <2>1. /\ pc \in {"checking", "updating", "posted"}
          /\ pc = "updating" => sheet[v].row # Nobody
          /\ sheet[v].contact \in Contacts
          /\ sheet[v].row \in mailed \cup {Nobody}
      BY <1>0, <1>6 DEF Submit, SheetRefs, Sheet
    <2>2. q \in Request
      BY <1>0, <2>1, RequestTypes
    <2>3. request' = [request EXCEPT ![r] = q]
      BY <1>6 DEF Submit
    <2>4. request' \in [Requests -> Request]
      BY <2>2, <2>3
    <2>5. sheet' \in [Sheets -> Sheet]
      BY <1>0, <1>6, SheetTypes DEF Submit
    <2>6. SheetRefs'
      BY <1>6 DEF Submit, SheetRefs, Sheet
    <2>7. /\ q.pc = pc /\ q.sheet = v /\ q.contact = sheet[v].contact
          /\ q.row = sheet[v].row
      BY <1>0 DEF Request
    <2>8. RequestRefs'
      BY <1>6, <2>1, <2>3, <2>7 DEF Submit, RequestRefs
    <2>9. r \notin DOMAIN rows
      BY <1>6 DEF Submit, InsertedBy, Unused
    <2>10. InsertedBy'
      BY <1>6, <2>1, <2>3, <2>7, <2>9 DEF Submit, InsertedBy
    <2> QED
      BY <1>6, <2>4, <2>5, <2>6, <2>8, <2>10 DEF Submit
  <1> QED
    BY <1>1, <1>2, <1>3, <1>4, <1>5, <1>6 DEF SheetStep

\* What a page shows once its request succeeded with row i.
LEMMA ShownTypes ==
    ASSUME Base, NEW r \in Requests, NEW i \in mailed', mailed \subseteq mailed',
           mailed' \subseteq Ids, sheet' = Shown(r, i)
    PROVE  sheet' \in [Sheets -> Sheet] /\ SheetRefs'
  <1> USE SignupConstants DEF Base, TypeOK
  <1>1. CASE request[r].sheet = Nobody
    BY <1>1 DEF Shown, SheetRefs
  <1>2. CASE request[r].sheet # Nobody
    <2>1. request[r].sheet \in Sheets
      BY <1>2 DEF Request
    <2>2. sheet' = [sheet EXCEPT ![request[r].sheet] =
                      [@ EXCEPT !.view = "submitted", !.row = i]]
      BY <1>2 DEF Shown
    <2>4. i \in Ids /\ i # Nobody
      OBVIOUS
    <2>0. [sheet[request[r].sheet] EXCEPT !.view = "submitted", !.row = i]
            \in Sheet
      BY <2>1, <2>4, SheetTypes
    <2>3. sheet' \in [Sheets -> Sheet]
      BY <2>0, <2>1, <2>2
    <2>5. SheetRefs'
      BY <2>1, <2>2, <2>4 DEF SheetRefs, Sheet
    <2> QED
      BY <2>3, <2>5
  <1> QED
    BY <1>1, <1>2

LEMMA BaseRequestStep ==
    ASSUME Base, NEW r \in Requests, RequestStep(r)
    PROVE  Base'
  <1> USE SignupConstants DEF Base, TypeOK
  <1>0. /\ \A u \in Sheets : sheet[u] \in Sheet
        /\ request[r] \in Request
        /\ DOMAIN rows \in SUBSET Ids
        /\ \A i \in DOMAIN rows : rows[i].sequence \in Nat
    BY DEF Row
  <1>1. CASE Checked(r)
    <2> DEFINE pc == IF Known(request[r].contact) THEN "over" ELSE "posted"
               q == [request[r] EXCEPT !.pc = pc, !.seen = DOMAIN rows]
               v == request[r].sheet
    <2>1. q \in Request
      BY <1>0, RequestTypes
    <2>2. request' = [request EXCEPT ![r] = q]
      BY <1>1 DEF Checked
    <2>3. v \in Sheets
      BY <1>0, <1>1 DEF Checked, RequestRefs, Request
    <2>4. sheet' \in [Sheets -> Sheet] /\ SheetRefs'
      <3>1. CASE Known(request[r].contact)
        <4>1. sheet' = [sheet EXCEPT
                          ![v].view = IF @ = "form" THEN "dialog" ELSE @]
          BY <1>1, <3>1 DEF Checked
        <4>2. (IF sheet[v].view = "form" THEN "dialog" ELSE sheet[v].view)
                \in {"form", "dialog", "submitted"}
          BY <1>0, <2>3 DEF Sheet
        <4>3. sheet' \in [Sheets -> Sheet]
          BY <1>0, <2>3, <4>1, <4>2, SheetTypes
        <4>4. SheetRefs'
          BY <1>1, <2>3, <4>1 DEF Checked, SheetRefs, Sheet
        <4> QED
          BY <4>3, <4>4
      <3>2. CASE ~Known(request[r].contact)
        <4>1. sheet' = [sheet EXCEPT ![v].adding = r]
          BY <1>1, <3>2 DEF Checked
        <4>2. sheet' \in [Sheets -> Sheet]
          BY <1>0, <2>3, <4>1, SheetTypes
        <4>3. SheetRefs'
          BY <1>1, <2>3, <4>1 DEF Checked, SheetRefs, Sheet
        <4> QED
          BY <4>2, <4>3
      <3> QED
        BY <3>1, <3>2
    <2>5. q.pc = pc /\ q.row = request[r].row /\ q.contact = request[r].contact
      BY <1>0 DEF Request
    <2>6. RequestRefs' /\ InsertedBy'
      BY <1>1, <2>2, <2>5 DEF Checked, RequestRefs, InsertedBy
    <2> QED
      BY <1>1, <2>1, <2>2, <2>4, <2>6 DEF Checked
  <1>2. CASE LoseAnswer(r)
    <2>1. request' \in [Requests -> Request]
      BY <1>0, <1>2, RequestTypes DEF LoseAnswer
    <2>2. RequestRefs' /\ InsertedBy'
      BY <1>0, <1>2 DEF LoseAnswer, RequestRefs, InsertedBy, Request
    <2> QED
      BY <1>2, <2>1, <2>2 DEF LoseAnswer, SheetRefs
  <1>3. CASE ReadMax(r)
    <2>1. PICK i \in DOMAIN rows :
            request' = [request EXCEPT
                          ![r] = [@ EXCEPT !.pc = "inserting",
                                           !.max = rows[i].sequence,
                                           !.before = DOMAIN rows]]
      BY <1>3 DEF ReadMax
    <2>2. request' \in [Requests -> Request]
      BY <1>0, <2>1, RequestTypes
    <2>3. RequestRefs' /\ InsertedBy'
      BY <1>0, <1>3, <2>1 DEF ReadMax, RequestRefs, InsertedBy, Request
    <2> QED
      BY <1>3, <2>2, <2>3 DEF ReadMax, SheetRefs
  <1>4. CASE Insert(r)
    <2>1. request[r].contact \in Contacts /\ request[r].max + 1 \in Nat
      BY <1>0, <1>4 DEF Insert, RequestRefs, Request
    <2>2. [contact |-> request[r].contact, sequence |-> request[r].max + 1] \in Row
      BY <2>1 DEF Row
    <2>3. /\ DOMAIN rows' = DOMAIN rows \cup {r}
          /\ \A i \in DOMAIN rows' : rows'[i] \in Row
      BY <1>4, <2>2 DEF Insert
    <2>4. request' \in [Requests -> Request]
      BY <1>0, <1>4, RequestTypes DEF Insert
    <2>5. RequestRefs' /\ InsertedBy'
      BY <1>0, <1>4, <2>3 DEF Insert, RequestRefs, InsertedBy, Request
    <2> QED
      BY <1>4, <2>3, <2>4, <2>5 DEF Insert, SheetRefs, Ids
  <1>5. CASE Mail(r)
    <2>1. r \in DOMAIN rows
      BY <1>5 DEF Mail, InsertedBy
    <2>2. sheet' \in [Sheets -> Sheet] /\ SheetRefs'
      BY <1>5, <2>1, ShownTypes DEF Mail
    <2>3. request' \in [Requests -> Request]
      BY <1>0, <1>5, RequestTypes DEF Mail
    <2>4. RequestRefs' /\ InsertedBy'
      BY <1>0, <1>5 DEF Mail, RequestRefs, InsertedBy, Request
    <2> QED
      BY <1>5, <2>1, <2>2, <2>3, <2>4 DEF Mail
  <1>6. CASE Update(r)
    <2> DEFINE i == request[r].row
    <2>1. i \in mailed /\ request[r].contact \in Contacts
      BY <1>6 DEF Update, RequestRefs
    <2>2. sheet' \in [Sheets -> Sheet] /\ SheetRefs'
      BY <1>6, <2>1, ShownTypes DEF Update
    <2>3. /\ DOMAIN rows' = DOMAIN rows
          /\ \A j \in DOMAIN rows' : rows'[j] \in Row
      BY <1>6, <2>1 DEF Update, Row
    <2>4. request' \in [Requests -> Request]
      BY <1>0, <1>6, RequestTypes DEF Update
    <2>5. RequestRefs' /\ InsertedBy'
      BY <1>0, <1>6, <2>3 DEF Update, RequestRefs, InsertedBy, Request
    <2> QED
      BY <1>6, <2>1, <2>2, <2>3, <2>4, <2>5 DEF Update
  <1>7. CASE Fail(r)
    <2>1. request' \in [Requests -> Request]
      BY <1>0, <1>7, RequestTypes DEF Fail
    <2>2. RequestRefs' /\ InsertedBy' /\ SheetRefs'
      BY <1>0, <1>7 DEF Fail, RequestRefs, InsertedBy, SheetRefs, Request
    <2>3. mailed' \subseteq DOMAIN rows
      BY <1>7 DEF Fail, InsertedBy
    <2> QED
      BY <1>7, <2>1, <2>2, <2>3 DEF Fail
  <1> QED
    BY <1>1, <1>2, <1>3, <1>4, <1>5, <1>6, <1>7 DEF RequestStep

LEMMA BaseNext == Base /\ [Next]_vars => Base'
  <1> SUFFICES ASSUME Base, [Next]_vars PROVE Base'
    OBVIOUS
  <1>1. CASE StatusChanges
    BY <1>1 DEF StatusChanges, Base, TypeOK, SheetRefs, RequestRefs, InsertedBy
  <1>2. CASE UNCHANGED vars
    BY <1>2 DEF vars, Base, TypeOK, SheetRefs, RequestRefs, InsertedBy
  <1> QED
    BY <1>1, <1>2, BaseSheetStep, BaseRequestStep DEF Next

THEOREM BaseCorrect == Spec => []Base
  BY BaseInit, BaseNext, PTL DEF Spec

\* Every variable keeps its type.
THEOREM TypeCorrect == Spec => []TypeOK
  <1>1. Base => TypeOK
    BY DEF Base
  <1> QED
    BY <1>1, BaseCorrect, PTL

\* A page that says so shows an application that is stored, and whose
\* applicant was sent the link.
THEOREM SubmittedIsKept == Spec => []SubmittedIsStoredAndMailed
  <1>1. Base => SubmittedIsStoredAndMailed
    BY SignupConstants DEF Base, TypeOK, SheetRefs, SubmittedIsStoredAndMailed
  <1> QED
    BY <1>1, BaseCorrect, PTL
-----------------------------------------------------------------------------
(***************************************************************************)
(* The order of the list.  A request that read the highest number holds a  *)
(* bound of the numbers it saw, and an inserted row keeps its number.      *)
(***************************************************************************)
MaxRead ==
    \A r \in Requests :
        /\ request[r].before \subseteq DOMAIN rows
        /\ request[r].pc = "inserting" =>
             \A i \in request[r].before : rows[i].sequence <= request[r].max

OrderInv == MaxRead /\ SequenceRespectsOrder

\* No action but ReadMax changes what a request read, and no action changes
\* the number of a row.
LEMMA ReadsKept ==
    ASSUME Base, [Next]_vars
    PROVE  /\ \A i \in DOMAIN rows : /\ i \in DOMAIN rows'
                                      /\ rows'[i].sequence = rows[i].sequence
           /\ \A r \in Requests :
                /\ ~ReadMax(r) => /\ request'[r].max = request[r].max
                                  /\ request'[r].before = request[r].before
                /\ request'[r].pc = "inserting" =>
                     request[r].pc = "inserting" \/ ReadMax(r)
                /\ r \in DOMAIN rows' => r \in DOMAIN rows \/ Insert(r)
  <1> USE DEF Base, TypeOK
  <1>1. ASSUME NEW v \in Sheets, SheetStep(v)
        PROVE  /\ rows' = rows
               /\ \A r \in Requests :
                    /\ request'[r].max = request[r].max
                    /\ request'[r].before = request[r].before
                    /\ request'[r].pc = "inserting" => request[r].pc = "inserting"
    <2>1. ASSUME NEW link, Load(v, link)
          PROVE  /\ rows' = rows
                 /\ \A r \in Requests :
                      /\ request'[r].max = request[r].max
                      /\ request'[r].before = request[r].before
                      /\ request'[r].pc = "inserting" => request[r].pc = "inserting"
      <3>1. ASSUME NEW r \in Requests
            PROVE  /\ request'[r].max = request[r].max
                   /\ request'[r].before = request[r].before
                   /\ request'[r].pc = "inserting" => request[r].pc = "inserting"
        <4>1. request'[r] = IF request[r].sheet # v THEN request[r]
                            ELSE [request[r] EXCEPT
                                    !.sheet = Nobody,
                                    !.pc = IF @ = "checking" THEN "over" ELSE @]
          BY <2>1 DEF Load, Abandoned
        <4> QED
          BY <4>1 DEF Request
      <3> QED
        BY <2>1, <3>1 DEF Load
    <2>2. ASSUME NEW q \in Requests, Submit(v, q)
          PROVE  /\ rows' = rows
                 /\ \A r \in Requests :
                      /\ request'[r].max = request[r].max
                      /\ request'[r].before = request[r].before
                      /\ request'[r].pc = "inserting" => request[r].pc = "inserting"
      BY <2>2 DEF Submit, Request
    <2> QED
      BY <1>1, <2>1, <2>2
         DEF SheetStep, Refetch, FetchApplication, CloseDialog, Enter
  <1>2. ASSUME NEW r \in Requests, RequestStep(r), NEW q \in Requests
        PROVE  /\ \A i \in DOMAIN rows : /\ i \in DOMAIN rows'
                                          /\ rows'[i].sequence = rows[i].sequence
               /\ ~ReadMax(q) => /\ request'[q].max = request[q].max
                                 /\ request'[q].before = request[q].before
               /\ request'[q].pc = "inserting" =>
                    request[q].pc = "inserting" \/ ReadMax(q)
               /\ q \in DOMAIN rows' => q \in DOMAIN rows \/ Insert(q)
    <2>1. CASE Checked(r)
      BY <2>1 DEF Checked, Request
    <2>2. CASE LoseAnswer(r)
      BY <2>2 DEF LoseAnswer, Request
    <2>3. CASE ReadMax(r)
      BY <2>3 DEF ReadMax, Request
    <2>4. CASE Insert(r)
      <3>1. /\ DOMAIN rows' = DOMAIN rows \cup {r} /\ r \notin DOMAIN rows
            /\ \A i \in DOMAIN rows : rows'[i] = rows[i]
        BY <2>4 DEF Insert, InsertedBy
      <3>2. /\ request'[q].max = request[q].max
            /\ request'[q].before = request[q].before
            /\ request'[q].pc = "inserting" => request[q].pc = "inserting"
        BY <2>4 DEF Insert, Request
      <3> QED
        BY <2>4, <3>1, <3>2
    <2>5. CASE Mail(r)
      BY <2>5 DEF Mail, Request
    <2>6. CASE Update(r)
      BY <2>6 DEF Update, Request, Row
    <2>7. CASE Fail(r)
      BY <2>7 DEF Fail, Request
    <2> QED
      BY <1>2, <2>1, <2>2, <2>3, <2>4, <2>5, <2>6, <2>7 DEF RequestStep
  <1>3. CASE StatusChanges
    BY <1>3 DEF StatusChanges
  <1>4. CASE UNCHANGED vars
    BY <1>4 DEF vars
  <1>5. ASSUME NEW r \in Requests, RequestStep(r) PROVE
          \A i \in DOMAIN rows : /\ i \in DOMAIN rows'
                                 /\ rows'[i].sequence = rows[i].sequence
    BY <1>2, <1>5
  <1>6. CASE \E r \in Requests : RequestStep(r)
    BY <1>2, <1>5, <1>6
  <1> QED
    BY <1>1, <1>3, <1>4, <1>6 DEF Next

LEMMA OrderNext == Base /\ OrderInv /\ [Next]_vars => OrderInv'
  <1> SUFFICES ASSUME Base, OrderInv, [Next]_vars PROVE OrderInv'
    OBVIOUS
  <1> USE DEF OrderInv
  <1>1. MaxRead'
    <2> SUFFICES ASSUME NEW r \in Requests, NEW i \in request'[r].before
                 PROVE  /\ i \in DOMAIN rows'
                        /\ request'[r].pc = "inserting" =>
                             rows'[i].sequence <= request'[r].max
      BY DEF MaxRead
    <2>1. CASE ReadMax(r)
      <3>1. PICK j \in DOMAIN rows :
              /\ \A k \in DOMAIN rows : rows[k].sequence <= rows[j].sequence
              /\ request' = [request EXCEPT
                               ![r] = [@ EXCEPT !.pc = "inserting",
                                                !.max = rows[j].sequence,
                                                !.before = DOMAIN rows]]
        BY <2>1 DEF ReadMax
      <3>2. request'[r].max = rows[j].sequence /\ request'[r].before = DOMAIN rows
        BY <3>1 DEF Base, TypeOK, Request
      <3> QED
        BY <2>1, <3>1, <3>2 DEF ReadMax
    <2>2. CASE ~ReadMax(r)
      <3>1. /\ i \in request[r].before
            /\ request'[r].pc = "inserting" => request[r].pc = "inserting"
        BY <2>2, ReadsKept
      <3>2. /\ i \in DOMAIN rows
            /\ request[r].pc = "inserting" => rows[i].sequence <= request[r].max
        BY <3>1 DEF MaxRead
      <3> QED
        BY <2>2, <3>2, ReadsKept
    <2> QED
      BY <2>1, <2>2
  <1>2. SequenceRespectsOrder'
    <2> SUFFICES ASSUME NEW r \in DOMAIN rows' \ {Organizer},
                        NEW i \in DOMAIN rows', i \in request'[r].before
                 PROVE  rows'[i].sequence < rows'[r].sequence
      BY DEF SequenceRespectsOrder
    <2>0. r \in Requests
      BY BaseNext DEF Base, TypeOK, Ids
    <2>1. CASE Insert(r)
      <3>1. /\ rows'[r].sequence = request[r].max + 1
            /\ request'[r].before = request[r].before
            /\ request[r].pc = "inserting"
        BY <2>0, <2>1 DEF Insert, Base, TypeOK, Request
      <3>2. i \in DOMAIN rows /\ rows[i].sequence <= request[r].max
        BY <2>0, <3>1 DEF MaxRead
      <3>3. rows[i].sequence \in Nat /\ request[r].max \in Nat
        BY <2>0, <3>2 DEF Base, TypeOK, Row, Request
      <3>4. rows'[i].sequence = rows[i].sequence
        BY <3>2, ReadsKept
      <3> QED
        BY <3>1, <3>2, <3>3, <3>4
    <2>2. CASE ~Insert(r)
      <3>1. r \in DOMAIN rows
        BY <2>0, <2>2, ReadsKept
      <3>2. ~ReadMax(r)
        BY <2>0, <3>1 DEF ReadMax, Base, InsertedBy
      <3>3. i \in request[r].before
        BY <2>0, <3>2, ReadsKept
      <3>4. i \in DOMAIN rows
        BY <2>0, <3>3 DEF MaxRead
      <3> QED
        BY <3>1, <3>3, <3>4, ReadsKept DEF SequenceRespectsOrder
    <2> QED
      BY <2>1, <2>2
  <1> QED
    BY <1>1, <1>2

LEMMA OrderInit == Init => OrderInv
  BY SignupConstants
     DEF Init, OrderInv, MaxRead, SequenceRespectsOrder, Unused

\* Applications are listed in the order in which they were taken.
THEOREM OrderIsRespected == Spec => []SequenceRespectsOrder
  <1>1. OrderInv => SequenceRespectsOrder
    BY DEF OrderInv
  <1> QED
    BY <1>1, BaseCorrect, OrderInit, OrderNext, PTL DEF Spec
-----------------------------------------------------------------------------
(***************************************************************************)
(* Duplicates.  Until its row is inserted a checked request holds a        *)
(* contact that matches none of the unedited rows the check found.         *)
(***************************************************************************)
CheckHeld ==
    \A r \in Requests :
        /\ request[r].seen \subseteq DOMAIN rows
        /\ request[r].pc \in {"posted", "inserting"} =>
             \A i \in request[r].seen \ edited : ~Matches(i, request[r].contact)

CheckInv == CheckHeld /\ NoDuplicateBehindCheck

\* Only an edit changes the contact of a row, and only Checked changes what a
\* request's check found.
LEMMA ContactsKept ==
    ASSUME Base, [Next]_vars
    PROVE  /\ edited \subseteq edited'
           /\ \A i \in DOMAIN rows :
                /\ i \in DOMAIN rows'
                /\ i \notin edited' => rows'[i].contact = rows[i].contact
  <1> USE DEF Base, TypeOK
  <1>1. ASSUME NEW v \in Sheets, SheetStep(v) PROVE UNCHANGED <<rows, edited>>
    BY <1>1
       DEF SheetStep, Load, Refetch, FetchApplication, CloseDialog, Enter, Submit
  <1>2. ASSUME NEW r \in Requests, RequestStep(r)
        PROVE  /\ edited \subseteq edited'
               /\ \A i \in DOMAIN rows :
                    /\ i \in DOMAIN rows'
                    /\ i \notin edited' => rows'[i].contact = rows[i].contact
    <2>1. CASE Insert(r)
      BY <2>1 DEF Insert, InsertedBy
    <2>2. CASE Update(r)
      BY <2>2 DEF Update
    <2>3. CASE ~Insert(r) /\ ~Update(r)
      BY <1>2, <2>3 DEF RequestStep, Checked, LoseAnswer, ReadMax, Mail, Fail
    <2> QED
      BY <2>1, <2>2, <2>3
  <1> QED
    BY <1>1, <1>2 DEF Next, StatusChanges, vars

LEMMA ChecksKept ==
    ASSUME Base, [Next]_vars, NEW r \in Requests, ~Checked(r)
    PROVE  /\ request'[r].seen = request[r].seen
           /\ request'[r].pc \in {"posted", "inserting"} =>
                \/ request[r].seen = {}
                \/ /\ request[r].pc \in {"posted", "inserting"}
                   /\ request'[r].contact = request[r].contact
  <1> USE DEF Base, TypeOK
  <1>0. request[r] \in Request
    OBVIOUS
  <1>1. ASSUME NEW v \in Sheets, NEW link, Load(v, link)
        PROVE  /\ request'[r].seen = request[r].seen
               /\ request'[r].contact = request[r].contact
               /\ request'[r].pc \in {request[r].pc, "over"}
    <2>1. request'[r] = IF request[r].sheet # v THEN request[r]
                        ELSE [request[r] EXCEPT
                                !.sheet = Nobody,
                                !.pc = IF @ = "checking" THEN "over" ELSE @]
      BY <1>1 DEF Load, Abandoned
    <2> QED
      BY <1>0, <2>1 DEF Request
  <1>2. ASSUME NEW v \in Sheets, NEW q \in Requests, Submit(v, q)
        PROVE  /\ request'[r].seen = request[r].seen
               /\ request[r].seen = {} \/ request'[r] = request[r]
    <2>1. CASE q # r
      BY <1>2, <2>1 DEF Submit
    <2>2. CASE q = r
      <3>1. request[r] = Unused
        BY <1>2, <2>2 DEF Submit
      <3>2. request[r].seen = {}
        BY <3>1 DEF Unused
      <3>3. request'[r].seen = request[r].seen
        <4> DEFINE s == sheet[v]
                   pc == IF s.link = Nobody THEN "checking"
                         ELSE IF s.row # Nobody THEN "updating" ELSE "posted"
        <4>1. request'[r] = [request[r] EXCEPT !.pc = pc, !.sheet = v,
                                               !.contact = s.contact,
                                               !.row = s.row]
          BY <1>2, <2>2 DEF Submit
        <4> HIDE DEF pc, s
        <4> QED
          BY <1>0, <4>1 DEF Request
      <3> QED
        BY <3>2, <3>3
    <2> QED
      BY <2>1, <2>2
  <1>3. ASSUME NEW v \in Sheets, SheetStep(v)
        PROVE  /\ request'[r].seen = request[r].seen
               /\ request'[r].pc \in {"posted", "inserting"} =>
                    \/ request[r].seen = {}
                    \/ /\ request[r].pc \in {"posted", "inserting"}
                       /\ request'[r].contact = request[r].contact
    <2>1. CASE \E link : Load(v, link)
      BY <1>1, <2>1
    <2>2. CASE \E q \in Requests : Submit(v, q)
      BY <1>2, <2>2
    <2>3. CASE request' = request
      BY <2>3
    <2> QED
      BY <1>3, <2>1, <2>2, <2>3
         DEF SheetStep, Refetch, FetchApplication, CloseDialog, Enter
  <1>4. ASSUME NEW q \in Requests, RequestStep(q)
        PROVE  /\ request'[r].seen = request[r].seen
               /\ request'[r].pc \in {"posted", "inserting"} =>
                    /\ request[r].pc \in {"posted", "inserting"}
                    /\ request'[r].contact = request[r].contact
    <2>1. CASE Checked(q)
      BY <2>1 DEF Checked
    <2>2. CASE LoseAnswer(q)
      BY <2>2 DEF LoseAnswer, Request
    <2>3. CASE ReadMax(q)
      BY <2>3 DEF ReadMax, Request
    <2>4. CASE Insert(q) \/ Mail(q) \/ Update(q) \/ Fail(q)
      BY <2>4 DEF Insert, Mail, Update, Fail, Request
    <2> QED
      BY <1>4, <2>1, <2>2, <2>3, <2>4 DEF RequestStep
  <1> QED
    BY <1>3, <1>4 DEF Next, StatusChanges, vars

LEMMA CheckNext == Base /\ CheckInv /\ [Next]_vars => CheckInv'
  <1> SUFFICES ASSUME Base, CheckInv, [Next]_vars PROVE CheckInv'
    OBVIOUS
  <1> USE DEF CheckInv
  <1>1. CheckHeld'
    <2> SUFFICES ASSUME NEW r \in Requests, NEW i \in request'[r].seen
                 PROVE  /\ i \in DOMAIN rows'
                        /\ request'[r].pc \in {"posted", "inserting"}
                             /\ i \notin edited' =>
                               ~Matches(i, request[r].contact)'
      BY DEF CheckHeld, Matches
    <2>1. CASE Checked(r)
      <3>1. /\ request'[r].seen = DOMAIN rows /\ rows' = rows
            /\ request'[r].contact = request[r].contact
            /\ request'[r].pc # "over" => ~Known(request[r].contact)
        BY <2>1 DEF Checked, Base, TypeOK, Request
      <3> QED
        BY <3>1 DEF Known, Matches
    <2>2. CASE ~Checked(r)
      <3>1. i \in request[r].seen /\ i \in DOMAIN rows
        BY <2>2, ChecksKept DEF CheckHeld
      <3>2. ASSUME request'[r].pc \in {"posted", "inserting"}, i \notin edited'
            PROVE  ~Matches(i, request[r].contact)'
        <4>1. /\ request[r].pc \in {"posted", "inserting"}
              /\ request'[r].contact = request[r].contact
          BY <2>2, <3>1, <3>2, ChecksKept
        <4>2. ~Matches(i, request[r].contact)
          BY <3>1, <3>2, <4>1, ContactsKept DEF CheckHeld
        <4>3. rows'[i].contact = rows[i].contact
          BY <3>1, <3>2, ContactsKept
        <4> QED
          BY <4>1, <4>2, <4>3 DEF Matches
      <3> QED
        BY <3>1, <3>2, ContactsKept
    <2> QED
      BY <2>1, <2>2
  <1>2. NoDuplicateBehindCheck'
    <2> SUFFICES ASSUME NEW r \in DOMAIN rows' \ {Organizer},
                        NEW i \in DOMAIN rows', i \in request'[r].seen,
                        i \notin edited', i # r, r \notin edited'
                 PROVE  ~Matches(i, rows[r].contact)'
      BY DEF NoDuplicateBehindCheck, Matches
    <2>0. r \in Requests
      BY BaseNext DEF Base, TypeOK, Ids
    <2>1. CASE Insert(r)
      <3>1. /\ rows'[r].contact = request[r].contact
            /\ request[r].pc = "inserting" /\ ~Checked(r)
        BY <2>0, <2>1 DEF Insert, Checked, Base, TypeOK
      <3>2. i \in request[r].seen /\ i \in DOMAIN rows
        BY <2>0, <3>1, ChecksKept DEF CheckHeld
      <3>3. ~Matches(i, request[r].contact)
        BY <2>0, <3>1, <3>2, ContactsKept DEF CheckHeld
      <3>4. rows'[i].contact = rows[i].contact
        BY <3>2, ContactsKept
      <3> QED
        BY <3>1, <3>3, <3>4 DEF Matches
    <2>2. CASE ~Insert(r)
      <3>1. r \in DOMAIN rows
        BY <2>0, <2>2, ReadsKept
      <3>2. ~Checked(r)
        BY <2>0, <3>1 DEF Checked, Base, InsertedBy
      <3>3. i \in request[r].seen /\ i \in DOMAIN rows
        BY <2>0, <3>2, ChecksKept DEF CheckHeld
      <3>4. ~Matches(i, rows[r].contact)
        BY <3>1, <3>3, ContactsKept DEF NoDuplicateBehindCheck
      <3>5. rows'[i].contact = rows[i].contact /\ rows'[r].contact = rows[r].contact
        BY <3>1, <3>3, ContactsKept
      <3> QED
        BY <3>4, <3>5 DEF Matches
    <2> QED
      BY <2>1, <2>2
  <1> QED
    BY <1>1, <1>2

LEMMA CheckInit == Init => CheckInv
  BY SignupConstants
     DEF Init, CheckInv, CheckHeld, NoDuplicateBehindCheck, Unused

\* Two unedited rows of one contact come from requests that overlapped.
THEOREM ChecksPreventDuplicates == Spec => []NoDuplicateBehindCheck
  <1>1. CheckInv => NoDuplicateBehindCheck
    BY DEF CheckInv
  <1> QED
    BY <1>1, BaseCorrect, CheckInit, CheckNext, PTL DEF Spec

=============================================================================
