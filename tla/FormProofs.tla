------------------------------ MODULE FormProofs ------------------------------
(***************************************************************************)
(* Proofs about two dialogs that are filled from a row and write it back:  *)
(* Membership and MeetForm, for any number of users, roles, meets and      *)
(* steps.                                                                  *)
(***************************************************************************)
EXTENDS Membership, MeetForm, TLAPS

-------------------------------------------------------------------------------
(* Membership. *)

LEMMA SomeTypes ==
    /\ SomeRow \in Row
    /\ Closed \in Dialog
    /\ NoRequest \in Requests
    /\ [NoRequest EXCEPT !.step = "written"] \in Requests
  BY DEF SomeRow, Row, Roles, Closed, Dialog, NoRequest, Requests, MaybeUser

\* What updateMember does, for the answer it gets.
LEMMA Updating ==
    ASSUME MembershipTypeOK, NEW u \in Users, updateMember(u)
    PROVE  /\ patch[u].step = "writing"
           /\ member' = [member EXCEPT ![patch[u].user] = patch[u].row]
           /\ by' = [by EXCEPT ![patch[u].user] = u]
           /\ unsure' = [unsure EXCEPT ![u] = TRUE]
           /\ dialog' = [dialog EXCEPT ![u].old = (dialog[u].user # Nobody)]
           /\ list' = list
           /\ \E r \in Requests : /\ patch' = [patch EXCEPT ![u] = r]
                                  /\ r.step # "writing"
  <1>1. /\ NoRequest.step # "writing"
        /\ [NoRequest EXCEPT !.step = "written"].step # "writing"
    BY DEF NoRequest
  <1>2. \E answer \in {NoRequest, [NoRequest EXCEPT !.step = "written"]} :
           patch' = [patch EXCEPT ![u] = answer]
    BY DEF updateMember
  <1> QED
    BY <1>1, <1>2, SomeTypes DEF updateMember

LEMMA TypesStart == MembershipInit => MembershipTypeOK
  BY SomeTypes, MembershipConstants
  DEF MembershipInit, MembershipTypeOK, Members, Row, MaybeUser

LEMMA TypesStep ==
    ASSUME MembershipTypeOK, [MembershipNext]_membershipVars
    PROVE  MembershipTypeOK'
  <1> USE DEF MembershipTypeOK
  <1>1. ASSUME NEW u \in Users, findMembers(u) PROVE MembershipTypeOK'
    BY <1>1 DEF findMembers
  <1>2. ASSUME NEW u \in Users, NEW v \in Users, Edit(u, v)
        PROVE  MembershipTypeOK'
    <2>1. [user |-> v, was |-> list[u][v], old |-> unsure[u]] \in Dialog
      BY DEF Dialog, MaybeUser, Members
    <2> QED
      BY <1>2, <2>1 DEF Edit
  <1>3. ASSUME NEW u \in Users, Close(u) PROVE MembershipTypeOK'
    BY <1>3, SomeTypes DEF Close
  <1>4. ASSUME NEW u \in Users, NEW row \in Row, handleSave(u, row)
        PROVE  MembershipTypeOK'
    <2>1. [step |-> "writing", user |-> dialog[u].user, was |-> dialog[u].was,
           row |-> row, old |-> dialog[u].old] \in Requests
      BY DEF Dialog, Requests
    <2> QED
      BY <1>4, <2>1 DEF handleSave
  <1>5. ASSUME NEW u \in Users, updateMember(u) PROVE MembershipTypeOK'
    <2>1. member' \in Members
      <3>1. patch[u].row \in Row
        BY DEF Requests
      <3>2. member' = [member EXCEPT ![patch[u].user] = patch[u].row]
        BY <1>5, Updating
      <3> QED
        BY <3>1, <3>2 DEF Members
    <2>2. dialog' \in [Users -> Dialog]
      <3>1. dialog' = [dialog EXCEPT ![u].old = (dialog[u].user # Nobody)]
        BY <1>5, Updating
      <3>2. (dialog[u].user # Nobody) \in BOOLEAN
        OBVIOUS
      <3>3. [dialog[u] EXCEPT !.old = (dialog[u].user # Nobody)] \in Dialog
        BY <3>2 DEF Dialog
      <3> QED
        BY <3>1, <3>3
    <2>3. patch' \in [Users -> Requests]
      BY <1>5, Updating
    <2>4. by' \in [Users -> MaybeUser] /\ unsure' \in [Users -> BOOLEAN]
      BY <1>5, Updating DEF MaybeUser
    <2>5. late' \in [Users -> Nat]
      BY <1>5 DEF updateMember
    <2>6. writes' \in 0 .. MaxWrites /\ list' \in [Users -> Members]
      BY <1>5, MembershipConstants DEF updateMember
    <2> QED
      BY <2>1, <2>2, <2>3, <2>4, <2>5, <2>6
  <1>6. ASSUME NEW u \in Users, Saved(u) PROVE MembershipTypeOK'
    BY <1>6, SomeTypes DEF Saved
  <1>7. CASE UNCHANGED membershipVars
    BY <1>7 DEF membershipVars
  <1> QED
    BY <1>1, <1>2, <1>3, <1>4, <1>5, <1>6, <1>7 DEF MembershipNext

\* Every variable of the memberships keeps its type.
THEOREM MembershipTypesHold == MembershipSpec => []MembershipTypeOK
  BY TypesStart, TypesStep, PTL DEF MembershipSpec

-------------------------------------------------------------------------------
(* Late writes. *)

LateInv ==
    \A u \in Users :
       /\ HasAdminRole(u) => late[u] = 0
       /\ late[u] <= 1
       /\ late[u] = 1 => patch[u].step # "writing"

\* Whoever lost the role gets at most the write through that had been checked
\* before (organizations.controller.ts:81-102).
THEOREM LateWritesAreFew == MembershipSpec => []OneLateWrite
  <1>1. MembershipInit => LateInv
    <2>1. ASSUME MembershipInit, NEW u \in Users
          PROVE  late[u] = 0 /\ patch[u].step # "writing"
      BY <2>1 DEF MembershipInit, NoRequest
    <2>2. ASSUME MembershipInit, NEW u \in Users
          PROVE  late[u] <= 1
      <3>1. late[u] = 0
        BY <2>1, <2>2
      <3> QED
        BY <3>1
    <2> QED
      BY <2>1, <2>2 DEF LateInv
  <1>2. ASSUME MembershipTypeOK, LateInv, [MembershipNext]_membershipVars
        PROVE  LateInv'
    <2> USE <1>2 DEF LateInv, HasAdminRole
    <2>1. ASSUME NEW u \in Users, findMembers(u) PROVE LateInv'
      BY <2>1 DEF findMembers
    <2>2. ASSUME NEW u \in Users, NEW v \in Users, Edit(u, v) PROVE LateInv'
      BY <2>2 DEF Edit
    <2>3. ASSUME NEW u \in Users, Close(u) PROVE LateInv'
      BY <2>3 DEF Close
    <2>4. ASSUME NEW u \in Users, NEW row \in Row, handleSave(u, row)
          PROVE  LateInv'
      BY <2>4 DEF handleSave, MembershipTypeOK
    <2>5. ASSUME NEW u \in Users, updateMember(u) PROVE LateInv'
      <3>1. PICK r \in Requests :
               patch' = [patch EXCEPT ![u] = r] /\ r.step # "writing"
        BY <2>5, Updating
      <3>2. patch[u].step = "writing"
        BY <2>5 DEF updateMember
      <3>3. ASSUME NEW v \in Users
            PROVE  /\ HasAdminRole(v)' => late'[v] = 0
                   /\ ~HasAdminRole(v)' =>
                         late'[v] = IF v = u /\ ~HasAdminRole(u)
                                       THEN late[v] + 1 ELSE late[v]
        BY <2>5, <3>3 DEF updateMember
      <3>4. \A v \in Users : late[v] \in Nat
        BY DEF MembershipTypeOK
      <3>5. \A v \in Users \ {u} : patch'[v] = patch[v]
        BY <3>1 DEF MembershipTypeOK
      <3>6. patch'[u].step # "writing"
        BY <3>1 DEF MembershipTypeOK
      <3> QED
        BY <3>2, <3>3, <3>4, <3>5, <3>6
    <2>6. ASSUME NEW u \in Users, Saved(u) PROVE LateInv'
      BY <2>6 DEF Saved, NoRequest, MembershipTypeOK
    <2>7. CASE UNCHANGED membershipVars
      BY <2>7 DEF membershipVars
    <2> QED
      BY <2>1, <2>2, <2>3, <2>4, <2>5, <2>6, <2>7 DEF MembershipNext
  <1>3. LateInv => OneLateWrite
    BY DEF LateInv, OneLateWrite
  <1> QED
    BY <1>1, <1>2, <1>3, MembershipTypesHold, PTL DEF MembershipSpec

-------------------------------------------------------------------------------
(* Untouched fields. *)

\* Where u wrote the membership of v last, whatever his page does not hold as
\* old is what is stored.
FreshInv ==
    \A u \in Users :
       /\ \A v \in Users :
             by[v] = u /\ ~unsure[u] => list[u][v] = member[v]
       /\ dialog[u].user # Nobody /\ ~dialog[u].old /\ by[dialog[u].user] = u
             => dialog[u].was = member[dialog[u].user]
       /\ patch[u].step = "writing"
             => /\ patch[u].user \in Users
                /\ ~patch[u].old /\ by[patch[u].user] = u
                      => patch[u].was = member[patch[u].user]

LEMMA FreshStep ==
    ASSUME MembershipTypeOK, FreshInv, [MembershipNext]_membershipVars
    PROVE  FreshInv'
  <1> USE DEF FreshInv
  <1>1. ASSUME NEW u \in Users, findMembers(u) PROVE FreshInv'
    BY <1>1 DEF findMembers, MembershipTypeOK
  <1>2. ASSUME NEW u \in Users, NEW v \in Users, Edit(u, v) PROVE FreshInv'
    BY <1>2 DEF Edit, MembershipTypeOK
  <1>3. ASSUME NEW u \in Users, Close(u) PROVE FreshInv'
    BY <1>3 DEF Close, Closed, MembershipTypeOK
  <1>4. ASSUME NEW u \in Users, NEW row \in Row, handleSave(u, row)
        PROVE  FreshInv'
    <2>1. dialog[u].user \in Users
      BY <1>4 DEF handleSave, MembershipTypeOK, Dialog, MaybeUser
    <2> QED
      BY <1>4, <2>1 DEF handleSave, MembershipTypeOK
  <1>5. ASSUME NEW u \in Users, updateMember(u) PROVE FreshInv'
    <2>1. patch[u].user \in Users
      BY <1>5, Updating
    <2>2. PICK r \in Requests :
             patch' = [patch EXCEPT ![u] = r] /\ r.step # "writing"
      BY <1>5, Updating
    <2>3. /\ member' = [member EXCEPT ![patch[u].user] = patch[u].row]
          /\ by' = [by EXCEPT ![patch[u].user] = u]
          /\ unsure' = [unsure EXCEPT ![u] = TRUE]
          /\ dialog' = [dialog EXCEPT ![u].old = (dialog[u].user # Nobody)]
          /\ list' = list
      BY <1>5, Updating
    <2>4. \A v \in Users \ {patch[u].user} :
             by'[v] = by[v] /\ member'[v] = member[v]
      BY <2>3 DEF MembershipTypeOK, Members
    <2>5. by'[patch[u].user] = u /\ unsure'[u]
      BY <2>1, <2>3 DEF MembershipTypeOK
    <2>6. \A w \in Users \ {u} : /\ unsure'[w] = unsure[w]
                                 /\ dialog'[w] = dialog[w]
                                 /\ patch'[w] = patch[w]
      BY <2>2, <2>3 DEF MembershipTypeOK
    <2>7. /\ patch'[u].step # "writing"
          /\ dialog'[u].user # Nobody => dialog'[u].old
      BY <2>2, <2>3 DEF MembershipTypeOK, Dialog
    <2>8. \A w \in Users : dialog[w].user # Nobody => dialog[w].user \in Users
      BY DEF MembershipTypeOK, Dialog, MaybeUser
    <2>9. ASSUME NEW w \in Users \ {u} PROVE FreshInv!(w)'
      BY <2>3, <2>4, <2>5, <2>6, <2>8
    <2>10. FreshInv!(u)'
      BY <2>5, <2>7
    <2> QED
      BY <2>9, <2>10
  <1>6. ASSUME NEW u \in Users, Saved(u) PROVE FreshInv'
    BY <1>6 DEF Saved, NoRequest, Closed, MembershipTypeOK
  <1>7. CASE UNCHANGED membershipVars
    BY <1>7 DEF membershipVars
  <1> QED
    BY <1>1, <1>2, <1>3, <1>4, <1>5, <1>6, <1>7 DEF MembershipNext

\* A field the administrator did not touch only changes over what another page
\* wrote, or from a dialog opened before the page's last write was fetched
\* (EditUsersModal.tsx:64-73).
THEOREM UntouchedFieldsAreKept == MembershipSpec => UntouchedIsKept
  <1>1. MembershipInit => FreshInv
    <2>1. ASSUME MembershipInit, NEW u \in Users
          PROVE  /\ by[u] = Nobody
                 /\ dialog[u].user = Nobody
                 /\ patch[u].step = "none"
      BY <2>1 DEF MembershipInit, Closed, NoRequest
    <2> QED
      BY <2>1, MembershipConstants DEF FreshInv
  <1>2. ASSUME MembershipTypeOK, FreshInv, NEW u \in Users,
               NEW field \in {"role", "status"}, updateMember(u),
               Untouched(u, field), by[patch[u].user] = u, ~patch[u].old
        PROVE  member'[patch[u].user][field] = member[patch[u].user][field]
    <2>1. patch[u].user \in Users /\ patch[u].was = member[patch[u].user]
      BY <1>2 DEF updateMember, FreshInv
    <2>2. member' = [member EXCEPT ![patch[u].user] = patch[u].row]
      BY <1>2 DEF updateMember
    <2> QED
      BY <1>2, <2>1, <2>2 DEF Untouched, MembershipTypeOK, Members
  <1>3. MembershipTypeOK /\ FreshInv =>
           [\A u \in Users, field \in {"role", "status"} :
               LET v == patch[u].user IN
               updateMember(u) /\ Untouched(u, field) =>
                  \/ member'[v][field] = member[v][field]
                  \/ by[v] # u
                  \/ patch[u].old]_membershipVars
    BY <1>2
  <1> QED
    BY <1>1, <1>3, FreshStep, MembershipTypesHold, PTL
    DEF MembershipSpec, UntouchedIsKept

-------------------------------------------------------------------------------
(* An organization without administrators. *)

\* With nobody left who administers the organization, and no request past its
\* check, nobody ever administers it again (organizations.service.ts:150-207).
THEOREM AbandonedStaysAbandoned == MembershipSpec => AbandonedForGood
  <1>1. ASSUME MembershipTypeOK, [MembershipNext]_membershipVars, Abandoned
        PROVE  Abandoned'
    <2> USE <1>1 DEF Abandoned, Leaderless, HasAdminRole
    <2>1. ASSUME NEW u \in Users
          PROVE  /\ ~findMembers(u)
                 /\ \A row \in Row : ~handleSave(u, row)
                 /\ ~updateMember(u)
      BY DEF findMembers, handleSave, updateMember
    <2>2. ASSUME NEW u \in Users, NEW v \in Users, Edit(u, v) PROVE Abandoned'
      BY <2>2 DEF Edit
    <2>3. ASSUME NEW u \in Users, Close(u) PROVE Abandoned'
      BY <2>3 DEF Close
    <2>4. ASSUME NEW u \in Users, Saved(u) PROVE Abandoned'
      BY <2>4 DEF Saved, NoRequest, MembershipTypeOK
    <2>5. CASE UNCHANGED membershipVars
      BY <2>5 DEF membershipVars
    <2> QED
      BY <2>1, <2>2, <2>3, <2>4, <2>5 DEF MembershipNext
  <1>2. MembershipTypeOK /\ [MembershipNext]_membershipVars =>
           [Abandoned => Abandoned']_membershipVars
    BY <1>1
  <1> QED
    BY <1>2, MembershipTypesHold, PTL DEF MembershipSpec, AbandonedForGood

-------------------------------------------------------------------------------
(* MeetForm. *)

\* A form without a location has no point.
Placed(s) ==
    "place" \in Named /\ s.text["place"] = Blank => s.text["point"] = Blank

\* The save of the dialog that is open, which was not closed since.
OwnSave == isSubmitting /\ ~save.again

\* The geocoder is only asked for a location that is shown.
GeocoderInv ==
    geocoder.pending # Blank =>
       Location(modal) /\ values.state.text["place"] # Blank

\* Which rows there are, and what a save is about.
RowsInv ==
    /\ \A m \in FormMeets :
          /\ meet[m] # NoRow => meet[m].text["basic"] # Blank
          /\ Placed(meet[m]) /\ Placed(cached[m])
    /\ Placed(values.state) /\ Placed(values.baseline) /\ Placed(save.draft)
    /\ modal.open /\ modal.meetId # NoMeetRow => meet[modal.meetId] # NoRow
    /\ isSubmitting /\ save.to # NoMeetRow => meet[save.to] # NoRow
    /\ save.step = "done" =>
          /\ save.id \in FormMeets /\ meet[save.id] # NoRow
          /\ save.to # NoMeetRow => save.id = save.to
    /\ OwnSave => FormRendered(modal) /\ modal.meetId = save.to

Matches(s, m, f) ==
    \/ s.text[f] = meet[m].text[f]
    \/ s.text[f] = Blank /\ LeftOut(f)

\* The fields of the step that is shown; the last one has none of its own.
ActiveFields ==
    IF modal.activeStep < LastStep THEN FieldsOf(modal.activeStep) ELSE Fields

\* Stored already, and not answered.
NotAnswered == IF save.step = "done" THEN FieldsOf(save.activeStep) ELSE {}

\* The baseline is what is stored, and only the step that is shown differs from
\* it; of a meet that does not exist, nothing else is filled in.
ShownInv ==
    FormRendered(modal) /\ ~mixed =>
       IF modal.meetId # NoMeetRow
       THEN /\ owner = modal.meetId
            /\ \A f \in Fields \ (changedLate \cup NotAnswered) :
                  Matches(values.baseline, modal.meetId, f)
            /\ \A f \in Fields \ (changedLate \cup ActiveFields) :
                  values.state.text[f] = values.baseline.text[f]
       ELSE /\ \A f \in Fields : values.baseline.text[f] = Blank
            /\ \A f \in Fields \ ActiveFields : values.state.text[f] = Blank

\* What the form that was sent has in common with the form that is shown, and
\* with the row.
SavedInv ==
    OwnSave =>
       /\ \A f \in Fields \ changedLate :
             values.state.text[f] = save.draft.text[f]
       /\ ~mixed =>
             /\ save.step = "sent" /\ save.to = NoMeetRow =>
                   \A f \in Fields \ FieldsOf(save.activeStep) :
                      save.draft.text[f] = Blank
             /\ save.step = "sent" /\ save.to # NoMeetRow =>
                   \A f \in Fields \ (changedLate \cup FieldsOf(save.activeStep)) :
                      Matches(save.draft, save.to, f)
             /\ save.step = "done" =>
                   \A f \in Fields \ changedLate : Matches(save.draft, save.id, f)

MeetFormInv ==
    MeetFormTypeOK /\ GeocoderInv /\ RowsInv /\ ShownInv /\ SavedInv

\* The steps and their fields.
LEMMA StepFacts ==
    /\ Len(Steps) \in Nat /\ Len(Steps) > 0 /\ LastStep = Len(Steps) + 1
    /\ "basic" \in Fields /\ "point" \in Fields /\ "point" \notin Named
    /\ \A i \in 1 .. Len(Steps) :
          /\ Steps[i] \in Named /\ Steps[i] \in Fields /\ Steps[i] # "point"
          /\ FieldsOf(i) \subseteq Fields
    /\ FieldsOf(1) = {"basic"}
  BY MeetFormConstants DEF LastStep, Fields, Named, FieldsOf

LEMMA FormValues ==
    /\ InitialState \in Shown
    /\ \A f \in Fields : InitialState.text[f] = Blank
    /\ NoModal \in Modal /\ NoSave \in Save /\ NotMounted \in Geocoder
    /\ NoSave.step = "idle" /\ NoSave.draft = InitialState
    /\ NotMounted.pending = Blank
  BY StepFacts DEF InitialState, Shown, Text, NoModal, Modal, NoSave, Save,
     NotMounted, Geocoder, MaybeMeet, LastStep

LEMMA FormTypes ==
    ASSUME MeetFormTypeOK
    PROVE  /\ values.state \in Shown /\ values.baseline \in Shown
           /\ values = [state |-> values.state, baseline |-> values.baseline]
           /\ \A f \in Fields : /\ values.state.text[f] \in Text
                                /\ values.baseline.text[f] \in Text
           /\ modal \in Modal /\ modal.activeStep \in 1 .. LastStep
           /\ modal.meetId \in MaybeMeet /\ modal.of \in MaybeMeet
           /\ save \in Save /\ save.draft \in Shown
           /\ save.activeStep \in 1 .. Len(Steps)
           /\ save.to \in MaybeMeet /\ save.id \in MaybeMeet
  BY DEF MeetFormTypeOK, Shown, Modal, Save, LastStep

\* After Geocode the geocoder is asked for what is shown.
LEMMA GeocodeStep ==
    ASSUME MeetFormTypeOK, GeocoderInv, Geocode,
           modal' \in Modal, values'.state \in Shown
    PROVE  geocoder' \in Geocoder /\ GeocoderInv'
  <1>1. Location(modal') => values'.state.text["place"] \in Text
    BY StepFacts DEF Location, Shown, Modal
  <1>2. geocoder \in Geocoder
    BY DEF MeetFormTypeOK
  <1>3. geocoder.pending # Blank =>
           Location(modal) /\ values.state.text["place"] # Blank
    BY DEF GeocoderInv
  <1>4. CASE ~Location(modal')
    BY <1>4, FormValues DEF Geocode, GeocoderInv
  <1>5. CASE Location(modal') /\ ~Location(modal)
    BY <1>1, <1>5 DEF Geocode, GeocoderInv, Geocoder, Text
  <1>6. CASE Location(modal') /\ Location(modal)
    BY <1>1, <1>2, <1>3, <1>6 DEF Geocode, GeocoderInv, Geocoder, Text
  <1> QED
    BY <1>4, <1>5, <1>6

\* Each step keeps MeetFormInv.  What is typed belongs to the step that is
\* shown.
LEMMA TypeKeeps ==
    ASSUME MeetFormInv, NEW v \in Text, Type(v)
    PROVE  MeetFormInv'
  <1> USE DEF MeetFormInv
  <1> DEFINE f == Steps[modal.activeStep]
             text == values.state.text
             new == [text EXCEPT ![f] = v,
                       !["point"] = IF f = "place" /\ v = Blank THEN Blank
                                    ELSE text["point"]]
  <1>1. /\ FormRendered(modal) /\ modal.activeStep < LastStep
        /\ values' = [values EXCEPT !.state = [values.state EXCEPT !.text = new]]
        /\ changedLate' = IF isSubmitting THEN changedLate \cup {f, "point"}
                          ELSE changedLate
        /\ UNCHANGED <<meet, cached, modal, save, owner, mixed>>
        /\ typed < MaxTyped /\ typed' = typed + 1
        /\ Geocode
    BY DEF Type, setState, NoteLate
  <1>2. /\ modal.activeStep \in 1 .. Len(Steps)
        /\ f \in Fields /\ f # "point" /\ f \in Named /\ "point" \in Fields
    BY <1>1, FormTypes, StepFacts
  <1>3. /\ text \in [Fields -> Text] /\ new \in [Fields -> Text]
        /\ new[f] = v
        /\ new["point"] = IF f = "place" /\ v = Blank THEN Blank
                          ELSE text["point"]
        /\ \A g \in Fields \ {f, "point"} : new[g] = text[g]
    BY <1>2, FormTypes DEF Shown, Text
  <1>4. /\ values'.state \in Shown /\ values'.state.text = new
        /\ values'.baseline = values.baseline
        /\ values' \in [state : Shown, baseline : Shown]
    BY <1>1, <1>3, FormTypes DEF Shown
  <1>5. FieldsOf(modal.activeStep) = {f} \cup IF f = "place" THEN {"point"} ELSE {}
    BY DEF FieldsOf
  <1>6. \A g \in Fields \ FieldsOf(modal.activeStep) : new[g] = text[g]
    BY <1>3, <1>5
  <1>7. geocoder' \in Geocoder /\ GeocoderInv'
    BY <1>1, <1>4, GeocodeStep, FormTypes
  <1>8. MeetFormTypeOK'
    BY <1>1, <1>2, <1>4, <1>7, MeetFormConstants DEF MeetFormTypeOK
  <1>9. RowsInv'
    <2>1. Placed(values'.state)
      <3>1. CASE f = "place"
        <4>1. new["place"] = Blank => new["point"] = Blank
          BY <1>3, <3>1
        <4> QED
          BY <1>4, <4>1 DEF Placed
      <3>2. CASE f # "place"
        <4>1. "place" \in Named => new["place"] = text["place"]
          BY <1>3, <3>2, StepFacts DEF Fields
        <4>2. new["point"] = text["point"]
          BY <1>3, <3>2
        <4> QED
          BY <1>4, <4>1, <4>2 DEF RowsInv, Placed
      <3> QED
        BY <3>1, <3>2
    <2> QED
      BY <1>1, <1>4, <2>1 DEF RowsInv, Placed, OwnSave, isSubmitting, FormRendered
  <1>10. ShownInv'
    BY <1>1, <1>3, <1>4, <1>6 DEF ShownInv, FormRendered, ActiveFields, NotAnswered,
       Matches
  <1>11. SavedInv'
    BY <1>1, <1>3, <1>4 DEF SavedInv, OwnSave, isSubmitting, Matches
  <1> QED
    BY <1>7, <1>8, <1>9, <1>10, <1>11

\* So does the point of a location.
LEMMA GeocodedKeeps ==
    ASSUME MeetFormInv, Geocoded \/ GeocoderFails
    PROVE  MeetFormInv'
  <1> USE DEF MeetFormInv
  <1>1. CASE Geocoded
    <2> DEFINE text == values.state.text
               new == [text EXCEPT !["point"] = geocoder.pending]
    <2>1. /\ geocoder.pending # Blank /\ geocoder.pending \in Text
          /\ values' = [values EXCEPT !.state =
                          [values.state EXCEPT !.text = new]]
          /\ geocoder' = [pending |-> Blank, last |-> geocoder.pending]
          /\ changedLate' = IF isSubmitting THEN changedLate \cup {"point"}
                            ELSE changedLate
          /\ UNCHANGED <<meet, cached, modal, save, owner, mixed, typed>>
      BY <1>1 DEF Geocoded, setState, NoteLate, MeetFormTypeOK, Geocoder
    <2>2. /\ text \in [Fields -> Text] /\ new \in [Fields -> Text]
          /\ \A g \in Fields \ {"point"} : new[g] = text[g]
      BY <2>1, FormTypes, StepFacts DEF Shown
    <2>3. /\ values'.state \in Shown /\ values'.state.text = new
          /\ values'.baseline = values.baseline
          /\ values' \in [state : Shown, baseline : Shown]
      BY <2>1, <2>2, FormTypes DEF Shown
    <2>4. /\ modal.activeStep < LastStep /\ Steps[modal.activeStep] = "place"
          /\ values.state.text["place"] # Blank
      BY <2>1 DEF GeocoderInv, Location
    <2>5. "point" \in FieldsOf(modal.activeStep) /\ "place" \in Fields \ {"point"}
      BY <2>4, FormTypes, StepFacts DEF FieldsOf
    <2>6. MeetFormTypeOK'
      BY <2>1, <2>3, StepFacts DEF MeetFormTypeOK, Geocoder, Text
    <2>7. GeocoderInv'
      BY <2>1 DEF GeocoderInv
    <2>8. RowsInv'
      <3>1. Placed(values'.state)
        BY <2>2, <2>3, <2>4, <2>5 DEF Placed
      <3> QED
        BY <2>1, <2>3, <3>1 DEF RowsInv, Placed, OwnSave, isSubmitting,
           FormRendered
    <2>9. ShownInv'
      BY <2>1, <2>2, <2>3, <2>4, <2>5 DEF ShownInv, FormRendered, ActiveFields,
         NotAnswered, Matches
    <2>10. SavedInv'
      BY <2>1, <2>2, <2>3 DEF SavedInv, OwnSave, isSubmitting, Matches
    <2> QED
      BY <2>6, <2>7, <2>8, <2>9, <2>10
  <1>2. CASE GeocoderFails
    <2>1. /\ UNCHANGED <<meet, cached, modal, values, save, owner, mixed,
                         changedLate, typed>>
          /\ geocoder' \in Geocoder /\ geocoder'.pending = Blank
      BY <1>2 DEF GeocoderFails, MeetFormTypeOK, Geocoder, Text
    <2>2. MeetFormTypeOK' /\ GeocoderInv'
      BY <2>1 DEF MeetFormTypeOK, GeocoderInv
    <2>3. RowsInv'
      BY <2>1 DEF RowsInv, Placed, OwnSave, isSubmitting, FormRendered
    <2>4. ShownInv'
      BY <2>1 DEF ShownInv, FormRendered, ActiveFields, NotAnswered, Matches
    <2>5. SavedInv'
      BY <2>1 DEF SavedInv, OwnSave, isSubmitting, Matches
    <2> QED
      BY <2>2, <2>3, <2>4, <2>5
  <1> QED
    BY <1>1, <1>2

\* The dialog is opened: no save of its own is under way.
LEMMA OpenNewMeetKeeps ==
    ASSUME MeetFormInv, OpenNewMeet
    PROVE  MeetFormInv'
  <1> USE DEF MeetFormInv
  <1>1. /\ ~modal.open
        /\ modal' = [modal EXCEPT !.open = TRUE, !.of = NoMeetRow,
                                    !.meetId = NoMeetRow, !.loading = FALSE]
        /\ values' = [state |-> InitialState, baseline |-> InitialState]
        /\ mixed' = FALSE /\ owner' = NoMeetRow /\ changedLate' = {}
        /\ UNCHANGED <<meet, cached, save, typed>>
        /\ Geocode
    BY DEF OpenNewMeet, Both
  <1>2. /\ modal' \in Modal /\ modal'.open /\ ~modal'.loading
        /\ modal'.meetId = NoMeetRow
    BY <1>1, FormTypes DEF Modal, MaybeMeet
  <1>3. values'.state = InitialState /\ values'.baseline = InitialState
    BY <1>1
  <1>4. ~OwnSave /\ ~OwnSave'
    BY <1>1 DEF RowsInv, OwnSave, isSubmitting, FormRendered
  <1>5. geocoder' \in Geocoder /\ GeocoderInv'
    BY <1>1, <1>2, <1>3, GeocodeStep, FormValues
  <1>6. MeetFormTypeOK'
    BY <1>1, <1>2, <1>5, FormValues DEF MeetFormTypeOK, MaybeMeet
  <1>7. RowsInv'
    <2>1. Placed(InitialState)
      BY FormValues, StepFacts DEF Placed
    <2> QED
      BY <1>1, <1>2, <1>3, <1>4, <2>1 DEF RowsInv, Placed, isSubmitting
  <1>8. ShownInv'
    BY <1>2, <1>3, FormValues DEF ShownInv
  <1> QED
    BY <1>4, <1>5, <1>6, <1>7, <1>8 DEF SavedInv

LEMMA OpenMeetKeeps ==
    ASSUME MeetFormInv, NEW m \in FormMeets, OpenMeet(m)
    PROVE  MeetFormInv'
  <1> USE DEF MeetFormInv
  <1>1. /\ ~modal.open /\ meet[m] # NoRow
        /\ modal' = [modal EXCEPT !.open = TRUE, !.of = m, !.meetId = m,
                                    !.loading = (cached[m] = NoRow)]
        /\ \/ cached[m] = NoRow /\ UNCHANGED <<values, owner, mixed>>
           \/ /\ cached[m] # NoRow
              /\ values' = [state |-> cached[m], baseline |-> cached[m]]
              /\ owner' = m /\ mixed' = (cached[m] # meet[m])
        /\ changedLate' = {}
        /\ UNCHANGED <<meet, cached, save, typed>>
        /\ Geocode
    BY DEF OpenMeet, Both
  <1>2. /\ modal' \in Modal /\ modal'.open /\ modal'.meetId = m
        /\ modal'.loading = (cached[m] = NoRow) /\ m # NoMeetRow
    BY <1>1, FormTypes, MeetFormConstants DEF Modal, MaybeMeet
  <1>3. cached[m] \in Shown
    BY DEF MeetFormTypeOK
  <1>4. /\ values' \in [state : Shown, baseline : Shown]
        /\ values'.state \in Shown
        /\ Placed(values'.state) /\ Placed(values'.baseline)
    BY <1>1, <1>3, FormTypes DEF RowsInv, MeetFormTypeOK
  <1>5. ~OwnSave /\ ~OwnSave'
    BY <1>1 DEF RowsInv, OwnSave, isSubmitting, FormRendered
  <1>6. geocoder' \in Geocoder /\ GeocoderInv'
    BY <1>1, <1>2, <1>4, GeocodeStep
  <1>7. MeetFormTypeOK'
    BY <1>1, <1>2, <1>4, <1>6 DEF MeetFormTypeOK, MaybeMeet
  <1>8. RowsInv'
    BY <1>1, <1>2, <1>4, <1>5 DEF RowsInv, Placed, isSubmitting
  <1>9. ShownInv'
    <2>1. SUFFICES ASSUME FormRendered(modal'), ~mixed'
                   PROVE  ShownInv'
      BY DEF ShownInv
    <2>2. /\ owner' = m /\ cached[m] = meet[m]
          /\ values' = [state |-> cached[m], baseline |-> cached[m]]
      BY <1>1, <1>2, <2>1 DEF FormRendered
    <2>3. values'.state = meet'[m] /\ values'.baseline = meet'[m]
      BY <1>1, <2>2
    <2> QED
      BY <1>2, <2>2, <2>3 DEF ShownInv, Matches
  <1> QED
    BY <1>5, <1>6, <1>7, <1>8, <1>9 DEF SavedInv

\* Everything is as it is stored; if the form was sent, nothing is claimed of it.
LEMMA MeetFetchedKeeps ==
    ASSUME MeetFormInv, MeetFetched
    PROVE  MeetFormInv'
  <1> USE DEF MeetFormInv
  <1>1. PICK m \in FormMeets :
           /\ modal.open /\ m = modal.of
           /\ cached' = [cached EXCEPT ![m] = meet[m]]
           /\ modal' = [modal EXCEPT !.loading = FALSE]
           /\ values' = [state |-> meet[m], baseline |-> meet[m]]
           /\ owner' = m /\ mixed' = (modal.meetId # m)
           /\ changedLate' = IF isSubmitting THEN Fields ELSE {}
           /\ UNCHANGED <<meet, save, typed>>
           /\ Geocode
    BY FormTypes DEF MeetFetched, Both, MaybeMeet
  <1>2. /\ modal' \in Modal /\ modal'.open /\ ~modal'.loading
        /\ modal'.meetId = modal.meetId /\ m # NoMeetRow
    BY <1>1, FormTypes, MeetFormConstants DEF Modal
  <1>3. meet[m] \in Shown /\ cached' \in [FormMeets -> Shown]
    BY <1>1 DEF MeetFormTypeOK
  <1>4. /\ values' \in [state : Shown, baseline : Shown]
        /\ values'.state = meet[m] /\ values'.baseline = meet[m]
    BY <1>1, <1>3
  <1>5. geocoder' \in Geocoder /\ GeocoderInv'
    BY <1>1, <1>2, <1>3, <1>4, GeocodeStep
  <1>6. MeetFormTypeOK'
    BY <1>1, <1>2, <1>3, <1>4, <1>5 DEF MeetFormTypeOK, MaybeMeet
  <1>7. RowsInv'
    <2>1. \A n \in FormMeets : cached'[n] = meet[n] \/ cached'[n] = cached[n]
      BY <1>1 DEF MeetFormTypeOK
    <2>2. \A n \in FormMeets : Placed(cached'[n])
      BY <2>1 DEF RowsInv
    <2> QED
      BY <1>1, <1>2, <1>4, <2>2 DEF RowsInv, Placed, OwnSave, isSubmitting,
         FormRendered
  <1>8. ShownInv'
    BY <1>1, <1>2, <1>4 DEF ShownInv, Matches
  <1>9. SavedInv'
    <2>1. SUFFICES ASSUME OwnSave' PROVE SavedInv'
      BY DEF SavedInv
    <2>2. changedLate' = Fields /\ OwnSave
      BY <1>1, <2>1 DEF OwnSave, isSubmitting
    <2>3. modal.meetId = save.to
      BY <2>2 DEF RowsInv
    <2>4. save.to = NoMeetRow => mixed'
      BY <1>1, <1>2, <2>3
    <2> QED
      BY <1>1, <2>2, <2>4 DEF SavedInv, isSubmitting
  <1> QED
    BY <1>5, <1>6, <1>7, <1>8, <1>9

\* What the form held before is "mixed".
LEMMA MeetFetchFailsKeeps ==
    ASSUME MeetFormInv, MeetFetchFails
    PROVE  MeetFormInv'
  <1> USE DEF MeetFormInv
  <1>1. /\ modal.open /\ modal.loading
        /\ modal' = [modal EXCEPT !.loading = FALSE]
        /\ mixed' = TRUE
        /\ UNCHANGED <<meet, cached, values, save, owner, changedLate, typed>>
        /\ Geocode
    BY DEF MeetFetchFails
  <1>2. /\ modal' \in Modal /\ modal'.open = modal.open
        /\ modal'.meetId = modal.meetId
    BY <1>1, FormTypes DEF Modal
  <1>3. ~OwnSave /\ ~OwnSave'
    BY <1>1 DEF RowsInv, OwnSave, isSubmitting, FormRendered
  <1>4. geocoder' \in Geocoder /\ GeocoderInv'
    BY <1>1, <1>2, GeocodeStep, FormTypes
  <1>5. MeetFormTypeOK'
    BY <1>1, <1>2, <1>4 DEF MeetFormTypeOK
  <1>6. RowsInv'
    BY <1>1, <1>2, <1>3 DEF RowsInv, Placed, isSubmitting
  <1> QED
    BY <1>1, <1>3, <1>4, <1>5, <1>6 DEF ShownInv, SavedInv

\* Another step is shown, and what was not saved is dropped.
LEMMA LeaveKeeps ==
    ASSUME MeetFormInv, NEW s \in 1 .. LastStep, Leave(s)
    PROVE  MeetFormInv'
  <1> USE DEF MeetFormInv
  <1>1. /\ modal' = [modal EXCEPT !.activeStep = s]
        /\ values' = [values EXCEPT !.state = values.baseline]
        /\ changedLate' = IF isSubmitting
                             THEN changedLate \cup IF isDirty THEN Fields ELSE {}
                             ELSE changedLate
        /\ UNCHANGED <<meet, cached, save, owner, mixed, typed>>
        /\ Geocode
    BY DEF Leave, setState, NoteLate
  <1>2. /\ modal' \in Modal /\ modal'.open = modal.open
        /\ modal'.meetId = modal.meetId /\ modal'.loading = modal.loading
    BY <1>1, FormTypes DEF Modal, LastStep
  <1>3. /\ values' \in [state : Shown, baseline : Shown]
        /\ values'.state = values.baseline
        /\ values'.baseline = values.baseline
    BY <1>1, FormTypes
  <1>4. geocoder' \in Geocoder /\ GeocoderInv'
    BY <1>1, <1>2, <1>3, GeocodeStep, FormTypes
  <1>5. MeetFormTypeOK'
    BY <1>1, <1>2, <1>3, <1>4 DEF MeetFormTypeOK
  <1>6. RowsInv'
    BY <1>1, <1>2, <1>3 DEF RowsInv, Placed, OwnSave, isSubmitting, FormRendered
  <1>7. ShownInv'
    BY <1>1, <1>2, <1>3 DEF ShownInv, FormRendered, Matches, NotAnswered
  <1>8. SavedInv'
    BY <1>1, <1>3 DEF SavedInv, OwnSave, isSubmitting, isDirty, Matches
  <1> QED
    BY <1>4, <1>5, <1>6, <1>7, <1>8

\* A save that is under way is not the next dialog's.
LEMMA CloseKeeps ==
    ASSUME MeetFormInv, CloseMeetForm
    PROVE  MeetFormInv'
  <1> USE DEF MeetFormInv
  <1>1. /\ modal' = [modal EXCEPT !.open = FALSE, !.of = NoMeetRow,
                                    !.activeStep = 1]
        /\ values' = [values EXCEPT !.state = values.baseline]
        /\ mixed' = FALSE /\ changedLate' = {}
        /\ UNCHANGED <<meet, cached, owner, typed>>
        /\ Geocode
    BY DEF CloseMeetForm, ClosedModal, setState
  <1>2. modal' \in Modal /\ ~modal'.open
    <2>1. 1 \in 1 .. Len(Steps) + 1 /\ NoMeetRow \in MaybeMeet
      BY StepFacts DEF MaybeMeet
    <2> QED
      BY <1>1, <2>1, FormTypes DEF Modal
  <1>3. /\ values' \in [state : Shown, baseline : Shown]
        /\ values'.state = values.baseline
        /\ values'.baseline = values.baseline
    BY <1>1, FormTypes
  <1>4. /\ save' \in Save /\ save'.step = save.step /\ save'.to = save.to
        /\ save'.id = save.id /\ save'.draft = save.draft
        /\ save'.again = (save.step # "idle")
    BY FormTypes DEF CloseMeetForm, Save, isSubmitting
  <1>5. geocoder' \in Geocoder /\ GeocoderInv'
    BY <1>1, <1>2, <1>3, GeocodeStep, FormTypes
  <1>6. ~OwnSave'
    BY <1>4 DEF OwnSave, isSubmitting
  <1>7. MeetFormTypeOK'
    BY <1>1, <1>2, <1>3, <1>4, <1>5 DEF MeetFormTypeOK
  <1>8. RowsInv'
    BY <1>1, <1>2, <1>3, <1>4, <1>6 DEF RowsInv, Placed, isSubmitting
  <1> QED
    BY <1>2, <1>5, <1>6, <1>7, <1>8 DEF ShownInv, SavedInv, FormRendered

\* What is sent is what is shown.
LEMMA NextKeeps ==
    ASSUME MeetFormInv, handleNext
    PROVE  MeetFormInv'
  <1> USE DEF MeetFormInv
  <1>1. /\ FormRendered(modal) /\ ~isSubmitting
        /\ modal.activeStep < LastStep
        /\ save' = [NoSave EXCEPT !.step = "sent", !.to = modal.meetId,
                      !.activeStep = modal.activeStep, !.draft = values.state]
        /\ UNCHANGED <<meet, cached, modal, values, geocoder, owner, mixed,
                       changedLate, typed>>
    BY DEF handleNext
  <1>2. modal.activeStep \in 1 .. Len(Steps)
    BY <1>1, FormTypes, StepFacts
  <1>3. /\ save' \in Save /\ save'.step = "sent" /\ save'.to = modal.meetId
        /\ save'.activeStep = modal.activeStep
        /\ save'.draft = values.state
    BY <1>1, <1>2, FormTypes, FormValues DEF Save, NoSave
  <1>4. MeetFormTypeOK' /\ GeocoderInv'
    BY <1>1, <1>3 DEF MeetFormTypeOK, GeocoderInv
  <1>5. RowsInv'
    BY <1>1, <1>3 DEF RowsInv, Placed, OwnSave, isSubmitting, FormRendered
  <1>6. NotAnswered = {} /\ NotAnswered' = {}
    BY <1>1, <1>3 DEF NotAnswered, isSubmitting
  <1>7. ShownInv'
    BY <1>1, <1>3, <1>6 DEF ShownInv, FormRendered, ActiveFields, Matches
  <1>8. SavedInv'
    BY <1>1, <1>3, <1>6 DEF SavedInv, ShownInv, ActiveFields, Matches
  <1> QED
    BY <1>4, <1>5, <1>7, <1>8

\* What toDbRecord makes of a row and the form that was sent.
LEMMA RecordFacts ==
    ASSUME NEW row \in Shown, NEW draft \in Shown, NEW i \in 1 .. Len(Steps)
    PROVE  LET r == toDbRecord(row, draft, i) IN
           /\ r \in Shown /\ r.statusId = row.statusId
           /\ \A f \in Fields \ FieldsOf(i) : r.text[f] = row.text[f]
           /\ \A f \in FieldsOf(i) :
                 \/ r.text[f] = draft.text[f]
                 \/ f = "point" /\ draft.text["place"] = Blank
                    /\ r.text[f] = Blank
                 \/ /\ draft.text[f] = Blank /\ LeftOut(f)
                    /\ r.text[f] = row.text[f]
           /\ draft.text["basic"] = Blank => r.text["basic"] = row.text["basic"]
           /\ draft.text["basic"] # Blank =>
                 r.text["basic"] \in {row.text["basic"], draft.text["basic"]}
           /\ Placed(row) /\ Placed(draft) => Placed(r)
  <1> DEFINE r == toDbRecord(row, draft, i)
             new == [f \in Fields |->
                       IF f \notin FieldsOf(i) THEN row.text[f]
                       ELSE IF f = "point" /\ draft.text["place"] = Blank
                         THEN Blank
                       ELSE IF draft.text[f] = Blank /\ LeftOut(f)
                         THEN row.text[f]
                       ELSE draft.text[f]]
  <1>1. /\ row.text \in [Fields -> Text] /\ draft.text \in [Fields -> Text]
        /\ FieldsOf(i) \subseteq Fields
    BY StepFacts DEF Shown
  <1>2. new \in [Fields -> Text]
    BY <1>1 DEF Text
  <1>3. r = [row EXCEPT !.text = new]
    BY DEF toDbRecord
  <1>4. r \in Shown /\ r.text = new /\ r.statusId = row.statusId
    BY <1>2, <1>3 DEF Shown
  <1>5. LeftOut("basic") /\ "basic" # "point" /\ "basic" \in Fields
    BY StepFacts DEF LeftOut
  <1>6. ASSUME Placed(row), Placed(draft) PROVE Placed(r)
    <2>1. SUFFICES ASSUME "place" \in Named, new["place"] = Blank
                   PROVE  new["point"] = Blank
      BY <1>4 DEF Placed
    <2>2. "place" \in Fields /\ "point" \in Fields /\ "place" # "point"
      BY <2>1, StepFacts DEF Fields
    <2>3. "place" \in FieldsOf(i) <=> "point" \in FieldsOf(i)
      BY StepFacts DEF FieldsOf
    <2>4. ~LeftOut("place")
      BY DEF LeftOut
    <2>5. CASE "place" \in FieldsOf(i)
      BY <2>1, <2>2, <2>3, <2>4, <2>5
    <2>6. CASE "place" \notin FieldsOf(i)
      BY <1>6, <2>1, <2>2, <2>3, <2>6 DEF Placed
    <2> QED
      BY <2>5, <2>6
  <1> HIDE DEF r
  <1> QED
    BY <1>1, <1>4, <1>5, <1>6 DEF r

\* A row changes in the fields of the step that is saved.
LEMMA AppliedKeeps ==
    ASSUME MeetFormInv, SaveApplied
    PROVE  MeetFormInv'
  <1> USE DEF MeetFormInv
  <1>1. PICK m \in FormMeets, row \in Shown, i \in 1 .. Len(Steps) :
           /\ save.step = "sent"
           /\ meet' = [meet EXCEPT ![m] = toDbRecord(row, save.draft, i)]
           /\ save' = [save EXCEPT !.step = "done", !.id = m]
           /\ \/ /\ save.to = NoMeetRow /\ meet[m] = NoRow
                 /\ save.draft.text["basic"] # Blank
                 /\ row = [InitialState EXCEPT !.statusId = "draft"] /\ i = 1
              \/ /\ save.to = m /\ save.to # NoMeetRow
                 /\ row = meet[m] /\ i = save.activeStep
    <2>1. CASE save.to = NoMeetRow
      <3>1. [InitialState EXCEPT !.statusId = "draft"] \in Shown
        BY FormValues DEF Shown
      <3>2. 1 \in 1 .. Len(Steps)
        BY StepFacts
      <3> QED
        BY <2>1, <3>1, <3>2 DEF SaveApplied
    <2>2. CASE save.to # NoMeetRow
      <3>1. save.to \in FormMeets /\ meet[save.to] \in Shown
        BY <2>2, FormTypes DEF MaybeMeet, MeetFormTypeOK
      <3> QED
        BY <2>2, <3>1, FormTypes DEF SaveApplied
    <2> QED
      BY <2>1, <2>2
  <1> DEFINE r == toDbRecord(row, save.draft, i)
  <1>2. /\ r \in Shown
        /\ \A f \in Fields \ FieldsOf(i) : r.text[f] = row.text[f]
        /\ \A f \in FieldsOf(i) :
              \/ r.text[f] = save.draft.text[f]
              \/ /\ f = "point" /\ save.draft.text["place"] = Blank
                 /\ r.text[f] = Blank
              \/ /\ save.draft.text[f] = Blank /\ LeftOut(f)
                 /\ r.text[f] = row.text[f]
        /\ save.draft.text["basic"] = Blank =>
              r.text["basic"] = row.text["basic"]
        /\ save.draft.text["basic"] # Blank =>
              r.text["basic"] \in {row.text["basic"], save.draft.text["basic"]}
        /\ Placed(row) /\ Placed(save.draft) => Placed(r)
    BY FormTypes, RecordFacts
  <1> HIDE DEF r
  <1>3. /\ meet' \in [FormMeets -> Shown] /\ meet'[m] = r
        /\ \A n \in FormMeets \ {m} : meet'[n] = meet[n]
    BY <1>1, <1>2 DEF MeetFormTypeOK, r
  <1>4. /\ save' \in Save /\ save'.step = "done" /\ save'.id = m
        /\ save'.to = save.to /\ save'.draft = save.draft
        /\ save'.activeStep = save.activeStep /\ save'.again = save.again
    BY <1>1, FormTypes DEF Save, MaybeMeet
  <1>5. UNCHANGED <<cached, modal, values, geocoder, owner, mixed, changedLate,
                    typed>>
    BY DEF SaveApplied
  <1>6. MeetFormTypeOK' /\ GeocoderInv'
    BY <1>3, <1>4, <1>5 DEF MeetFormTypeOK, GeocoderInv
  <1>7. r.text["basic"] # Blank /\ r # NoRow /\ Placed(r)
    <2>1. NoRow.text["basic"] = Blank /\ row.text["basic"] \in Text
      BY StepFacts DEF NoRow, InitialState, Shown
    <2>2. Placed(row) /\ Placed(save.draft)
      BY <1>1, FormValues, StepFacts DEF RowsInv, Placed, InitialState
    <2>3. save.to # NoMeetRow => row.text["basic"] # Blank
      BY <1>1 DEF RowsInv, isSubmitting
    <2>4. r.text["basic"] # Blank
      <3>1. CASE save.to = NoMeetRow
        <4>1. "basic" \in FieldsOf(i) /\ "basic" # "point"
          BY <1>1, <3>1, StepFacts
        <4> QED
          BY <1>1, <1>2, <3>1, <4>1
      <3>2. CASE save.to # NoMeetRow
        BY <1>2, <2>3, <3>2
      <3> QED
        BY <3>1, <3>2
    <2> QED
      BY <1>2, <2>1, <2>2, <2>4
  <1>8. RowsInv'
    <2>1. \A n \in FormMeets : /\ meet'[n] # NoRow => meet'[n].text["basic"] # Blank
                               /\ meet[n] # NoRow => meet'[n] # NoRow
                               /\ Placed(meet'[n])
      BY <1>3, <1>7 DEF RowsInv
    <2>2. modal.meetId \in MaybeMeet /\ save.to \in MaybeMeet
      BY FormTypes
    <2> QED
      BY <1>1, <1>3, <1>4, <1>5, <1>7, <2>1, <2>2
      DEF RowsInv, Placed, OwnSave, isSubmitting, FormRendered, MaybeMeet
  <1>9. ShownInv'
    <2>1. NotAnswered = {} /\ NotAnswered' = FieldsOf(save.activeStep)
      BY <1>1, <1>4 DEF NotAnswered
    <2>2. ASSUME FormRendered(modal), modal.meetId # NoMeetRow,
                 NEW f \in Fields \ FieldsOf(save.activeStep)
          PROVE  meet'[modal.meetId].text[f] = meet[modal.meetId].text[f]
      <3>1. CASE modal.meetId = m
        <4>1. meet[m] # NoRow
          BY <2>2, <3>1 DEF RowsInv, FormRendered
        <4>2. row = meet[m] /\ i = save.activeStep
          BY <1>1, <4>1
        <4> QED
          BY <1>2, <1>3, <2>2, <3>1, <4>2
      <3>2. CASE modal.meetId # m
        BY <1>3, <2>2, <3>2, FormTypes DEF MaybeMeet
      <3> QED
        BY <3>1, <3>2
    <2> QED
      BY <1>5, <2>1, <2>2 DEF ShownInv, FormRendered, ActiveFields, Matches
  <1>10. SavedInv'
    <2>1. SUFFICES ASSUME OwnSave' PROVE SavedInv'
      BY DEF SavedInv
    <2>2. OwnSave
      BY <1>1, <1>4, <2>1 DEF OwnSave, isSubmitting
    <2>3. ASSUME ~mixed, NEW f \in Fields \ changedLate
          PROVE  \/ save.draft.text[f] = r.text[f]
                 \/ save.draft.text[f] = Blank /\ LeftOut(f)
      <3>1. CASE save.to = NoMeetRow
        <4>1. \A g \in Fields \ FieldsOf(save.activeStep) :
                 save.draft.text[g] = Blank
          BY <1>1, <2>2, <2>3, <3>1 DEF SavedInv
        <4>2. "basic" \in FieldsOf(save.activeStep)
          BY <1>1, <3>1, <4>1, StepFacts
        <4>3. FieldsOf(save.activeStep) = {"basic"} /\ FieldsOf(i) = {"basic"}
          BY <1>1, <3>1, <4>2, StepFacts DEF FieldsOf
        <4>4. \A g \in Fields : row.text[g] = Blank
          BY <1>1, <3>1, FormValues DEF InitialState
        <4>5. CASE f = "basic"
          BY <1>1, <1>2, <3>1, <4>3, <4>5
        <4>6. CASE f # "basic"
          BY <1>2, <4>1, <4>3, <4>4, <4>6
        <4> QED
          BY <4>5, <4>6
      <3>2. CASE save.to # NoMeetRow
        <4>1. row = meet[save.to] /\ i = save.activeStep
          BY <1>1, <3>2
        <4>2. CASE f \in FieldsOf(i)
          <5>1. f = "point" /\ save.draft.text["place"] = Blank =>
                   save.draft.text[f] = Blank
            BY <4>2, StepFacts DEF RowsInv, Placed, FieldsOf
          <5> QED
            BY <1>2, <4>2, <5>1
        <4>3. CASE f \notin FieldsOf(i)
          <5>1. Matches(save.draft, save.to, f)
            BY <1>1, <2>2, <2>3, <3>2, <4>1, <4>3 DEF SavedInv
          <5> QED
            BY <1>2, <4>1, <4>3, <5>1 DEF Matches
        <4> QED
          BY <4>2, <4>3
      <3> QED
        BY <3>1, <3>2
    <2> QED
      BY <1>3, <1>4, <1>5, <2>2, <2>3 DEF SavedInv, Matches
  <1> QED
    BY <1>6, <1>8, <1>9, <1>10

\* The form that was sent becomes the baseline, of the meet that was saved.
LEMMA AnsweredKeeps ==
    ASSUME MeetFormInv, SaveAnswered
    PROVE  MeetFormInv'
  <1> USE DEF MeetFormInv
  <1>1. /\ save.step = "done"
        /\ values' = [baseline |-> save.draft, state |->
              [values.state EXCEPT !.statusId = meet[save.id].statusId]]
        /\ modal' = [modal EXCEPT
              !.meetId = IF save.to = NoMeetRow THEN save.id ELSE @,
              !.activeStep = IF @ = LastStep THEN @ ELSE @ + 1]
        /\ \/ save.again /\ modal.open /\ mixed' = TRUE /\ owner' = owner
           \/ ~(save.again /\ modal.open) /\ owner' = save.id /\ mixed' = mixed
        /\ save' = NoSave
        /\ UNCHANGED <<meet, cached, changedLate, typed>>
        /\ Geocode
    BY DEF SaveAnswered
  <1>2. /\ save.id \in FormMeets /\ meet[save.id] # NoRow
        /\ save.id # NoMeetRow
        /\ save.to # NoMeetRow => save.id = save.to
    BY <1>1, MeetFormConstants DEF RowsInv
  <1>3. /\ modal' \in Modal /\ modal'.open = modal.open
        /\ modal'.loading = modal.loading
        /\ modal'.meetId = IF save.to = NoMeetRow THEN save.id ELSE modal.meetId
    <2>1. (IF modal.activeStep = LastStep THEN modal.activeStep
           ELSE modal.activeStep + 1) \in 1 .. Len(Steps) + 1
      BY FormTypes, StepFacts
    <2>2. (IF save.to = NoMeetRow THEN save.id ELSE modal.meetId) \in MaybeMeet
      BY FormTypes
    <2> QED
      BY <1>1, <2>1, <2>2, FormTypes DEF Modal
  <1>4. meet[save.id].statusId \in {"null", "draft", "other"}
    BY <1>2 DEF MeetFormTypeOK, Shown
  <1>5. /\ values'.state \in Shown /\ values'.state.text = values.state.text
        /\ values'.baseline = save.draft
        /\ values' \in [state : Shown, baseline : Shown]
    BY <1>1, <1>4, FormTypes DEF Shown
  <1>6. geocoder' \in Geocoder /\ GeocoderInv'
    BY <1>1, <1>3, <1>5, GeocodeStep
  <1>7. MeetFormTypeOK'
    BY <1>1, <1>2, <1>3, <1>5, <1>6, FormValues DEF MeetFormTypeOK, MaybeMeet
  <1>8. ~isSubmitting' /\ NotAnswered' = {}
    BY <1>1, FormValues DEF isSubmitting, NotAnswered
  <1>9. RowsInv'
    <2>1. Placed(InitialState)
      BY FormValues, StepFacts DEF Placed
    <2> QED
      BY <1>1, <1>2, <1>3, <1>5, <1>8, <2>1, FormValues
      DEF RowsInv, Placed, OwnSave, isSubmitting
  <1>10. ShownInv'
    <2>1. SUFFICES ASSUME FormRendered(modal'), ~mixed'
                   PROVE  ShownInv'
      BY DEF ShownInv
    <2>2. /\ OwnSave /\ ~mixed /\ owner' = save.id
          /\ modal.meetId = save.to
      BY <1>1, <1>3, <2>1 DEF OwnSave, isSubmitting, RowsInv, FormRendered
    <2>3. modal'.meetId = save.id
      BY <1>2, <1>3, <2>2
    <2>4. \A f \in Fields \ changedLate :
             /\ values.state.text[f] = save.draft.text[f]
             /\ Matches(save.draft, save.id, f)
      BY <1>1, <2>2 DEF SavedInv
    <2> QED
      BY <1>1, <1>2, <1>5, <2>2, <2>3, <2>4 DEF ShownInv, Matches
  <1> QED
    BY <1>6, <1>7, <1>8, <1>9, <1>10 DEF SavedInv, OwnSave

\* What is stored and was not answered is not claimed any more.
LEMMA SaveFailsKeeps ==
    ASSUME MeetFormInv, SaveMeetFails
    PROVE  MeetFormInv'
  <1> USE DEF MeetFormInv
  <1>1. /\ save' = NoSave
        /\ changedLate' = changedLate \cup NotAnswered
        /\ UNCHANGED <<meet, cached, modal, values, geocoder, owner, mixed, typed>>
    BY DEF SaveMeetFails, NotAnswered
  <1>2. ~isSubmitting' /\ NotAnswered' = {} /\ NotAnswered \subseteq Fields
    BY <1>1, FormTypes, FormValues, StepFacts DEF isSubmitting, NotAnswered
  <1>3. MeetFormTypeOK' /\ GeocoderInv'
    BY <1>1, <1>2, FormValues DEF MeetFormTypeOK, GeocoderInv
  <1>4. RowsInv'
    <2>1. Placed(InitialState)
      BY FormValues, StepFacts DEF Placed
    <2> QED
      BY <1>1, <1>2, <2>1, FormValues
      DEF RowsInv, Placed, OwnSave, isSubmitting
  <1>5. ShownInv'
    BY <1>1, <1>2 DEF ShownInv, FormRendered, ActiveFields, Matches
  <1> QED
    BY <1>2, <1>3, <1>4, <1>5 DEF SavedInv, OwnSave

\* Publishing changes no text, and closes the dialog.
LEMMA FinishKeeps ==
    ASSUME MeetFormInv, Finish
    PROVE  MeetFormInv'
  <1> USE DEF MeetFormInv
  <1>1. /\ ~isSubmitting
        /\ UNCHANGED <<cached, save, owner, mixed, changedLate, typed>>
        /\ Geocode
    BY DEF Finish
  <1>2. \/ /\ modal.meetId # NoMeetRow
           /\ meet' = [meet EXCEPT ![modal.meetId].statusId = "other"]
           /\ values' = [values EXCEPT !.state = InitialState]
           /\ modal' = [modal EXCEPT !.open = FALSE, !.of = NoMeetRow,
                                       !.activeStep = 1, !.meetId = NoMeetRow]
        \/ /\ values' = [values EXCEPT !.baseline = values.state]
           /\ modal' = [modal EXCEPT !.open = FALSE, !.of = NoMeetRow,
                                       !.activeStep = 1]
           /\ meet' = meet
    BY FormTypes DEF Finish, setState, ClosedModal, Modal
  <1>3. modal' \in Modal /\ ~modal'.open
    <2>1. 1 \in 1 .. Len(Steps) + 1 /\ NoMeetRow \in MaybeMeet
      BY StepFacts DEF MaybeMeet
    <2> QED
      BY <1>2, <2>1, FormTypes DEF Modal
  <1>4. /\ values' \in [state : Shown, baseline : Shown]
        /\ values'.state \in {values.state, InitialState}
        /\ values'.baseline \in {values.state, values.baseline}
        /\ values'.state \in Shown
    BY <1>2, FormTypes, FormValues
  <1>5. /\ meet' \in [FormMeets -> Shown]
        /\ \A n \in FormMeets : meet'[n].text = meet[n].text
    <2>1. CASE meet' = meet
      BY <2>1 DEF MeetFormTypeOK
    <2>2. CASE /\ modal.meetId # NoMeetRow
               /\ meet' = [meet EXCEPT ![modal.meetId].statusId = "other"]
      <3>1. modal.meetId \in FormMeets /\ meet[modal.meetId] \in Shown
        BY <2>2, FormTypes DEF MaybeMeet, MeetFormTypeOK
      <3>2. /\ [meet[modal.meetId] EXCEPT !.statusId = "other"] \in Shown
            /\ [meet[modal.meetId] EXCEPT !.statusId = "other"].text
                  = meet[modal.meetId].text
        BY <3>1 DEF Shown
      <3> QED
        BY <2>2, <3>1, <3>2 DEF MeetFormTypeOK
    <2> QED
      BY <1>2, <2>1, <2>2
  <1>6. geocoder' \in Geocoder /\ GeocoderInv'
    BY <1>1, <1>3, <1>4, GeocodeStep
  <1>7. MeetFormTypeOK'
    BY <1>1, <1>3, <1>4, <1>5, <1>6 DEF MeetFormTypeOK
  <1>8. RowsInv'
    <2>1. Placed(InitialState)
      BY FormValues, StepFacts DEF Placed
    <2>2. ASSUME NEW n \in FormMeets
          PROVE  /\ meet'[n] # NoRow => meet'[n].text["basic"] # Blank
                 /\ Placed(meet'[n])
      <3>1. meet'[n] # NoRow => meet[n] # NoRow
        <4>1. \/ meet'[n] = meet[n]
              \/ meet'[n] = [meet[n] EXCEPT !.statusId = "other"]
          BY <1>2 DEF MeetFormTypeOK
        <4>2. [NoRow EXCEPT !.statusId = "other"] = NoRow
          BY DEF NoRow, InitialState
        <4> QED
          BY <4>1, <4>2
      <3> QED
        BY <1>5, <3>1 DEF RowsInv, Placed
    <2> QED
      BY <1>1, <1>3, <1>4, <2>1, <2>2
      DEF RowsInv, Placed, OwnSave, isSubmitting
  <1> QED
    BY <1>1, <1>3, <1>6, <1>7, <1>8
    DEF ShownInv, SavedInv, OwnSave, isSubmitting, FormRendered

LEMMA MeetFormStarts == MeetFormInit => MeetFormInv
  <1> SUFFICES ASSUME MeetFormInit PROVE MeetFormInv
    OBVIOUS
  <1>1. /\ NoRow \in Shown /\ NoRow.text = InitialState.text
        /\ NoRow.text["basic"] = Blank
    BY FormValues, StepFacts DEF NoRow, Shown
  <1>2. ASSUME NEW name \in Texts, NEW s \in {"draft", "other"}
        PROVE  LET row == [Draft(name) EXCEPT !.statusId = s] IN
               /\ row \in Shown /\ row.text["basic"] = name /\ Placed(row)
    BY <1>2, StepFacts DEF Draft, Shown, Text, Placed
  <1>3. Placed(InitialState) /\ Placed(NoRow)
    BY <1>1, FormValues, StepFacts DEF Placed
  <1>4. \A m \in FormMeets :
           /\ meet[m] \in Shown /\ Placed(meet[m])
           /\ meet[m] # NoRow => meet[m].text["basic"] # Blank
    <2> SUFFICES ASSUME NEW m \in FormMeets
                 PROVE  /\ meet[m] \in Shown /\ Placed(meet[m])
                        /\ meet[m] # NoRow => meet[m].text["basic"] # Blank
      OBVIOUS
    <2>1. CASE meet[m] = NoRow
      BY <1>1, <1>3, <2>1
    <2>2. CASE meet[m] # NoRow
      <3>1. PICK name \in Texts, s \in {"draft", "other"} :
               meet[m] = [Draft(name) EXCEPT !.statusId = s]
        <4>1. meet[m] \in {NoRow} \cup
                 {[Draft(name) EXCEPT !.statusId = s] :
                     name \in Texts, s \in {"draft", "other"}}
          BY DEF MeetFormInit
        <4> QED
          BY <2>2, <4>1
      <3>2. LET row == [Draft(name) EXCEPT !.statusId = s] IN
            row \in Shown /\ row.text["basic"] = name /\ Placed(row)
        BY <1>2
      <3>3. name # Blank
        BY MeetFormConstants
      <3> QED
        BY <3>1, <3>2, <3>3
    <2> QED
      BY <2>1, <2>2
  <1>5. MeetFormTypeOK
    <2>1. meet \in [FormMeets -> Shown]
      BY <1>4 DEF MeetFormInit
    <2>2. values \in [state : Shown, baseline : Shown]
      BY FormValues DEF MeetFormInit
    <2>3. cached \in [FormMeets -> Shown]
      BY <1>1 DEF MeetFormInit
    <2>4. modal \in Modal /\ save \in Save /\ geocoder \in Geocoder
      BY FormValues DEF MeetFormInit
    <2>5. /\ owner \in MaybeMeet /\ mixed \in BOOLEAN
          /\ changedLate \subseteq Fields
      BY DEF MeetFormInit, MaybeMeet
    <2>6. typed \in 0 .. MaxTyped
      <3>1. typed = 0
        BY DEF MeetFormInit
      <3> QED
        BY <3>1, MeetFormConstants
    <2> QED
      BY <2>1, <2>2, <2>3, <2>4, <2>5, <2>6 DEF MeetFormTypeOK
  <1>6. RowsInv
    BY <1>3, <1>4, FormValues
    DEF MeetFormInit, RowsInv, OwnSave, isSubmitting, NoModal
  <1> QED
    BY <1>5, <1>6, FormValues
    DEF MeetFormInit, MeetFormInv, GeocoderInv, ShownInv, SavedInv, OwnSave,
        isSubmitting, NoModal, FormRendered

LEMMA MeetFormKept == MeetFormInv /\ [MeetFormNext]_meetFormVars => MeetFormInv'
  <1>1. MeetFormInv /\ MeetFormNext => MeetFormInv'
    BY TypeKeeps, GeocodedKeeps, OpenNewMeetKeeps, OpenMeetKeeps,
       MeetFetchedKeeps, MeetFetchFailsKeeps, LeaveKeeps, CloseKeeps, NextKeeps,
       AppliedKeeps, AnsweredKeeps, SaveFailsKeeps, FinishKeeps
    DEF MeetFormNext
  <1>2. MeetFormInv /\ UNCHANGED meetFormVars => MeetFormInv'
    BY DEF meetFormVars, MeetFormInv, MeetFormTypeOK, GeocoderInv, RowsInv,
       ShownInv, SavedInv, Placed, OwnSave, isSubmitting, FormRendered,
       ActiveFields, NotAnswered, Matches, Location
  <1> QED
    BY <1>1, <1>2

THEOREM MeetFormInvHolds == MeetFormSpec => []MeetFormInv
  BY MeetFormStarts, MeetFormKept, PTL DEF MeetFormSpec

\* What the form shows under a meet is this meet's, and what is stored when there
\* are no unsaved changes, with the exceptions FormIsItsMeet names
\* (CreateMeetModal.tsx:134-169, 395-426, 491-527, 579-595).
THEOREM FormsAreTheirMeets == MeetFormSpec => []FormIsItsMeet
  <1>1. MeetFormInv => FormIsItsMeet
    <2> SUFFICES ASSUME MeetFormInv, FormRendered(modal),
                        modal.meetId # NoMeetRow, ~mixed
                 PROVE  /\ owner = modal.meetId
                        /\ ~isSubmitting /\ ~isDirty =>
                              \A f \in Fields \ changedLate :
                                 Matches(values.state, modal.meetId, f)
      BY DEF FormIsItsMeet, Matches
    <2>1. ~isSubmitting => NotAnswered = {}
      BY DEF isSubmitting, NotAnswered
    <2> QED
      BY <2>1 DEF MeetFormInv, ShownInv, isDirty, Matches
  <1> QED
    BY <1>1, MeetFormInvHolds, PTL
===============================================================================
