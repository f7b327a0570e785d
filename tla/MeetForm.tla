------------------------------- MODULE MeetForm -------------------------------
(***************************************************************************)
(* The dialog in which a meet is created and edited (CreateMeetModal) in   *)
(* one tab: a form in steps, each of which is saved by a request of its    *)
(* own, a "baseline" that stands for what is saved, the fetch that fills   *)
(* the form, and the geocoder that finds the point of a location.          *)
(*                                                                         *)
(* Nothing in the form is disabled while a request is under way, so that   *)
(* the answer finds another form, another step, or the dialog opened for   *)
(* another meet.                                                           *)
(*                                                                         *)
(* Simplifications.  A step has one field, that of time and location two;  *)
(* CONSTANT Steps says which steps there are.  The map is always used.     *)
(* The questions "Discard changes?" and its answer are one step.  What     *)
(* publishing does to the row, and two tabs, are those of MeetLifecycle.   *)
(***************************************************************************)
EXTENDS Naturals, Sequences

CONSTANTS
    FormMeets, \* rows of meets
    NoMeetRow,
    Steps,     \* the steps before the last: a sequence of their names
    Texts,     \* what a field may hold
    Blank,
    MaxTyped   \* bound on the edits

ASSUME MeetFormConstants ==
    /\ NoMeetRow \notin FormMeets
    /\ Steps \in Seq(STRING) /\ Steps # <<>> /\ Steps[1] = "basic"
    /\ \A i \in 1 .. Len(Steps) : Steps[i] # "point"
    /\ Blank \notin Texts
    /\ MaxTyped \in Nat

VARIABLES
    meet,     \* the rows, and NoRow for one that does not exist
    cached,   \* what the tab fetched of each, or NoRow
    modal,    \* the dialog
    values,   \* what the form shows, and the baseline
    save,     \* the request of "Save & Continue"
    geocoder, \* the request to the geocoder
    owner,    \* history: whose values the form shows
    mixed,    \* history: whether they may be of another meet, or old
    changedLate, \* history: fields that changed while a save was under way
    typed     \* edits so far

meetFormVars == <<meet, cached, modal, values, save, geocoder, owner, mixed,
                  changedLate, typed>>

Named == {Steps[i] : i \in 1 .. Len(Steps)}
Fields == Named \cup {"point"}
Text == Texts \cup {Blank}

\* "statusId" is NULL in a form that was not saved yet; "draft" is also a meet
\* that was postponed, which is published again.
Shown == [text : [Fields -> Text], statusId : {"null", "draft", "other"}]
InitialState == [text |-> [f \in Fields |-> Blank], statusId |-> "null"]
NoRow == [InitialState EXCEPT !.statusId = "other"]

Draft(name) ==
    [text |-> [f \in Fields |-> IF f = "basic" THEN name ELSE Blank],
     statusId |-> "draft"]

MaybeMeet == FormMeets \cup {NoMeetRow}

\* "of" is the meet it was opened for, "meetId" the one that it saves.
Modal == [open : BOOLEAN, of : MaybeMeet, meetId : MaybeMeet,
          activeStep : 1 .. Len(Steps) + 1, loading : BOOLEAN]
NoModal == [open |-> FALSE, of |-> NoMeetRow, meetId |-> NoMeetRow,
            activeStep |-> 1, loading |-> FALSE]
LastStep == Len(Steps) + 1

\* "to" is NoMeetRow when a meet is created, and "id" the meet that was saved;
\* "draft" is the form that was submitted; "again" whether the dialog was closed
\* since.
Save == [step : {"idle", "sent", "done"}, to : MaybeMeet, id : MaybeMeet,
         activeStep : 1 .. Len(Steps), draft : Shown, again : BOOLEAN]
NoSave == [step |-> "idle", to |-> NoMeetRow, id |-> NoMeetRow,
           activeStep |-> 1, draft |-> InitialState, again |-> FALSE]

\* "last" is the location whose point was found last.
Geocoder == [pending : Text, last : Text]
NotMounted == [pending |-> Blank, last |-> Blank]

MeetFormInit ==
    /\ meet \in [FormMeets -> {NoRow} \cup
                   {[Draft(name) EXCEPT !.statusId = s] :
                       name \in Texts, s \in {"draft", "other"}}]
    /\ cached = [m \in FormMeets |-> NoRow]
    /\ modal = NoModal
    /\ values = [state |-> InitialState, baseline |-> InitialState]
    /\ save = NoSave
    /\ geocoder = NotMounted
    /\ owner = NoMeetRow
    /\ mixed = FALSE
    /\ changedLate = {}
    /\ typed = 0

-------------------------------------------------------------------------------
(* The form. *)

isDirty == values.state # values.baseline
FormRendered(d) == d.open /\ ~d.loading
isSubmitting == save.step # "idle"

setState(s) == values' = [values EXCEPT !.state = s]
Both(s) == values' = [state |-> s, baseline |-> s]

\* The step "Time and Location" asks for the point when it is shown and when the
\* location changes, and drops the question when either changes again.
Location(d) == FormRendered(d) /\ d.activeStep < LastStep
                               /\ Steps[d.activeStep] = "place"

Geocode ==
    geocoder' =
      IF ~Location(modal') THEN NotMounted
      ELSE IF ~Location(modal)
        THEN [pending |-> values'.state.text["place"], last |-> Blank]
      ELSE IF values'.state.text["place"] = values.state.text["place"]
        THEN geocoder
      ELSE [geocoder EXCEPT !.pending =
              IF values'.state.text["place"] = geocoder.last THEN Blank
              ELSE values'.state.text["place"]]

\* What changes while a request is under way is noted.
NoteLate(fields) ==
    changedLate' = IF isSubmitting THEN changedLate \cup fields ELSE changedLate

\* An empty location has no point.
Type(v) ==
    LET f == Steps[modal.activeStep]
        text == values.state.text
    IN  /\ FormRendered(modal) /\ modal.activeStep < LastStep
        /\ typed < MaxTyped /\ typed' = typed + 1
        /\ v # text[f]
        /\ setState([values.state EXCEPT
              !.text = [text EXCEPT ![f] = v,
                          !["point"] = IF f = "place" /\ v = Blank THEN Blank
                                       ELSE text["point"]]])
        /\ NoteLate({f, "point"})
        /\ UNCHANGED <<meet, cached, modal, save, owner, mixed>>
        /\ Geocode

Geocoded ==
    /\ geocoder.pending # Blank
    /\ setState([values.state EXCEPT !.text["point"] = geocoder.pending])
    /\ geocoder' = [pending |-> Blank, last |-> geocoder.pending]
    /\ NoteLate({"point"})
    /\ UNCHANGED <<meet, cached, modal, save, owner, mixed, typed>>

GeocoderFails ==
    /\ geocoder.pending # Blank
    /\ geocoder' = [geocoder EXCEPT !.pending = Blank]
    /\ UNCHANGED <<meet, cached, modal, values, save, owner, mixed, changedLate,
                   typed>>

-------------------------------------------------------------------------------
(* Opening, moving and closing. *)

OpenNewMeet ==
    /\ ~modal.open
    /\ modal' = [modal EXCEPT !.open = TRUE, !.of = NoMeetRow,
                                !.meetId = NoMeetRow, !.loading = FALSE]
    /\ Both(InitialState)
    /\ owner' = NoMeetRow /\ mixed' = FALSE /\ changedLate' = {}
    /\ UNCHANGED <<meet, cached, save, typed>>
    /\ Geocode

\* Filled from what the tab has; otherwise it shows that it is loading.
OpenMeet(m) ==
    /\ ~modal.open
    /\ meet[m] # NoRow
    /\ modal' = [modal EXCEPT !.open = TRUE, !.of = m, !.meetId = m,
                                !.loading = (cached[m] = NoRow)]
    /\ IF cached[m] = NoRow
          THEN UNCHANGED <<values, owner, mixed>>
          ELSE /\ Both(cached[m])
               /\ owner' = m /\ mixed' = (cached[m] # meet[m])
    /\ changedLate' = {}
    /\ UNCHANGED <<meet, cached, save, typed>>
    /\ Geocode

\* An answer that differs from what the tab has fills the form.
MeetFetched ==
    LET m == modal.of IN
    /\ modal.open /\ m # NoMeetRow
    /\ cached[m] # meet[m]
    /\ cached' = [cached EXCEPT ![m] = meet[m]]
    /\ modal' = [modal EXCEPT !.loading = FALSE]
    /\ Both(meet[m])
    /\ owner' = m /\ mixed' = (modal.meetId # m)
    /\ changedLate' = IF isSubmitting THEN Fields ELSE {}
    /\ UNCHANGED <<meet, save, typed>>
    /\ Geocode

\* What the form held before is shown.
MeetFetchFails ==
    /\ modal.open /\ modal.loading
    /\ modal' = [modal EXCEPT !.loading = FALSE]
    /\ mixed' = TRUE
    /\ UNCHANGED <<meet, cached, values, save, owner, changedLate, typed>>
    /\ Geocode

LeaveKeeping(to) ==
    /\ modal.open
    /\ to # modal.activeStep
    /\ modal' = [modal EXCEPT !.activeStep = to]
    /\ UNCHANGED <<meet, cached, values, save, owner, mixed, changedLate, typed>>
    /\ Geocode

\* Another step, or the close button; changes are discarded when the user
\* agrees.
Leave(to) ==
    /\ modal.open
    /\ to # modal.activeStep
    /\ modal' = [modal EXCEPT !.activeStep = to]
    /\ setState(values.baseline)
    /\ NoteLate(IF isDirty THEN Fields ELSE {})
    /\ UNCHANGED <<meet, cached, save, owner, mixed, typed>>
    /\ Geocode

ClosedModal(d) == [d EXCEPT !.open = FALSE, !.of = NoMeetRow, !.activeStep = 1]

CloseMeetForm ==
    /\ modal.open
    /\ modal' = ClosedModal(modal)
    /\ setState(values.baseline)
    /\ save' = [save EXCEPT !.again = isSubmitting]
    /\ mixed' = FALSE /\ changedLate' = {}
    /\ UNCHANGED <<meet, cached, owner, typed>>
    /\ Geocode

-------------------------------------------------------------------------------
(* isSubmitting. *)

FieldsOf(step) ==
    {Steps[step]} \cup IF Steps[step] = "place" THEN {"point"} ELSE {}

handleNext ==
    /\ FormRendered(modal) /\ ~isSubmitting
    /\ modal.activeStep < LastStep
    /\ Steps[modal.activeStep] = "basic" =>
          values.state.text["basic"] # Blank
    /\ save' = [NoSave EXCEPT !.step = "sent", !.to = modal.meetId,
                  !.activeStep = modal.activeStep, !.draft = values.state]
    /\ UNCHANGED <<meet, cached, modal, values, geocoder, owner, mixed,
                   changedLate, typed>>

\* What is empty in these is left out of the payload, and stays in the row.
LeftOut(f) == f \in {"basic", "costs", "responses", "point"}

toDbRecord(row, draft, step) ==
    [row EXCEPT !.text = [f \in Fields |->
        IF f \notin FieldsOf(step) THEN row.text[f]
        ELSE IF f = "point" /\ draft.text["place"] = Blank THEN Blank
        ELSE IF draft.text[f] = Blank /\ LeftOut(f) THEN row.text[f]
        ELSE draft.text[f]]]

\* A new meet is created from the first step's fields, wherever it is saved.
SaveApplied ==
    /\ save.step = "sent"
    /\ IF save.to = NoMeetRow
          THEN \E m \in FormMeets :
                 /\ meet[m] = NoRow
                 /\ save.draft.text["basic"] # Blank
                 /\ meet' = [meet EXCEPT ![m] =
                       toDbRecord([InitialState EXCEPT !.statusId = "draft"],
                                  save.draft, 1)]
                 /\ save' = [save EXCEPT !.step = "done", !.id = m]
          ELSE /\ meet' = [meet EXCEPT
                       ![save.to] = toDbRecord(@, save.draft, save.activeStep)]
               /\ save' = [save EXCEPT !.step = "done", !.id = save.to]
    /\ UNCHANGED <<cached, modal, values, geocoder, owner, mixed, changedLate,
                   typed>>

\* The answer: the form that was submitted is the baseline now, and the dialog
\* goes on to the next step, whatever it shows by then.
SaveAnswered ==
    LET created == save.to = NoMeetRow IN
    /\ save.step = "done"
    /\ values' = [baseline |-> save.draft, state |->
                    [values.state EXCEPT !.statusId = meet[save.id].statusId]]
    /\ modal' = [modal EXCEPT
          !.meetId = IF created THEN save.id ELSE @,
          !.activeStep = IF @ = LastStep THEN @ ELSE @ + 1]
    /\ IF save.again /\ modal.open
          THEN mixed' = TRUE /\ UNCHANGED owner
          ELSE owner' = save.id /\ UNCHANGED mixed
    /\ save' = NoSave
    /\ UNCHANGED <<meet, cached, changedLate, typed>>
    /\ Geocode

\* The request fails, or its answer is lost: the form stays as it is.
SaveMeetFails ==
    /\ isSubmitting
    /\ save' = NoSave
    /\ changedLate' =
          changedLate \cup
             IF save.step = "done" THEN FieldsOf(save.activeStep) ELSE {}
    /\ UNCHANGED <<meet, cached, modal, values, geocoder, owner, mixed, typed>>

\* The button of the last step: a draft is published and the form emptied; the
\* dialog of any other meet is just closed.
Finish ==
    /\ FormRendered(modal) /\ ~isSubmitting
    /\ modal.activeStep = LastStep
    /\ values.state.text["basic"] # Blank
    /\ IF values.state.statusId \in {"null", "draft"}
          THEN /\ modal.meetId # NoMeetRow
               /\ meet' = [meet EXCEPT ![modal.meetId].statusId = "other"]
               /\ setState(InitialState)
               /\ modal' = [ClosedModal(modal) EXCEPT !.meetId = NoMeetRow]
          ELSE /\ values' = [values EXCEPT !.baseline = values.state]
               /\ modal' = ClosedModal(modal)
               /\ UNCHANGED meet
    /\ UNCHANGED <<cached, save, owner, mixed, changedLate, typed>>
    /\ Geocode

MeetFormNext ==
    \/ \E v \in Text : Type(v)
    \/ Geocoded \/ GeocoderFails
    \/ OpenNewMeet
    \/ \E m \in FormMeets : OpenMeet(m)
    \/ MeetFetched \/ MeetFetchFails
    \/ \E s \in 1 .. LastStep : Leave(s)
    \/ CloseMeetForm
    \/ handleNext \/ SaveApplied \/ SaveAnswered \/ SaveMeetFails
    \/ Finish

MeetFormSpec == MeetFormInit /\ [][MeetFormNext]_meetFormVars

-------------------------------------------------------------------------------
(* Properties. *)

MeetFormTypeOK ==
    /\ meet \in [FormMeets -> Shown]
    /\ cached \in [FormMeets -> Shown]
    /\ modal \in Modal
    /\ values \in [state : Shown, baseline : Shown]
    /\ save \in Save
    /\ geocoder \in Geocoder
    /\ owner \in MaybeMeet /\ mixed \in BOOLEAN
    /\ changedLate \subseteq Fields
    /\ typed \in 0 .. MaxTyped

\* What the form shows under a meet, and saves to it, was typed for this meet
\* or fetched from it; and when there are no unsaved changes, so that the form
\* is left without a question, it is what is stored.  Excepted are a form that
\* could not be filled or was filled from an old list, and an answer that
\* found the modal opened again ("mixed"), a field that changed while a save
\* was under way, and one that was emptied and is never stored empty
\* (CreateMeetModal.tsx:134-169, 395-426, 491-527, 579-595).
FormIsItsMeet ==
    FormRendered(modal) /\ modal.meetId # NoMeetRow /\ ~mixed =>
       /\ owner = modal.meetId
       /\ ~isSubmitting /\ ~isDirty =>
             \A f \in Fields \ changedLate :
                \/ values.state.text[f] = meet[modal.meetId].text[f]
                \/ values.state.text[f] = Blank /\ LeftOut(f)
===============================================================================
