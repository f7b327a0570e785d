------------------------------ MODULE Questions -------------------------------
(***************************************************************************)
(* The questions of one meet and the answers to them: the organizer's      *)
(* question step, the sign-up sheets of applicants, and the dialog in      *)
(* which the organizer corrects an applicant's answers.                    *)
(*                                                                         *)
(* Saving the question step deletes every definition of the meet and       *)
(* inserts the step's questions anew, with new ids; the answers refer to   *)
(* the ids and are deleted with them.  Sheets and dialogs send the ids     *)
(* they fetched, all answers of an application at once: an answer to an id *)
(* that is gone breaks a foreign key, and the transaction is undone.       *)
(*                                                                         *)
(* Simplifications.  A question is its key, which survives saving; its     *)
(* label, type, options and place are left out, and whether it is required *)
(* does not change.  The ids of a meet's questions are the number of the   *)
(* save that made them.  The answers in a sheet or a dialog are chosen     *)
(* when it is sent, and the answer to a request is received at once.       *)
(***************************************************************************)
EXTENDS Naturals

CONSTANTS
    Keys,     \* questions
    Required, \* those that are required when they are asked
    Values,   \* answers
    NoValue,  \* the empty answer
    Applications, \* applications
    Sheets,   \* sign-up sheets of applicants
    MaxSaves  \* bound: times the question step is saved

ASSUME QuestionsConstants ==
    /\ Required \subseteq Keys
    /\ NoValue \notin Values
    /\ Applications # {}
    /\ MaxSaves \in Nat

VARIABLES
    asked,  \* the definitions of the meet: the save that made them, their keys
    step,   \* the question step of the edit form: the keys it shows
    application, \* application[r]: an application and its answers
    sheet,  \* sheet[s]: what sheet s fetched
    correction \* the organizer's list of attendees, and the row he edits

questionVars == <<asked, step, application, sheet, correction>>

Answers == [Keys -> Values \cup {NoValue}]
Unanswered == [k \in Keys |-> NoValue]
Only(answers, keys) ==
    [k \in Keys |-> IF k \in keys THEN answers[k] ELSE NoValue]

Asked == [save : 0 .. MaxSaves, keys : SUBSET Keys]

\* History, "since": questions were saved since the sheet was fetched that wrote
\* the application last; "corrected": the organizer wrote it last.
AnsweredForm == [stored : BOOLEAN, answers : Answers,
                since : BOOLEAN, corrected : BOOLEAN]
NothingStored == [stored |-> FALSE, answers |-> Unanswered,
                  since |-> FALSE, corrected |-> FALSE]

\* "row": the application it edits, or the one it will make.
Sheet == [open : BOOLEAN, asked : Asked, row : Applications]

Correction == [open : BOOLEAN, asked : Asked, row : Applications]

SomeApplication == CHOOSE r \in Applications : TRUE
NothingAsked == [save |-> 0, keys |-> {}]

QuestionsInit ==
    /\ asked = NothingAsked
    /\ step = {}
    /\ application = [r \in Applications |-> NothingStored]
    /\ sheet = [s \in Sheets |->
                  [open |-> FALSE, asked |-> NothingAsked,
                   row |-> SomeApplication]]
    /\ correction = [open |-> FALSE, asked |-> NothingAsked,
                     row |-> SomeApplication]

-------------------------------------------------------------------------------
(* The organizer's question step. *)

\* The form is filled from the meet.
mapMeetToState ==
    /\ step' = asked.keys
    /\ UNCHANGED <<asked, application, sheet, correction>>

\* A question is added or removed, or all are replaced by those of a template.
EditQuestions(keys) ==
    /\ step' = keys
    /\ UNCHANGED <<asked, application, sheet, correction>>

\* Questions without a label are dropped.
syncMetaDefinitions ==
    /\ asked.save < MaxSaves
    /\ asked' = [save |-> asked.save + 1, keys |-> step]
    /\ application' = [r \in Applications |->
                         [application[r] EXCEPT !.answers = Unanswered,
                                                !.since = TRUE]]
    /\ UNCHANGED <<step, sheet, correction>>

-------------------------------------------------------------------------------
(* Sheets. *)

\* A sheet for a new application, or one that was opened with an edit link.
OpenSheet(s, r) ==
    /\ sheet' = [sheet EXCEPT ![s] = [open |-> TRUE, asked |-> asked, row |-> r]]
    /\ UNCHANGED <<asked, step, application, correction>>

requiredMetaIgnored(s, answers) == FALSE

requiredMetaMissing(s, answers) ==
    \E k \in Required \cap sheet[s].asked.keys : answers[k] = NoValue

InsertableAnyway(fetched, answers) == TRUE

\* Whether the definitions that the answers refer to are still there.
Insertable(fetched, answers) == fetched.save = asked.save \/ answers = Unanswered

\* addAttendee or updateAttendee: everything the application had is replaced.
submitSheet(s, given) ==
    LET r == sheet[s].row
        answers == Only(given, sheet[s].asked.keys)
    IN
    /\ sheet[s].open
    /\ ~requiredMetaMissing(s, answers)
    /\ Insertable(sheet[s].asked, answers)
    /\ application' = [application EXCEPT ![r] =
                  [stored |-> TRUE, answers |-> answers,
                   since |-> sheet[s].asked.save # asked.save,
                   corrected |-> FALSE]]
    /\ sheet' = [sheet EXCEPT ![s].open = FALSE]
    /\ UNCHANGED <<asked, step, correction>>

-------------------------------------------------------------------------------
(* The organizer's corrections. *)

\* The list is fetched, and "Edit" is chosen for a row.
OpenDialog(r) ==
    /\ application[r].stored
    /\ correction' = [open |-> TRUE, asked |-> asked, row |-> r]
    /\ UNCHANGED <<asked, step, application, sheet>>

\* Nothing is required here.
handleSaveCorrection(given) ==
    LET answers == Only(given, correction.asked.keys) IN
    /\ correction.open
    /\ Insertable(correction.asked, answers)
    /\ application' = [application EXCEPT ![correction.row].answers = answers,
                          ![correction.row].corrected = TRUE]
    /\ correction' = [correction EXCEPT !.open = FALSE]
    /\ UNCHANGED <<asked, step, sheet>>

QuestionsNext ==
    \/ mapMeetToState
    \/ \E keys \in SUBSET Keys : EditQuestions(keys)
    \/ syncMetaDefinitions
    \/ \E s \in Sheets :
          \/ \E r \in Applications : OpenSheet(s, r)
          \/ \E given \in Answers : submitSheet(s, given)
    \/ \E r \in Applications : OpenDialog(r)
    \/ \E given \in Answers : handleSaveCorrection(given)

QuestionsSpec == QuestionsInit /\ [][QuestionsNext]_questionVars

-------------------------------------------------------------------------------
(* Properties. *)

QuestionsTypeOK ==
    /\ asked \in Asked
    /\ step \subseteq Keys
    /\ application \in [Applications -> AnsweredForm]
    /\ sheet \in [Sheets -> Sheet]
    /\ correction \in Correction

\* An application leaves a required question unanswered only if the questions
\* were saved after its sheet was fetched, or the organizer emptied the answer
\* (MeetSignupSheet.tsx:422-430, meets.service.ts:1021-1024).
RequiredIsAnswered ==
    \A r \in Applications :
       LET a == application[r] IN
       a.stored /\ ~a.since /\ ~a.corrected =>
          \A k \in Required \cap asked.keys : a.answers[k] # NoValue

\* What is stored answers a question that is asked now: neither a sheet nor a
\* dialog that is older than the questions brings back an answer to one that is
\* gone (meets.service.ts:704-721, 768-788).
NoOrphanedAnswer ==
    \A r \in Applications, k \in Keys \ asked.keys :
       application[r].answers[k] = NoValue
=============================================================================
