--------------------------- MODULE QuestionsProofs ----------------------------
(***************************************************************************)
(* Proofs about questions and their answers: Questions, Templates and      *)
(* AutoFill, for any number of questions, applications, sheets, saves,     *)
(* templates and tabs.                                                     *)
(***************************************************************************)
EXTENDS Questions, Templates, AutoFill, TLAPS

-------------------------------------------------------------------------------
(* Questions. *)

\* What was fetched is never newer than what is asked, and as long as nothing
\* was saved since, it is the same.
UpToDate(fetched) ==
    /\ fetched.save <= asked.save
    /\ fetched.save = asked.save => fetched.keys = asked.keys

QuestionsInv ==
    /\ QuestionsTypeOK
    /\ \A s \in Sheets : UpToDate(sheet[s].asked)
    /\ UpToDate(correction.asked)
    /\ NoOrphanedAnswer
    /\ RequiredIsAnswered

LEMMA AnswerTypes ==
    /\ Unanswered \in Answers
    /\ \A keys \in SUBSET Keys, given \in Answers : Only(given, keys) \in Answers
    /\ \A k \in Keys : Unanswered[k] = NoValue
    /\ \A keys \in SUBSET Keys, given \in Answers :
          \A k \in Keys \ keys : Only(given, keys)[k] = NoValue
  BY DEF Unanswered, Answers, Only

LEMMA NothingTypes ==
    /\ NothingAsked \in Asked
    /\ NothingStored \in AnsweredForm
  BY AnswerTypes, QuestionsConstants
  DEF NothingAsked, Asked, NothingStored, AnsweredForm

LEMMA QuestionsStart ==
    ASSUME QuestionsInit PROVE QuestionsInv
  <1> USE DEF QuestionsInit
  <1>1. SomeApplication \in Applications
    BY QuestionsConstants DEF SomeApplication
  <1>2. QuestionsTypeOK
    BY <1>1, NothingTypes DEF QuestionsTypeOK, Sheet, Correction
  <1>3. /\ \A s \in Sheets : UpToDate(sheet[s].asked)
        /\ UpToDate(correction.asked)
    BY DEF UpToDate, NothingAsked
  <1>4. NoOrphanedAnswer /\ RequiredIsAnswered
    BY AnswerTypes DEF NoOrphanedAnswer, RequiredIsAnswered, NothingStored
  <1> QED
    BY <1>2, <1>3, <1>4 DEF QuestionsInv

LEMMA SavesCounted ==
    ASSUME NEW fetched \in Asked
    PROVE  fetched.save \in 0 .. MaxSaves /\ fetched.save \in Nat
  <1>1. fetched.save \in 0 .. MaxSaves
    BY DEF Asked
  <1> QED
    BY <1>1, QuestionsConstants

LEMMA SavingKeeps ==
    ASSUME QuestionsInv, syncMetaDefinitions
    PROVE  QuestionsInv'
  <1>1. /\ asked' = [save |-> asked.save + 1, keys |-> step]
        /\ asked.save < MaxSaves
        /\ step' = step /\ sheet' = sheet /\ correction' = correction
        /\ QuestionsTypeOK
    BY DEF QuestionsInv, syncMetaDefinitions
  <1>2. asked \in Asked /\ asked'.save = asked.save + 1
    BY <1>1 DEF QuestionsTypeOK
  <1>3. asked.save + 1 \in 0 .. MaxSaves
    BY <1>1, <1>2, SavesCounted, QuestionsConstants
  <1>4. asked' \in Asked
    BY <1>1, <1>3 DEF Asked, QuestionsTypeOK
  <1>5. ASSUME NEW r \in Applications
        PROVE  /\ application'[r] \in AnsweredForm
               /\ application'[r].answers = Unanswered
               /\ application'[r].since
    BY <1>1, AnswerTypes DEF QuestionsTypeOK, AnsweredForm, syncMetaDefinitions
  <1>6. QuestionsTypeOK'
    <2>1. application' \in [Applications -> AnsweredForm]
      BY <1>5 DEF syncMetaDefinitions
    <2> QED
      BY <1>1, <1>4, <2>1 DEF QuestionsTypeOK
  <1>7. /\ \A s \in Sheets : UpToDate(sheet[s].asked)'
        /\ UpToDate(correction.asked)'
    <2>1. ASSUME NEW fetched \in Asked, fetched.save <= asked.save
          PROVE  fetched.save <= asked'.save /\ fetched.save # asked'.save
      BY <1>2, <2>1, SavesCounted
    <2>2. /\ \A s \in Sheets : sheet[s].asked \in Asked
          /\ correction.asked \in Asked
      BY <1>1 DEF QuestionsTypeOK, Sheet, Correction
    <2> QED
      BY <1>1, <2>1, <2>2 DEF UpToDate, QuestionsInv
  <1>8. NoOrphanedAnswer' /\ RequiredIsAnswered'
    BY <1>5, AnswerTypes DEF NoOrphanedAnswer, RequiredIsAnswered
  <1> QED
    BY <1>6, <1>7, <1>8 DEF QuestionsInv

LEMMA OpeningKeeps ==
    ASSUME QuestionsInv,
           \/ mapMeetToState
           \/ \E keys \in SUBSET Keys : EditQuestions(keys)
           \/ \E s \in Sheets, r \in Applications : OpenSheet(s, r)
           \/ \E r \in Applications : OpenDialog(r)
           \/ UNCHANGED questionVars
    PROVE  QuestionsInv'
  <1> USE DEF QuestionsInv
  <1>1. asked \in Asked /\ UpToDate(asked)
    BY DEF QuestionsTypeOK, UpToDate, Asked
  <1>2. asked' = asked /\ application' = application
    BY DEF mapMeetToState, EditQuestions, OpenSheet, OpenDialog, questionVars
  <1>3. step' \subseteq Keys
    BY DEF mapMeetToState, EditQuestions, OpenSheet, OpenDialog, questionVars,
           QuestionsTypeOK, Asked
  <1>4. /\ sheet' \in [Sheets -> Sheet]
        /\ \A s \in Sheets : sheet'[s].asked \in {sheet[s].asked, asked}
    <2>1. CASE sheet' = sheet
      BY <2>1 DEF QuestionsTypeOK
    <2>2. ASSUME NEW s \in Sheets, NEW r \in Applications, OpenSheet(s, r)
          PROVE  /\ sheet' \in [Sheets -> Sheet]
                 /\ \A t \in Sheets : sheet'[t].asked \in {sheet[t].asked, asked}
      <3>1. [open |-> TRUE, asked |-> asked, row |-> r] \in Sheet
        BY <1>1 DEF Sheet
      <3> QED
        BY <2>2, <3>1 DEF OpenSheet, QuestionsTypeOK
    <2> QED
      BY <2>1, <2>2 DEF mapMeetToState, EditQuestions, OpenDialog, questionVars
  <1>5. /\ correction' \in Correction
        /\ correction'.asked \in {correction.asked, asked}
    <2>1. CASE correction' = correction
      BY <2>1 DEF QuestionsTypeOK
    <2>2. ASSUME NEW r \in Applications, OpenDialog(r)
          PROVE  /\ correction' \in Correction
                 /\ correction'.asked = asked
      BY <1>1, <2>2 DEF OpenDialog, Correction
    <2> QED
      BY <2>1, <2>2 DEF mapMeetToState, EditQuestions, OpenSheet, questionVars
  <1>6. QuestionsTypeOK'
    BY <1>2, <1>3, <1>4, <1>5 DEF QuestionsTypeOK
  <1>7. /\ \A s \in Sheets : UpToDate(sheet[s].asked)'
        /\ UpToDate(correction.asked)'
    BY <1>1, <1>2, <1>4, <1>5 DEF UpToDate
  <1>8. NoOrphanedAnswer' /\ RequiredIsAnswered'
    BY <1>2 DEF NoOrphanedAnswer, RequiredIsAnswered
  <1> QED
    BY <1>6, <1>7, <1>8

LEMMA SubmittingKeeps ==
    ASSUME QuestionsInv, NEW s \in Sheets, NEW given \in Answers,
           submitSheet(s, given)
    PROVE  QuestionsInv'
  <1> USE DEF QuestionsInv
  <1> DEFINE r == sheet[s].row
             answers == Only(given, sheet[s].asked.keys)
             form == [stored |-> TRUE, answers |-> answers,
                      since |-> sheet[s].asked.save # asked.save,
                      corrected |-> FALSE]
  <1>1. /\ sheet[s] \in Sheet /\ r \in Applications
        /\ sheet[s].asked.keys \subseteq Keys
    BY DEF QuestionsTypeOK, Sheet, Asked
  <1>2. answers \in Answers
    BY <1>1, AnswerTypes
  <1>3. /\ application' = [application EXCEPT ![r] = form]
        /\ sheet' = [sheet EXCEPT ![s].open = FALSE]
        /\ asked' = asked /\ step' = step /\ correction' = correction
        /\ ~requiredMetaMissing(s, answers)
        /\ Insertable(sheet[s].asked, answers)
    BY DEF submitSheet
  <1>4. sheet[s].asked.save = asked.save => sheet[s].asked.keys = asked.keys
    BY DEF UpToDate
  <1>5. \A k \in Keys \ asked.keys : answers[k] = NoValue
    BY <1>1, <1>3, <1>4, AnswerTypes DEF Insertable
  <1>6. sheet[s].asked.save = asked.save =>
           \A k \in Required \cap asked.keys : answers[k] # NoValue
    BY <1>3, <1>4 DEF requiredMetaMissing
  <1> HIDE DEF answers, r
  <1>7. /\ ~form.since => sheet[s].asked.save = asked.save
        /\ form.answers = answers
    OBVIOUS
  <1>8. form \in AnsweredForm
    <2>1. (sheet[s].asked.save # asked.save) \in BOOLEAN
      OBVIOUS
    <2> QED
      BY <1>2, <2>1 DEF AnsweredForm
  <1> HIDE DEF form
  <1>9. QuestionsTypeOK'
    BY <1>1, <1>3, <1>8 DEF QuestionsTypeOK, Sheet
  <1>10. /\ \A t \in Sheets : UpToDate(sheet[t].asked)'
         /\ UpToDate(correction.asked)'
    <2>1. \A t \in Sheets : sheet'[t].asked = sheet[t].asked
      BY <1>1, <1>3 DEF QuestionsTypeOK, Sheet
    <2> QED
      BY <1>3, <2>1 DEF UpToDate
  <1>11. \A q \in Applications :
            application'[q] = IF q = r THEN form ELSE application[q]
    BY <1>3 DEF QuestionsTypeOK
  <1>12. NoOrphanedAnswer'
    BY <1>3, <1>5, <1>7, <1>11 DEF NoOrphanedAnswer
  <1>13. RequiredIsAnswered'
    <2>1. ASSUME NEW q \in Applications, application'[q].stored,
                 ~application'[q].since, ~application'[q].corrected,
                 NEW k \in Required \cap asked.keys
          PROVE  application'[q].answers[k] # NoValue
      <3>1. CASE q = r
        BY <1>6, <1>7, <1>11, <2>1, <3>1
      <3>2. CASE q # r
        BY <1>11, <2>1, <3>2 DEF RequiredIsAnswered
      <3> QED
        BY <3>1, <3>2
    <2> QED
      BY <1>3, <2>1 DEF RequiredIsAnswered
  <1> QED
    BY <1>9, <1>10, <1>12, <1>13

LEMMA CorrectingKeeps ==
    ASSUME QuestionsInv, NEW given \in Answers, handleSaveCorrection(given)
    PROVE  QuestionsInv'
  <1> USE DEF QuestionsInv
  <1> DEFINE answers == Only(given, correction.asked.keys)
  <1>1. /\ correction \in Correction /\ correction.row \in Applications
        /\ correction.asked.keys \subseteq Keys
    BY DEF QuestionsTypeOK, Correction, Asked
  <1>2. answers \in Answers
    BY <1>1, AnswerTypes
  <1>3. /\ application' = [application EXCEPT
                             ![correction.row].answers = answers,
                             ![correction.row].corrected = TRUE]
        /\ correction' = [correction EXCEPT !.open = FALSE]
        /\ asked' = asked /\ step' = step /\ sheet' = sheet
        /\ Insertable(correction.asked, answers)
    BY DEF handleSaveCorrection
  <1>4. \A k \in Keys \ asked.keys : answers[k] = NoValue
    BY <1>1, <1>3, AnswerTypes DEF Insertable, UpToDate
  <1> HIDE DEF answers
  <1>5. ASSUME NEW q \in Applications
        PROVE  /\ application'[q] \in AnsweredForm
               /\ q = correction.row => /\ application'[q].corrected
                                        /\ application'[q].answers = answers
               /\ q # correction.row => application'[q] = application[q]
    BY <1>1, <1>2, <1>3 DEF QuestionsTypeOK, AnsweredForm
  <1>6. application' \in [Applications -> AnsweredForm]
    BY <1>3, <1>5 DEF QuestionsTypeOK
  <1>7. correction' \in Correction /\ correction'.asked = correction.asked
    BY <1>1, <1>3 DEF Correction
  <1>8. QuestionsTypeOK'
    BY <1>3, <1>6, <1>7 DEF QuestionsTypeOK
  <1>9. /\ \A t \in Sheets : UpToDate(sheet[t].asked)'
        /\ UpToDate(correction.asked)'
    BY <1>3, <1>7 DEF UpToDate
  <1>10. NoOrphanedAnswer'
    <2>1. ASSUME NEW q \in Applications, NEW k \in Keys \ asked.keys
          PROVE  application'[q].answers[k] = NoValue
      <3>1. CASE q = correction.row
        BY <1>4, <1>5, <3>1
      <3>2. CASE q # correction.row
        BY <1>5, <3>2 DEF NoOrphanedAnswer
      <3> QED
        BY <3>1, <3>2
    <2> QED
      BY <1>3, <2>1 DEF NoOrphanedAnswer
  <1>11. RequiredIsAnswered'
    <2>1. ASSUME NEW q \in Applications, application'[q].stored,
                 ~application'[q].since, ~application'[q].corrected,
                 NEW k \in Required \cap asked.keys
          PROVE  application'[q].answers[k] # NoValue
      <3>1. application'[q] = application[q]
        BY <1>5, <2>1
      <3> QED
        BY <2>1, <3>1 DEF RequiredIsAnswered
    <2> QED
      BY <1>3, <2>1 DEF RequiredIsAnswered
  <1> QED
    BY <1>8, <1>9, <1>10, <1>11

LEMMA QuestionsKept ==
    QuestionsInv /\ [QuestionsNext]_questionVars => QuestionsInv'
  BY SavingKeeps, OpeningKeeps, SubmittingKeeps, CorrectingKeeps
  DEF QuestionsNext

THEOREM QuestionsInvHolds == QuestionsSpec => []QuestionsInv
  BY QuestionsStart, QuestionsKept, PTL DEF QuestionsSpec

\* Every variable of the questions keeps its type.
THEOREM QuestionsTypesHold == QuestionsSpec => []QuestionsTypeOK
  BY QuestionsInvHolds, PTL DEF QuestionsInv

\* An answer is only stored for a question that is asked now
\* (meets.service.ts:704-721, 768-788).
THEOREM AnswersHaveQuestions == QuestionsSpec => []NoOrphanedAnswer
  BY QuestionsInvHolds, PTL DEF QuestionsInv

\* A required question is answered, unless the questions were saved after the
\* sheet was fetched or the organizer emptied the answer
\* (MeetSignupSheet.tsx:422-430).
THEOREM RequiredAreAnswered == QuestionsSpec => []RequiredIsAnswered
  BY QuestionsInvHolds, PTL DEF QuestionsInv

-------------------------------------------------------------------------------
(* Templates. *)

\* What a save of r would take from t is excused.
TakesExcused(t, r) == template[t].keys \ r.keys \subseteq r.excused

Loading(p) == copy[p][editor[p].of].status = "loading"

\* An editor whose template has come, and a save under way, are excused for
\* every question of their template that they do not have.
TemplatesInv ==
    /\ TemplatesTypeOK
    /\ \A p \in TemplateTabs :
          /\ Editing(p) /\ ~Loading(p) => TakesExcused(editor[p].of, editor[p])
          /\ saving[p].of # NoTemplate => TakesExcused(saving[p].of, saving[p])

LEMMA TemplateTypes ==
    /\ NoCopy \in Copy /\ NoEditor \in Editor /\ NotSaving \in Saving
    /\ NoEditor.of = NoTemplate /\ NotSaving.of = NoTemplate
    /\ NoCopy.status = "loading"
  BY DEF NoCopy, Copy, NoEditor, Editor, NotSaving, Saving

LEMMA TemplatesStart ==
    ASSUME TemplatesInit PROVE TemplatesInv
  <1>1. TemplatesTypeOK
    BY TemplateTypes DEF TemplatesInit, TemplatesTypeOK, Template
  <1> QED
    BY <1>1, TemplateTypes DEF TemplatesInit, TemplatesInv, Editing

\* A form that was filled just now.
LEMMA FilledIsExcused ==
    ASSUME TemplatesTypeOK, NEW t \in Templates, NEW c \in Copy
    PROVE  /\ Filled(t, c) \in Editor /\ Filled(t, c).of = t
           /\ c.status # "loading" => TakesExcused(t, Filled(t, c))
  <1>1. /\ c.keys \subseteq TemplateKeys
        /\ template[t].keys \subseteq TemplateKeys
    BY DEF TemplatesTypeOK, Template, Copy
  <1> QED
    BY <1>1 DEF Filled, Editor, TakesExcused

\* Only a committed save changes the questions of a template.
LEMMA EditorKeeps ==
    ASSUME TemplatesInv, NEW p \in TemplateTabs,
           \/ \E t \in Templates : OpenEditor(p, t)
           \/ OpenNew(p)
           \/ CloseEditor(p)
           \/ findTemplateById(p)
           \/ FetchTemplateFails(p)
           \/ \E k \in TemplateKeys : addField(p, k) \/ removeField(p, k)
    PROVE  TemplatesInv'
  <1> USE DEF TemplatesInv
  <1>1. /\ template' = template /\ saving' = saving
        /\ \A q \in TemplateTabs : q # p => editor'[q] = editor[q]
        /\ \A q \in TemplateTabs : q # p => copy'[q] = copy[q]
    BY DEF OpenEditor, OpenNew, CloseEditor, findTemplateById,
           FetchTemplateFails, addField, removeField, TemplatesTypeOK
  <1>2. /\ copy' \in [TemplateTabs -> [Templates -> Copy]]
        /\ editor' \in [TemplateTabs -> Editor]
        /\ Editing(p)' /\ ~Loading(p)' =>
              TakesExcused(editor'[p].of, editor'[p])
    <2> USE DEF TemplatesTypeOK
    <2>1. CASE \E t \in Templates : OpenEditor(p, t)
      <3>1. PICK t \in Templates, c \in Copy :
              /\ copy' = [copy EXCEPT ![p][t] = c]
              /\ editor' = [editor EXCEPT ![p] = Filled(t, c)]
        <4>1. PICK t \in Templates : OpenEditor(p, t)
          BY <2>1
        <4>2. copy[p][t] \in Copy
          OBVIOUS
        <4> QED
          BY <4>1, <4>2, TemplateTypes DEF OpenEditor
      <3>2. copy'[p][t] = c /\ editor'[p] = Filled(t, c)
        BY <3>1
      <3> QED
        BY <3>1, <3>2, FilledIsExcused DEF Loading
    <2>2. CASE OpenNew(p) \/ CloseEditor(p)
      <3>1. copy' = copy /\ editor'[p].of = NoTemplate
        <4>1. [NoEditor EXCEPT !.open = TRUE].of = NoTemplate
          BY DEF NoEditor
        <4> QED
          BY <2>2, <4>1, TemplateTypes DEF OpenNew, CloseEditor
      <3>2. editor' \in [TemplateTabs -> Editor]
        <4>1. [NoEditor EXCEPT !.open = TRUE] \in Editor
          BY DEF NoEditor, Editor
        <4> QED
          BY <2>2, <4>1, TemplateTypes DEF OpenNew, CloseEditor
      <3> QED
        BY <3>1, <3>2 DEF Editing
    <2>3. CASE findTemplateById(p)
      <3> DEFINE t == editor[p].of
                 c == [status |-> "ok", keys |-> template[t].keys]
      <3>1. t \in Templates /\ c \in Copy
        BY <2>3 DEF findTemplateById, Editing, Editor, Copy, Template
      <3>2. /\ copy' = [copy EXCEPT ![p][t] = c]
            /\ \/ editor' = [editor EXCEPT ![p] = Filled(t, c)]
               \/ copy[p][t] = c /\ editor' = editor
        BY <2>3 DEF findTemplateById
      <3>3. copy'[p][t] = c
        BY <3>1, <3>2
      <3>4. CASE editor' = [editor EXCEPT ![p] = Filled(t, c)]
        <4>1. editor'[p] = Filled(t, c)
          BY <3>4
        <4> QED
          BY <3>1, <3>2, <3>4, <4>1, FilledIsExcused
      <3>5. CASE copy[p][t] = c /\ editor' = editor
        <4>1. Editing(p) /\ ~Loading(p)
          BY <2>3, <3>5 DEF findTemplateById, Loading
        <4> QED
          BY <3>1, <3>2, <3>5, <4>1
      <3> QED
        BY <3>2, <3>4, <3>5
    <2>4. CASE FetchTemplateFails(p)
      <3>1. editor[p].of \in Templates
        BY <2>4 DEF FetchTemplateFails, Editing, Editor
      <3>2. /\ copy' = [copy EXCEPT ![p][editor[p].of].status = "failed"]
            /\ editor' = [editor EXCEPT ![p].excused = TemplateKeys]
        BY <2>4 DEF FetchTemplateFails
      <3>3. /\ editor'[p].of = editor[p].of
            /\ editor'[p].excused = TemplateKeys
            /\ editor' \in [TemplateTabs -> Editor]
        BY <3>2 DEF Editor
      <3>4. copy' \in [TemplateTabs -> [Templates -> Copy]]
        <4>1. [copy[p][editor[p].of] EXCEPT !.status = "failed"] \in Copy
          <5>1. copy[p][editor[p].of] \in Copy
            BY <3>1
          <5>2. \A c \in Copy : [c EXCEPT !.status = "failed"] \in Copy
            BY DEF Copy
          <5> QED
            BY <5>1, <5>2
        <4>2. copy[p] \in [Templates -> Copy]
          OBVIOUS
        <4>3. [copy[p] EXCEPT ![editor[p].of] =
                 [copy[p][editor[p].of] EXCEPT !.status = "failed"]]
                \in [Templates -> Copy]
          BY <3>1, <4>1, <4>2
        <4>4. copy' = [copy EXCEPT ![p] = [copy[p] EXCEPT ![editor[p].of] =
                         [copy[p][editor[p].of] EXCEPT !.status = "failed"]]]
          BY <3>2
        <4> QED
          BY <4>3, <4>4
      <3>5. template[editor[p].of].keys \subseteq TemplateKeys
        BY <3>1 DEF Template
      <3> QED
        BY <3>3, <3>4, <3>5 DEF TakesExcused
    <2>5. CASE \E k \in TemplateKeys : addField(p, k) \/ removeField(p, k)
      <3>1. PICK k \in TemplateKeys :
              /\ copy' = copy
              /\ \/ editor' = [editor EXCEPT ![p].keys = @ \cup {k}]
                 \/ editor' = [editor EXCEPT ![p].keys = @ \ {k},
                                             ![p].excused = @ \cup {k}]
        BY <2>5 DEF addField, removeField
      <3>2. /\ editor' \in [TemplateTabs -> Editor]
            /\ editor'[p].of = editor[p].of
            /\ editor'[p].open = editor[p].open
            /\ editor[p].keys \ {k} \subseteq editor'[p].keys
            /\ editor[p].excused \subseteq editor'[p].excused
            /\ k \in editor'[p].keys \/ k \in editor'[p].excused
        <4>1. /\ [editor[p] EXCEPT !.keys = @ \cup {k}] \in Editor
              /\ [editor[p] EXCEPT !.keys = @ \ {k}, !.excused = @ \cup {k}]
                    \in Editor
          BY DEF Editor
        <4>2. editor'[p] \in {[editor[p] EXCEPT !.keys = @ \cup {k}],
                [editor[p] EXCEPT !.keys = @ \ {k}, !.excused = @ \cup {k}]}
          BY <3>1
        <4>3. \A q \in TemplateTabs : q # p => editor'[q] = editor[q]
          BY <1>1
        <4>4. editor' \in [TemplateTabs -> Editor]
          BY <3>1, <4>1
        <4> QED
          BY <4>2, <4>4 DEF Editor
      <3>3. /\ Editing(p)' => Editing(p)
            /\ Loading(p)' = Loading(p)
        BY <3>1, <3>2 DEF Editing, Loading
      <3>4. TakesExcused(editor[p].of, editor[p]) =>
              TakesExcused(editor[p].of, editor'[p])
        BY <3>2 DEF TakesExcused
      <3> QED
        BY <1>1, <3>1, <3>2, <3>3, <3>4 DEF TakesExcused
    <2> QED
      BY <2>1, <2>2, <2>3, <2>4, <2>5
  <1> QED
    BY <1>1, <1>2 DEF TemplatesTypeOK, Editing, Loading, TakesExcused

LEMMA SaveStartsOrEnds ==
    ASSUME TemplatesInv, NEW p \in TemplateTabs,
           SaveTemplate(p) \/ SaveTemplateFails(p) \/ TemplateSaved(p)
    PROVE  TemplatesInv'
  <1> USE DEF TemplatesInv, TemplatesTypeOK
  <1>1. /\ template' = template /\ copy' = copy
        /\ editor' \in [TemplateTabs -> Editor]
        /\ \A q \in TemplateTabs : editor'[q] = editor[q] \/ editor'[q] = NoEditor
    BY TemplateTypes DEF SaveTemplate, SaveTemplateFails, TemplateSaved
  <1>2. /\ saving' \in [TemplateTabs -> Saving]
        /\ \A q \in TemplateTabs : q # p => saving'[q] = saving[q]
    <2>1. [step |-> "writing", of |-> editor[p].of, keys |-> editor[p].keys,
           excused |-> editor[p].excused] \in Saving
      BY DEF Saving, Editor
    <2> QED
      BY <2>1, TemplateTypes DEF SaveTemplate, SaveTemplateFails, TemplateSaved
  <1>3. saving'[p].of # NoTemplate => TakesExcused(saving'[p].of, saving'[p])
    <2>1. CASE SaveTemplate(p)
      <3>1. /\ saving'[p].of = editor[p].of
            /\ saving'[p].keys = editor[p].keys
            /\ saving'[p].excused = editor[p].excused
        BY <2>1 DEF SaveTemplate
      <3>2. editor[p].of # NoTemplate => Editing(p) /\ ~Loading(p)
        BY <2>1 DEF SaveTemplate, Busy, Editing, Loading
      <3> QED
        BY <3>1, <3>2 DEF TakesExcused
    <2>2. CASE SaveTemplateFails(p) \/ TemplateSaved(p)
      <3>1. saving'[p] = NotSaving
        BY <2>2 DEF SaveTemplateFails, TemplateSaved
      <3> QED
        BY <3>1, TemplateTypes
    <2> QED
      BY <2>1, <2>2
  <1> QED
    BY <1>1, <1>2, <1>3, TemplateTypes DEF Editing, Loading, TakesExcused

\* Whoever has something for the template that is saved is excused for all.
LEMMA CommitKeeps ==
    ASSUME TemplatesInv, NEW p \in TemplateTabs,
           NEW t \in Templates, NEW row \in Template, Commit(p, t, row)
    PROVE  TemplatesInv'
  <1> USE DEF TemplatesInv, TemplatesTypeOK
  <1>1. /\ template' = [template EXCEPT ![t] = row] /\ copy' = copy
        /\ template' \in [Templates -> Template]
        /\ editor' = [q \in TemplateTabs |-> Outdated(t, editor[q])]
    BY DEF Commit
  <1>2. \A q \in TemplateTabs :
           saving'[q] \in {NotSaving, [NotSaving EXCEPT !.step = "written"],
                           Outdated(t, saving[q])}
    BY DEF Commit
  <1>3. [NotSaving EXCEPT !.step = "written"] \in Saving
        /\ [NotSaving EXCEPT !.step = "written"].of = NoTemplate
    BY DEF NotSaving, Saving
  <1>4. ASSUME NEW r \in Editor \cup Saving
        PROVE  /\ Outdated(t, r).of = r.of /\ Outdated(t, r).keys = r.keys
               /\ r \in Editor => Outdated(t, r) \in Editor
                                  /\ Outdated(t, r).open = r.open
               /\ r \in Saving => Outdated(t, r) \in Saving
               /\ r.of = t => Outdated(t, r).excused = TemplateKeys
               /\ r.of # t => Outdated(t, r) = r
    BY <1>4 DEF Outdated, Editor, Saving
  <1>5. saving' \in [TemplateTabs -> Saving]
    <2>1. \E how \in {"written", "none"} :
            saving' = [q \in TemplateTabs |->
                         IF q # p THEN Outdated(t, saving[q])
                         ELSE IF how = "none" THEN NotSaving
                         ELSE [NotSaving EXCEPT !.step = how]]
      BY DEF Commit
    <2> QED
      BY <1>3, <1>4, <2>1, TemplateTypes
  <1>6. editor' \in [TemplateTabs -> Editor]
    BY <1>1, <1>4
  <1>7. ASSUME NEW u \in Templates, NEW r \in Editor \cup Saving, r.of = u,
               u # t => TakesExcused(u, r)
        PROVE  TakesExcused(u, Outdated(t, r))'
    <2>1. CASE u = t
      BY <1>1, <1>4, <1>7, <2>1 DEF TakesExcused, Template
    <2>2. CASE u # t
      BY <1>1, <1>4, <1>7, <2>2 DEF TakesExcused
    <2> QED
      BY <2>1, <2>2
  <1>8. ASSUME NEW q \in TemplateTabs, Editing(q)', ~Loading(q)'
        PROVE  TakesExcused(editor[q].of, editor[q])'
    <2>1. editor'[q] = Outdated(t, editor[q]) /\ editor[q] \in Editor
      BY <1>1
    <2>2. /\ editor'[q].of = editor[q].of
          /\ Editing(q) /\ ~Loading(q) /\ editor[q].of \in Templates
      BY <1>1, <1>4, <1>8, <2>1 DEF Editing, Loading, Editor
    <2>3. TakesExcused(editor[q].of, editor[q])
      BY <2>2
    <2> QED
      BY <1>7, <2>1, <2>2, <2>3 DEF TakesExcused
  <1>9. ASSUME NEW q \in TemplateTabs, saving'[q].of # NoTemplate
        PROVE  TakesExcused(saving[q].of, saving[q])'
    <2>1. saving'[q] = Outdated(t, saving[q]) /\ saving[q] \in Saving
      BY <1>2, <1>3, <1>9, TemplateTypes
    <2>2. saving'[q].of = saving[q].of /\ saving[q].of \in Templates
      BY <1>4, <1>9, <2>1 DEF Saving
    <2>3. TakesExcused(saving[q].of, saving[q])
      BY <1>9, <2>2
    <2> QED
      BY <1>7, <2>1, <2>2, <2>3 DEF TakesExcused
  <1> QED
    BY <1>1, <1>5, <1>6, <1>8, <1>9

LEMMA TemplateWritesKeep ==
    ASSUME TemplatesInv,
           \/ \E p \in TemplateTabs : createTemplate(p) \/ updateTemplate(p)
           \/ \E t \in Templates : deleteTemplate(t)
           \/ UNCHANGED templateVars
    PROVE  TemplatesInv'
  <1> USE DEF TemplatesInv, TemplatesTypeOK
  <1>1. CASE \E p \in TemplateTabs : createTemplate(p) \/ updateTemplate(p)
    <2>1. PICK p \in TemplateTabs : createTemplate(p) \/ updateTemplate(p)
      BY <1>1
    <2>2. PICK t \in Templates, row \in Template : Commit(p, t, row)
      <3>1. saving[p] \in Saving
        OBVIOUS
      <3>2. CASE createTemplate(p)
        BY <3>1, <3>2 DEF createTemplate, Saving, Template
      <3>3. CASE updateTemplate(p)
        <4>1. saving[p].of \in Templates
          BY <3>1, <3>3 DEF updateTemplate, Saving
        <4>2. [template[saving[p].of] EXCEPT !.keys = saving[p].keys] \in Template
          BY <3>1, <4>1 DEF Saving, Template
        <4> QED
          BY <3>3, <4>1, <4>2 DEF updateTemplate
      <3> QED
        BY <2>1, <3>2, <3>3
    <2> QED
      BY <2>2, CommitKeeps
  <1>2. CASE \E t \in Templates : deleteTemplate(t)
    <2>1. /\ template' \in [Templates -> Template]
          /\ \A t \in Templates : template'[t].keys = template[t].keys
          /\ UNCHANGED <<copy, editor, saving>>
      BY <1>2 DEF deleteTemplate, Template
    <2>2. ASSUME NEW t \in Templates, NEW r, TakesExcused(t, r)
          PROVE  template'[t].keys \ r.keys \subseteq r.excused
      BY <2>1, <2>2 DEF TakesExcused
    <2>3. \A p \in TemplateTabs :
             /\ Editing(p) => editor[p].of \in Templates
             /\ saving[p].of # NoTemplate => saving[p].of \in Templates
      BY DEF Editing, Editor, Saving
    <2> QED
      BY <2>1, <2>2, <2>3 DEF Editing, Loading, TakesExcused
  <1>3. CASE UNCHANGED templateVars
    BY <1>3 DEF templateVars, Editing, Loading, TakesExcused
  <1> QED
    BY <1>1, <1>2, <1>3

LEMMA TemplatesKept ==
    TemplatesInv /\ [TemplatesNext]_templateVars => TemplatesInv'
  BY EditorKeeps, SaveStartsOrEnds, TemplateWritesKeep DEF TemplatesNext

THEOREM TemplatesInvHolds == TemplatesSpec => []TemplatesInv
  BY TemplatesStart, TemplatesKept, PTL DEF TemplatesSpec

\* A question only goes from a template under a save if it was removed in the
\* editor, or the editor could not know it
\* (CreateOrEditTemplateModal.tsx:69-102, 151-205).
THEOREM RemovedOnPurpose == TemplatesSpec => QuestionsOnlyRemoved
  <1>1. ASSUME TemplatesInv, NEW p \in TemplateTabs, NEW t \in Templates,
               updateTemplate(p), saving[p].of = t
        PROVE  template[t].keys \ template'[t].keys \subseteq saving[p].excused
    <2>1. template'[t].keys = saving[p].keys
      BY <1>1 DEF updateTemplate, Commit, TemplatesInv, TemplatesTypeOK, Template
    <2>2. TakesExcused(t, saving[p])
      BY <1>1 DEF TemplatesInv, updateTemplate
    <2> QED
      BY <2>1, <2>2 DEF TakesExcused
  <1>2. TemplatesInv =>
          [\A p \in TemplateTabs, t \in Templates :
              updateTemplate(p) /\ saving[p].of = t =>
                 template[t].keys \ template'[t].keys \subseteq saving[p].excused
          ]_templateVars
    BY <1>1
  <1> QED
    BY <1>2, TemplatesInvHolds, PTL DEF QuestionsOnlyRemoved

-------------------------------------------------------------------------------
(* AutoFill. *)

\* Saving r would only delete what it is excused for.
Keeps(r) ==
    \A k \in AutoFillKeys :
       saved[k] # NoAnswer => r.answers[k] # NoAnswer \/ k \in r.excused

\* The form that was sent: what has been emptied since is excused.
StillShows(form, request) ==
    /\ form.open
    /\ form.filled \/ request.answers = Empty
    /\ \A k \in AutoFillKeys :
          request.answers[k] # NoAnswer =>
             form.answers[k] # NoAnswer \/ k \in form.excused

\* An open form is filled as soon as there is something to fill.
FilledSoon(form, fetched) ==
    \/ ~form.open
    \/ form.filled
    \/ fetched.keys = {}
    \/ fetched.answered = "loading"

AutoFillInv ==
    /\ AutoFillTypeOK
    /\ \A t \in AutoFillTabs :
          /\ Keeps(autoFill[t])
          /\ autoFill[t].filled \/ autoFill[t].answers = Empty
          /\ FilledSoon(autoFill[t], tabAnswers[t])
          /\ sent[t] = NothingSent \/ Keeps(sent[t])
          /\ sent[t].same => StillShows(autoFill[t], sent[t])

LEMMA EmptyTypes ==
    /\ Empty \in Saves /\ \A k \in AutoFillKeys : Empty[k] = NoAnswer
    /\ Nothing \in TabAnswers /\ NothingSent \in AutoFillRequest
    /\ ~NothingSent.same
    /\ NotOpen \in FilledForm /\ NotOpen.excused = AutoFillKeys
    /\ ~NotOpen.open /\ ~NotOpen.filled /\ NotOpen.answers = Empty
  <1>1. Empty \in Saves
    BY DEF Empty, Saves
  <1> QED
    BY <1>1
    DEF Empty, Nothing, TabAnswers, FetchStatus, NothingSent, AutoFillRequest,
        NotOpen, FilledForm

LEMMA AutoFillStart ==
    ASSUME AutoFillInit PROVE AutoFillInv
  <1>1. AutoFillTypeOK
    BY EmptyTypes DEF AutoFillInit, AutoFillTypeOK
  <1> QED
    BY <1>1, EmptyTypes DEF AutoFillInit, AutoFillInv, Keeps, FilledSoon

\* A form that is filled now keeps what is stored.
LEMMA RenderedKeeps ==
    ASSUME saved \in Saves, NEW form \in FilledForm, NEW fetched \in TabAnswers
    PROVE  /\ Rendered(form, fetched) \in FilledForm
           /\ Rendered(form, fetched).open = form.open
           /\ FilledSoon(Rendered(form, fetched), fetched)
           /\ \/ Rendered(form, fetched) = form
              \/ /\ Rendered(form, fetched).filled /\ ~form.filled
                 /\ Keeps(Rendered(form, fetched))
                 /\ fetched.answered = "ok" /\ fetched.answers # saved =>
                       Rendered(form, fetched).excused = AutoFillKeys
  <1> DEFINE fills == /\ form.open /\ ~form.filled /\ fetched.keys # {}
                      /\ fetched.answered # "loading"
             filled == [open |-> TRUE, filled |-> TRUE,
                        answers |-> [k \in AutoFillKeys |->
                                       IF k \in fetched.keys
                                         THEN fetched.answers[k]
                                         ELSE NoAnswer],
                        excused |-> IF Overtaken(fetched) THEN AutoFillKeys
                                    ELSE AutoFillKeys \ fetched.keys]
  <1>1. Rendered(form, fetched) = IF fills THEN filled ELSE form
    BY DEF Rendered
  <1>2. /\ fetched.keys \subseteq AutoFillKeys /\ fetched.answers \in Saves
        /\ fetched.answered \in FetchStatus
    BY DEF TabAnswers
  <1>3. CASE ~fills
    BY <1>1, <1>3 DEF FilledSoon
  <1>4. CASE fills
    <2>1. /\ filled.open /\ filled.filled /\ form.open /\ ~form.filled
          /\ Rendered(form, fetched) = filled
      BY <1>1, <1>4
    <2>2. filled.answers \in Saves
      BY <1>2 DEF Saves
    <2>3. filled \in FilledForm
      BY <2>2 DEF FilledForm
    <2>4. ASSUME ~Overtaken(fetched) PROVE fetched.answers = saved
      BY <1>2, <1>4, <2>4 DEF Overtaken, FetchStatus
    <2>5. Keeps(filled)
      BY <2>4 DEF Keeps
    <2>6. fetched.answered = "ok" /\ fetched.answers # saved =>
            filled.excused = AutoFillKeys
      BY DEF Overtaken
    <2> QED
      BY <2>1, <2>3, <2>5, <2>6 DEF FilledSoon
  <1> QED
    BY <1>3, <1>4

\* What one page does of itself leaves the others and what is stored alone.
LEMMA FilledKeeps ==
    ASSUME AutoFillInv, NEW t \in AutoFillTabs, UNCHANGED <<questions, saved>>,
           NEW form \in FilledForm, NEW fetched \in TabAnswers,
           NEW request \in AutoFillRequest,
           tabAnswers' = [tabAnswers EXCEPT ![t] = fetched],
           autoFill' = [autoFill EXCEPT ![t] = form],
           sent' = [sent EXCEPT ![t] = request],
           Keeps(form), form.filled \/ form.answers = Empty,
           FilledSoon(form, fetched),
           request = NothingSent \/ Keeps(request),
           request.same => StillShows(form, request)
    PROVE  AutoFillInv'
  <1>1. AutoFillTypeOK'
    BY DEF AutoFillInv, AutoFillTypeOK
  <1>2. ASSUME NEW u \in AutoFillTabs
        PROVE  /\ tabAnswers'[u] = IF u = t THEN fetched ELSE tabAnswers[u]
               /\ autoFill'[u] = IF u = t THEN form ELSE autoFill[u]
               /\ sent'[u] = IF u = t THEN request ELSE sent[u]
    BY DEF AutoFillInv, AutoFillTypeOK
  <1>3. ASSUME NEW u \in AutoFillTabs
        PROVE  (/\ Keeps(autoFill[u])
                /\ autoFill[u].filled \/ autoFill[u].answers = Empty
                /\ FilledSoon(autoFill[u], tabAnswers[u])
                /\ sent[u] = NothingSent \/ Keeps(sent[u])
                /\ sent[u].same => StillShows(autoFill[u], sent[u]))'
    <2>1. CASE u = t
      BY <1>2, <2>1 DEF Keeps, FilledSoon, StillShows
    <2>2. CASE u # t
      BY <1>2, <2>2 DEF AutoFillInv, Keeps, FilledSoon, StillShows
    <2> QED
      BY <2>1, <2>2
  <1> QED
    BY <1>1, <1>3 DEF AutoFillInv

\* A page that renders what it has fetched.
LEMMA RenderKeeps ==
    ASSUME AutoFillInv, NEW t \in AutoFillTabs,
           UNCHANGED <<questions, saved, sent>>,
           NEW form \in FilledForm, NEW fetched \in TabAnswers,
           Render(t, form, fetched),
           Keeps(form), form.filled \/ form.answers = Empty,
           sent[t].same => StillShows(form, sent[t])
    PROVE  AutoFillInv'
  <1> DEFINE next == Rendered(form, fetched)
  <1>1. saved \in Saves /\ sent \in [AutoFillTabs -> AutoFillRequest]
    BY DEF AutoFillInv, AutoFillTypeOK
  <1>2. /\ next \in FilledForm /\ next.open = form.open
        /\ FilledSoon(next, fetched)
        /\ next = form \/ (next.filled /\ ~form.filled /\ Keeps(next))
    BY <1>1, RenderedKeeps
  <1>3. sent[t].same => StillShows(next, sent[t])
    BY <1>2, EmptyTypes DEF StillShows
  <1>4. Keeps(next) /\ (next.filled \/ next.answers = Empty)
    BY <1>2
  <1>5. /\ tabAnswers' = [tabAnswers EXCEPT ![t] = fetched]
        /\ autoFill' = [autoFill EXCEPT ![t] = next]
    BY DEF Render
  <1>6. sent' = [sent EXCEPT ![t] = sent[t]] /\ sent[t] \in AutoFillRequest
    BY <1>1
  <1>7. sent[t] = NothingSent \/ Keeps(sent[t])
    BY DEF AutoFillInv
  <1> HIDE DEF next
  <1> QED
    BY <1>2, <1>3, <1>4, <1>5, <1>6, <1>7, FilledKeeps

LEMMA FetchingKeeps ==
    ASSUME AutoFillInv, NEW t \in AutoFillTabs,
           \/ OpenAutoFill(t)
           \/ FetchQuestions(t) \/ FetchAnswers(t) \/ FetchFails(t)
    PROVE  AutoFillInv'
  <1>1. /\ autoFill[t] \in FilledForm /\ tabAnswers[t] \in TabAnswers
        /\ questions \subseteq AutoFillKeys /\ saved \in Saves
        /\ Keeps(autoFill[t])
        /\ autoFill[t].filled \/ autoFill[t].answers = Empty
        /\ sent[t].same => StillShows(autoFill[t], sent[t])
    BY DEF AutoFillInv, AutoFillTypeOK
  <1>2. CASE OpenAutoFill(t)
    <2> DEFINE form == [NotOpen EXCEPT !.open = TRUE]
               fetched == [tabAnswers[t] EXCEPT
                             !.answered = IF @ = "failed" THEN "loading" ELSE @]
    <2>1. form \in FilledForm /\ Keeps(form) /\ form.answers = Empty
      BY EmptyTypes DEF NotOpen, FilledForm, Keeps
    <2>2. fetched \in TabAnswers
      BY <1>1 DEF TabAnswers, FetchStatus
    <2>3. /\ ~sent[t].same /\ Render(t, form, fetched)
          /\ UNCHANGED <<questions, saved, sent>>
      BY <1>1, <1>2 DEF OpenAutoFill, StillShows
    <2> HIDE DEF form, fetched
    <2> QED
      BY <2>1, <2>2, <2>3, RenderKeeps
  <1>3. CASE FetchQuestions(t) \/ FetchAnswers(t) \/ FetchFails(t)
    <2>1. PICK fetched \in TabAnswers : /\ Render(t, autoFill[t], fetched)
                                        /\ UNCHANGED <<questions, saved, sent>>
      <3>1. /\ [tabAnswers[t] EXCEPT !.asked = TRUE, !.keys = questions]
                  \in TabAnswers
            /\ [tabAnswers[t] EXCEPT !.answered = "ok", !.answers = saved]
                  \in TabAnswers
            /\ [tabAnswers[t] EXCEPT !.answered = "failed"] \in TabAnswers
        BY <1>1 DEF TabAnswers, FetchStatus
      <3> QED
        BY <1>3, <3>1 DEF FetchQuestions, FetchAnswers, FetchFails
    <2> QED
      BY <1>1, <2>1, RenderKeeps
  <1> QED
    BY <1>2, <1>3

\* Typing empties an answer only on purpose; a request takes the form as it is.
LEMMA UsingKeeps ==
    ASSUME AutoFillInv, NEW t \in AutoFillTabs,
           \/ CloseAutoFill(t) \/ Forget(t)
           \/ \E k \in AutoFillKeys, v \in AutoFillValues \cup {NoAnswer} :
                 setAutoFillValue(t, k, v)
           \/ handleSaveAutoFill(t) \/ SaveFails(t)
    PROVE  AutoFillInv'
  <1> DEFINE form == autoFill[t]
             request == sent[t]
  <1>1. /\ AutoFillTypeOK
        /\ form \in FilledForm /\ tabAnswers[t] \in TabAnswers
        /\ request \in AutoFillRequest
        /\ Keeps(form) /\ (form.filled \/ form.answers = Empty)
        /\ FilledSoon(form, tabAnswers[t])
        /\ request = NothingSent \/ Keeps(request)
        /\ request.same => StillShows(form, request)
    BY DEF AutoFillInv, AutoFillTypeOK
  <1>2. /\ tabAnswers = [tabAnswers EXCEPT ![t] = tabAnswers[t]]
        /\ autoFill = [autoFill EXCEPT ![t] = autoFill[t]]
        /\ sent = [sent EXCEPT ![t] = sent[t]]
    BY <1>1 DEF AutoFillTypeOK
  <1>3. CASE CloseAutoFill(t)
    <2> DEFINE left == [request EXCEPT !.same = FALSE]
    <2>1. /\ left \in AutoFillRequest /\ ~left.same
          /\ left.answers = request.answers /\ left.excused = request.excused
          /\ request = NothingSent => left = NothingSent
      <3>1. left \in AutoFillRequest /\ ~left.same
            /\ left.answers = request.answers /\ left.excused = request.excused
        BY <1>1 DEF AutoFillRequest
      <3>2. \A r \in AutoFillRequest : ~r.same => [r EXCEPT !.same = FALSE] = r
        BY DEF AutoFillRequest
      <3> QED
        BY <1>1, <3>1, <3>2, EmptyTypes
    <2>2. left = NothingSent \/ Keeps(left)
      BY <1>1, <2>1 DEF Keeps
    <2>3. Keeps(NotOpen) /\ FilledSoon(NotOpen, tabAnswers[t])
      BY EmptyTypes DEF Keeps, FilledSoon
    <2>4. /\ UNCHANGED <<questions, saved, tabAnswers>>
          /\ autoFill' = [autoFill EXCEPT ![t] = NotOpen]
          /\ sent' = [sent EXCEPT ![t] = left]
      BY <1>3 DEF CloseAutoFill
    <2> HIDE DEF left
    <2> QED
      BY <1>1, <1>2, <2>1, <2>2, <2>3, <2>4, EmptyTypes, FilledKeeps
  <1>4. CASE Forget(t)
    <2>1. /\ ~form.open /\ UNCHANGED <<questions, saved, autoFill, sent>>
          /\ tabAnswers' = [tabAnswers EXCEPT ![t] = Nothing]
      BY <1>4 DEF Forget
    <2>2. FilledSoon(form, Nothing)
      BY <2>1 DEF FilledSoon
    <2> QED
      BY <1>1, <1>2, <2>1, <2>2, EmptyTypes, FilledKeeps
  <1>5. CASE \E k \in AutoFillKeys, v \in AutoFillValues \cup {NoAnswer} :
                setAutoFillValue(t, k, v)
    <2>1. PICK k \in AutoFillKeys, v \in AutoFillValues \cup {NoAnswer} :
             setAutoFillValue(t, k, v)
      BY <1>5
    <2> DEFINE next == [form EXCEPT !.answers[k] = v,
                          !.excused = IF v = NoAnswer THEN @ \cup {k} ELSE @]
    <2>2. form.open /\ form.filled
      BY <1>1, <2>1 DEF setAutoFillValue, Usable, FilledSoon
    <2>3. /\ UNCHANGED <<questions, saved, tabAnswers, sent>>
          /\ autoFill' = [autoFill EXCEPT ![t] = next]
      BY <2>1 DEF setAutoFillValue
    <2>4. /\ next.open = form.open /\ next.filled = form.filled
          /\ \A j \in AutoFillKeys :
                next.answers[j] = IF j = k THEN v ELSE form.answers[j]
          /\ form.excused \subseteq next.excused
          /\ v = NoAnswer => k \in next.excused
      BY <1>1 DEF FilledForm, Saves
    <2>5. next \in FilledForm
      <3>1. [form.answers EXCEPT ![k] = v] \in Saves
        BY <1>1 DEF FilledForm, Saves
      <3>2. next.answers = [form.answers EXCEPT ![k] = v]
        BY <1>1 DEF FilledForm
      <3>3. next.excused \subseteq AutoFillKeys
        BY <1>1 DEF FilledForm
      <3> QED
        BY <1>1, <3>1, <3>2, <3>3 DEF FilledForm
    <2> HIDE DEF next
    <2>6. Keeps(next) /\ FilledSoon(next, tabAnswers[t])
      BY <1>1, <2>2, <2>4 DEF Keeps, FilledSoon
    <2>7. request.same => StillShows(next, request)
      BY <1>1, <2>4 DEF StillShows
    <2> QED
      BY <1>1, <1>2, <2>2, <2>3, <2>4, <2>5, <2>6, <2>7, FilledKeeps
  <1>6. CASE handleSaveAutoFill(t)
    <2> DEFINE known == tabAnswers[t]
               answered == {k \in AutoFillKeys : known.answers[k] # NoAnswer}
               new == [keys |-> known.keys \cup answered,
                       answers |-> form.answers,
                       excused |-> form.excused, same |-> TRUE]
    <2>1. /\ form.open
          /\ UNCHANGED <<questions, saved, tabAnswers, autoFill>>
          /\ sent' = [sent EXCEPT ![t] = new]
      BY <1>6 DEF handleSaveAutoFill, Usable
    <2>2. new \in AutoFillRequest
      BY <1>1 DEF AutoFillRequest, FilledForm, TabAnswers
    <2>3. Keeps(new) /\ StillShows(form, new)
      BY <1>1, <2>1 DEF Keeps, StillShows
    <2> HIDE DEF new
    <2> QED
      BY <1>1, <1>2, <2>1, <2>2, <2>3, FilledKeeps
  <1>7. CASE SaveFails(t)
    <2>1. /\ UNCHANGED <<questions, saved, tabAnswers, autoFill>>
          /\ sent' = [sent EXCEPT ![t] = NothingSent]
      BY <1>7 DEF SaveFails
    <2> QED
      BY <1>1, <1>2, <2>1, EmptyTypes, FilledKeeps
  <1> QED
    BY <1>3, <1>4, <1>5, <1>6, <1>7

\* A save excuses every other form and request, and leaves its own form with
\* what it wrote.
LEMMA WritingKeeps ==
    ASSUME AutoFillInv, NEW t \in AutoFillTabs, saveUserMetaValues(t)
    PROVE  AutoFillInv'
  <1>1. /\ AutoFillTypeOK /\ questions' = questions /\ sent[t] # NothingSent
        /\ sent[t] \in AutoFillRequest /\ saved \in Saves
        /\ \A u \in AutoFillTabs : /\ autoFill[u] \in FilledForm
                                    /\ tabAnswers[u] \in TabAnswers
                                    /\ sent[u] \in AutoFillRequest
    BY DEF AutoFillInv, AutoFillTypeOK, saveUserMetaValues
  <1>2. saved' = [k \in AutoFillKeys |->
                    IF k \in sent[t].keys THEN sent[t].answers[k] ELSE saved[k]]
    BY DEF saveUserMetaValues
  <1>3. saved' \in Saves
    BY <1>1, <1>2 DEF Saves, AutoFillRequest
  <1>4. sent' = [u \in AutoFillTabs |->
                   IF u = t \/ sent[u] = NothingSent THEN NothingSent
                   ELSE [sent[u] EXCEPT !.excused = AutoFillKeys]]
    BY DEF saveUserMetaValues
  <1>5. ASSUME NEW u \in AutoFillTabs
        PROVE  /\ sent'[u] \in AutoFillRequest
               /\ \/ sent'[u] = NothingSent
                  \/ /\ u # t /\ sent'[u].excused = AutoFillKeys
                     /\ sent'[u].answers = sent[u].answers
                     /\ sent'[u].same = sent[u].same
    BY <1>1, <1>4, EmptyTypes DEF AutoFillRequest
  <1> DEFINE old == OldForms(t)
  <1>6. ASSUME NEW u \in AutoFillTabs
        PROVE  /\ old[u] \in FilledForm
               /\ old[u].open = autoFill[u].open
               /\ old[u].filled = autoFill[u].filled
               /\ old[u].answers = autoFill[u].answers
               /\ \/ u = t /\ sent[t].same /\ old[u] = autoFill[u]
                  \/ old[u].excused = AutoFillKeys
    <2>1. [autoFill[u] EXCEPT !.excused = AutoFillKeys] \in FilledForm
      BY <1>1 DEF FilledForm
    <2> QED
      BY <1>1, <2>1 DEF OldForms, FilledForm
  <1> DEFINE KeepsThen(r) ==
               \A k \in AutoFillKeys : saved'[k] # NoAnswer =>
                  r.answers[k] # NoAnswer \/ k \in r.excused
  <1>7. ASSUME NEW u \in AutoFillTabs
        PROVE  /\ KeepsThen(old[u])
               /\ old[u].filled \/ old[u].answers = Empty
               /\ FilledSoon(old[u], tabAnswers[u])
    <2>1. /\ Keeps(autoFill[u])
          /\ autoFill[u].filled \/ autoFill[u].answers = Empty
          /\ FilledSoon(autoFill[u], tabAnswers[u])
          /\ sent[u].same => StillShows(autoFill[u], sent[u])
      BY DEF AutoFillInv
    <2>2. KeepsThen(old[u])
      <3>1. CASE old[u].excused = AutoFillKeys
        BY <3>1
      <3>2. CASE u = t /\ sent[t].same /\ old[u] = autoFill[u]
        BY <1>2, <2>1, <3>2 DEF Keeps, StillShows
      <3> QED
        BY <1>6, <3>1, <3>2
    <2> QED
      BY <1>6, <2>1, <2>2 DEF FilledSoon
  <1>8. /\ tabAnswers' \in [AutoFillTabs -> TabAnswers]
        /\ autoFill' \in [AutoFillTabs -> FilledForm]
        /\ \A u \in AutoFillTabs :
              /\ KeepsThen(autoFill'[u])
              /\ autoFill'[u].filled \/ autoFill'[u].answers = Empty
              /\ FilledSoon(autoFill'[u], tabAnswers'[u])
              /\ u # t => autoFill'[u] = old[u]
    <2>1. old \in [AutoFillTabs -> FilledForm]
      <3>1. old = [u \in AutoFillTabs |-> old[u]]
        BY DEF OldForms
      <3> QED
        BY <1>6, <3>1
    <2> DEFINE fetched == [tabAnswers[t] EXCEPT !.answered = "ok",
                                               !.answers = saved']
               next == Rendered(old[t], fetched)
    <2>2. CASE tabAnswers' = tabAnswers /\ autoFill' = old
      BY <1>1, <1>7, <2>1, <2>2 DEF AutoFillTypeOK
    <2>3. CASE /\ tabAnswers' = [tabAnswers EXCEPT ![t].answered = "ok",
                                                   ![t].answers = saved']
               /\ autoFill' = [old EXCEPT ![t] = Rendered(@, tabAnswers'[t])]
      <3>1. fetched \in TabAnswers /\ fetched.answered = "ok"
            /\ fetched.answers = saved'
        BY <1>1, <1>3 DEF TabAnswers, FetchStatus
      <3>2. tabAnswers' = [tabAnswers EXCEPT ![t] = fetched]
        BY <2>3
      <3> HIDE DEF fetched
      <3>3. /\ tabAnswers' \in [AutoFillTabs -> TabAnswers]
            /\ \A u \in AutoFillTabs :
                  tabAnswers'[u] = IF u = t THEN fetched ELSE tabAnswers[u]
        BY <1>1, <3>1, <3>2 DEF AutoFillTypeOK
      <3>4. autoFill' = [old EXCEPT ![t] = next]
        BY <2>1, <2>3, <3>3
      <3>5. /\ next \in FilledForm /\ FilledSoon(next, fetched)
            /\ \/ next = old[t]
               \/ /\ next.filled /\ Keeps(next)
                  /\ saved' # saved => next.excused = AutoFillKeys
        BY <1>1, <1>6, <3>1, RenderedKeeps
      <3> HIDE DEF next
      <3>6. KeepsThen(next) /\ (next.filled \/ next.answers = Empty)
        <4>1. CASE next = old[t]
          BY <1>7, <4>1
        <4>2. CASE next # old[t] /\ saved' = saved
          BY <3>5, <4>2 DEF Keeps
        <4>3. CASE next # old[t] /\ saved' # saved
          BY <3>5, <4>3
        <4> QED
          BY <4>1, <4>2, <4>3
      <3> HIDE DEF old, KeepsThen
      <3>7. /\ autoFill' \in [AutoFillTabs -> FilledForm]
            /\ \A u \in AutoFillTabs :
                  autoFill'[u] = IF u = t THEN next ELSE old[u]
        BY <2>1, <3>4, <3>5
      <3> QED
        BY <1>7, <3>3, <3>5, <3>6, <3>7
    <2>4. \/ tabAnswers' = tabAnswers /\ autoFill' = old
          \/ /\ tabAnswers' = [tabAnswers EXCEPT ![t].answered = "ok",
                                                ![t].answers = saved']
             /\ autoFill' = [old EXCEPT ![t] = Rendered(@, tabAnswers'[t])]
      BY DEF saveUserMetaValues
    <2> QED
      BY <2>2, <2>3, <2>4
  <1>9. AutoFillTypeOK'
    <2>1. sent' \in [AutoFillTabs -> AutoFillRequest]
      <3>1. sent' = [u \in AutoFillTabs |-> sent'[u]]
        BY <1>4
      <3> QED
        BY <1>5, <3>1
    <2> QED
      BY <1>1, <1>3, <1>8, <2>1 DEF AutoFillTypeOK
  <1>10. ASSUME NEW u \in AutoFillTabs
         PROVE  /\ sent'[u] = NothingSent \/ KeepsThen(sent'[u])
                /\ sent'[u].same => StillShows(autoFill'[u], sent'[u])
    <2>1. CASE sent'[u] = NothingSent
      BY <2>1, EmptyTypes
    <2>2. CASE /\ u # t /\ sent'[u].excused = AutoFillKeys
               /\ sent'[u].answers = sent[u].answers
               /\ sent'[u].same = sent[u].same
      <3>1. sent[u].same => StillShows(autoFill[u], sent[u])
        BY DEF AutoFillInv
      <3>2. /\ autoFill'[u] = old[u] /\ old[u].excused = AutoFillKeys
            /\ old[u].open = autoFill[u].open
            /\ old[u].filled = autoFill[u].filled
        BY <1>6, <1>8, <2>2
      <3> QED
        BY <2>2, <3>1, <3>2 DEF StillShows
    <2> QED
      BY <1>5, <2>1, <2>2
  <1> QED
    BY <1>8, <1>9, <1>10 DEF AutoFillInv, Keeps, FilledSoon, StillShows

LEMMA QuestionsOfTemplatesChange ==
    ASSUME AutoFillInv, listMetaDefinitions \/ UNCHANGED autoFillVars
    PROVE  AutoFillInv'
  BY DEF listMetaDefinitions, autoFillVars, AutoFillInv, AutoFillTypeOK,
         Keeps, FilledSoon, StillShows

LEMMA AutoFillKept ==
    AutoFillInv /\ [AutoFillNext]_autoFillVars => AutoFillInv'
  BY FetchingKeeps, UsingKeeps, WritingKeeps, QuestionsOfTemplatesChange
  DEF AutoFillNext

THEOREM AutoFillInvHolds == AutoFillSpec => []AutoFillInv
  BY AutoFillStart, AutoFillKept, PTL DEF AutoFillSpec

\* A save only deletes an answer the user emptied on that page, or one the page
\* could not know or show (ProfileModal.tsx:190-205, 341-374,
\* users.service.ts:337-368).
THEOREM AnswersAreKept == AutoFillSpec => KeptUnlessCleared
  <1>1. ASSUME AutoFillInv, NEW t \in AutoFillTabs, NEW k \in AutoFillKeys,
               saveUserMetaValues(t), saved[k] # NoAnswer, saved'[k] = NoAnswer
        PROVE  k \in sent[t].excused
    BY <1>1 DEF AutoFillInv, Keeps, saveUserMetaValues
  <1>2. AutoFillInv =>
          [\A t \in AutoFillTabs, k \in AutoFillKeys :
              /\ saveUserMetaValues(t)
              /\ saved[k] # NoAnswer /\ saved'[k] = NoAnswer
              => k \in sent[t].excused]_autoFillVars
    BY <1>1
  <1> QED
    BY <1>2, AutoFillInvHolds, PTL DEF KeptUnlessCleared

=============================================================================
