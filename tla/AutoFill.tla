------------------------------- MODULE AutoFill -------------------------------
(***************************************************************************)
(* The answers a user keeps for the questions of an organization's         *)
(* templates, and the "AutoFill" pages of his browser's tabs on which he   *)
(* changes them.                                                           *)
(*                                                                         *)
(* A page fetches the questions and the answers, fills its form once both  *)
(* are there, and never again while it is open: not even when a later      *)
(* fetch says otherwise.  Saving sends an answer to every question and to  *)
(* every answer it fetched; the API deletes them all and inserts those     *)
(* that are not empty.  What was fetched before the page was closed is     *)
(* still there when it is opened again.                                    *)
(*                                                                         *)
(* Simplifications.  Each tab has one request at a time, which takes       *)
(* effect in one step.  A question is its key; types are left out.  That   *)
(* the form is hidden while the last fetch is one that failed is left out: *)
(* it can only be saved more often here.                                   *)
(***************************************************************************)
EXTENDS Naturals

CONSTANTS
    AutoFillTabs,   \* tabs of the user
    AutoFillKeys,   \* questions
    AutoFillValues, \* answers
    NoAnswer        \* the empty answer

ASSUME AutoFillConstants == NoAnswer \notin AutoFillValues

VARIABLES
    questions,  \* the keys of the questions in templates that are not deleted
    saved,      \* saved[k]: the row user_meta_values of key k
    tabAnswers, \* tabAnswers[t]: what tab t has fetched
    autoFill,   \* autoFill[t]: the page in tab t
    sent        \* sent[t]: the request under way

autoFillVars == <<questions, saved, tabAnswers, autoFill, sent>>

Saves == [AutoFillKeys -> AutoFillValues \cup {NoAnswer}]
Empty == [k \in AutoFillKeys |-> NoAnswer]

FetchStatus == {"loading", "failed", "ok"}
TabAnswers == [asked : BOOLEAN, keys : SUBSET AutoFillKeys,
               answered : FetchStatus, answers : Saves]
Nothing == [asked |-> FALSE, keys |-> {},
            answered |-> "loading", answers |-> Empty]

\* History, "excused": the answers that may go when it is saved; see
\* KeptUnlessCleared.
FilledForm == [open : BOOLEAN, filled : BOOLEAN, answers : Saves,
               excused : SUBSET AutoFillKeys]
NotOpen == [open |-> FALSE, filled |-> FALSE, answers |-> Empty,
           excused |-> AutoFillKeys]

\* History, "same": the form that was sent is still open.
AutoFillRequest == [keys : SUBSET AutoFillKeys, answers : Saves,
                    excused : SUBSET AutoFillKeys, same : BOOLEAN]
NothingSent == [keys |-> {}, answers |-> Empty, excused |-> {}, same |-> FALSE]

AutoFillInit ==
    /\ questions \in SUBSET AutoFillKeys
    /\ saved \in Saves
    /\ tabAnswers = [t \in AutoFillTabs |-> Nothing]
    /\ autoFill = [t \in AutoFillTabs |-> NotOpen]
    /\ sent = [t \in AutoFillTabs |-> NothingSent]

-------------------------------------------------------------------------------

Overtaken(f) ==
    \/ f.answered = "failed"
    \/ f.answered = "ok" /\ f.answers # saved

RenderedEarly(p, f) ==
    IF p.open /\ ~p.filled /\ f.keys # {}
    THEN [open |-> TRUE, filled |-> TRUE,
          answers |-> [k \in AutoFillKeys |->
                         IF k \in f.keys THEN f.answers[k] ELSE NoAnswer],
          excused |-> IF Overtaken(f) THEN AutoFillKeys
                      ELSE AutoFillKeys \ f.keys]
    ELSE p

\* The effect that fills the form, whatever made the page render.
Rendered(p, f) ==
    IF p.open /\ ~p.filled /\ f.keys # {} /\ f.answered # "loading"
    THEN [open |-> TRUE, filled |-> TRUE,
          answers |-> [k \in AutoFillKeys |->
                         IF k \in f.keys THEN f.answers[k] ELSE NoAnswer],
          excused |-> IF Overtaken(f) THEN AutoFillKeys
                      ELSE AutoFillKeys \ f.keys]
    ELSE p

Render(t, p, f) ==
    /\ tabAnswers' = [tabAnswers EXCEPT ![t] = f]
    /\ autoFill' = [autoFill EXCEPT ![t] = Rendered(p, f)]

\* Answers that could not be fetched are asked for again.
OpenAutoFill(t) ==
    /\ ~autoFill[t].open
    /\ Render(t, [NotOpen EXCEPT !.open = TRUE],
              [tabAnswers[t] EXCEPT
                 !.answered = IF @ = "failed" THEN "loading" ELSE @])
    /\ UNCHANGED <<questions, saved, sent>>

CloseAutoFill(t) ==
    /\ autoFill[t].open
    /\ autoFill' = [autoFill EXCEPT ![t] = NotOpen]
    /\ sent' = [sent EXCEPT ![t].same = FALSE]
    /\ UNCHANGED <<questions, saved, tabAnswers>>

\* What a closed page had fetched is dropped after a while.
Forget(t) ==
    /\ ~autoFill[t].open
    /\ tabAnswers' = [tabAnswers EXCEPT ![t] = Nothing]
    /\ UNCHANGED <<questions, saved, autoFill, sent>>

\* When the page is opened, when its window comes to the front, after a save.
FetchQuestions(t) ==
    /\ autoFill[t].open
    /\ Render(t, autoFill[t],
              [tabAnswers[t] EXCEPT !.asked = TRUE, !.keys = questions])
    /\ UNCHANGED <<questions, saved, sent>>

FetchAnswers(t) ==
    /\ autoFill[t].open
    /\ Render(t, autoFill[t],
              [tabAnswers[t] EXCEPT !.answered = "ok", !.answers = saved])
    /\ UNCHANGED <<questions, saved, sent>>

\* One that fails after another one succeeded leaves what that one brought.
FetchFails(t) ==
    /\ autoFill[t].open
    /\ tabAnswers[t].answered = "loading"
    /\ Render(t, autoFill[t], [tabAnswers[t] EXCEPT !.answered = "failed"])
    /\ UNCHANGED <<questions, saved, sent>>

\* The fields and the button are there, the button without questions too.
Usable(t) ==
    autoFill[t].open /\ tabAnswers[t].asked /\ tabAnswers[t].answered = "ok"

setAutoFillValue(t, k, v) ==
    /\ Usable(t)
    /\ k \in tabAnswers[t].keys
    /\ autoFill' = [autoFill EXCEPT
                       ![t].answers[k] = v,
                       ![t].excused = IF v = NoAnswer THEN @ \cup {k} ELSE @]
    /\ UNCHANGED <<questions, saved, tabAnswers, sent>>

handleSaveAutoFill(t) ==
    /\ Usable(t)
    /\ sent[t] = NothingSent
    /\ LET known == tabAnswers[t]
           answered == {k \in AutoFillKeys : known.answers[k] # NoAnswer}
       IN  sent' = [sent EXCEPT ![t] = [keys |-> known.keys \cup answered,
                                        answers |-> autoFill[t].answers,
                                        excused |-> autoFill[t].excused,
                                        same |-> TRUE]]
    /\ UNCHANGED <<questions, saved, tabAnswers, autoFill>>

\* Forms and requests filled before are excused, except the form that was sent.
OldForms(t) ==
    [u \in AutoFillTabs |->
       IF u = t /\ sent[t].same THEN autoFill[u]
       ELSE [autoFill[u] EXCEPT !.excused = AutoFillKeys]]

saveUserMetaValues(t) ==
    /\ sent[t] # NothingSent
    /\ saved' = [k \in AutoFillKeys |->
                   IF k \in sent[t].keys THEN sent[t].answers[k] ELSE saved[k]]
    /\ sent' = [u \in AutoFillTabs |->
                  IF u = t \/ sent[u] = NothingSent THEN NothingSent
                  ELSE [sent[u] EXCEPT !.excused = AutoFillKeys]]
    /\ \/ /\ tabAnswers' = [tabAnswers EXCEPT ![t].answered = "ok",
                                                ![t].answers = saved']
          /\ autoFill' = [OldForms(t) EXCEPT ![t] = Rendered(@, tabAnswers'[t])]
       \/ UNCHANGED tabAnswers /\ autoFill' = OldForms(t)  \* the answer is lost
    /\ UNCHANGED questions

\* The request is lost.
SaveFails(t) ==
    /\ sent[t] # NothingSent
    /\ sent' = [sent EXCEPT ![t] = NothingSent]
    /\ UNCHANGED <<questions, saved, tabAnswers, autoFill>>

\* Templates are created, saved or deleted.
listMetaDefinitions ==
    /\ questions' \in SUBSET AutoFillKeys
    /\ UNCHANGED <<saved, tabAnswers, autoFill, sent>>

AutoFillNext ==
    \/ \E t \in AutoFillTabs :
          \/ OpenAutoFill(t) \/ CloseAutoFill(t) \/ Forget(t)
          \/ FetchQuestions(t) \/ FetchAnswers(t) \/ FetchFails(t)
          \/ \E k \in AutoFillKeys, v \in AutoFillValues \cup {NoAnswer} :
                setAutoFillValue(t, k, v)
          \/ handleSaveAutoFill(t)
          \/ saveUserMetaValues(t) \/ SaveFails(t)
    \/ listMetaDefinitions

AutoFillSpec == AutoFillInit /\ [][AutoFillNext]_autoFillVars

-------------------------------------------------------------------------------
(* Properties. *)

AutoFillTypeOK ==
    /\ questions \subseteq AutoFillKeys
    /\ saved \in Saves
    /\ tabAnswers \in [AutoFillTabs -> TabAnswers]
    /\ autoFill \in [AutoFillTabs -> FilledForm]
    /\ sent \in [AutoFillTabs -> AutoFillRequest]

\* A save only deletes an answer that the user emptied on that page, whose
\* question was in no template when the page filled its form, or that the page
\* could not know: fetching had failed, or the answers were written since
\* (ProfileModal.tsx:190-205, 341-374, users.service.ts:337-368).
KeptUnlessCleared ==
    [][\A t \in AutoFillTabs, k \in AutoFillKeys :
          /\ saveUserMetaValues(t)
          /\ saved[k] # NoAnswer /\ saved'[k] = NoAnswer
          => k \in sent[t].excused]_autoFillVars
=============================================================================
