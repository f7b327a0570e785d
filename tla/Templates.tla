------------------------------ MODULE Templates -------------------------------
(***************************************************************************)
(* The templates of an organization and the tabs in which its              *)
(* administrators edit them.                                               *)
(*                                                                         *)
(* A tab has one editor, for a new template or for one it fetches.  What   *)
(* it fetched before fills the form at once; when a newer one comes the    *)
(* form is filled again, whatever has been edited.  A template that cannot *)
(* be fetched leaves an empty form, which can be saved too.  Saving        *)
(* deletes all questions of the template and inserts those of the form.    *)
(* The editor can be closed and opened for another template while its      *)
(* request is under way; the answer closes whatever it shows by then.      *)
(*                                                                         *)
(* Simplifications.  A question is its key; labels, options, order, the    *)
(* texts and the name are left out.  What a tab fetched of a template it   *)
(* is not editing does not change.                                         *)
(***************************************************************************)
EXTENDS Naturals

CONSTANTS
    TemplateTabs, \* tabs of administrators
    Templates,    \* templates
    TemplateKeys, \* questions
    NoTemplate

ASSUME TemplateConstants == NoTemplate \notin Templates

VARIABLES
    template, \* template[t]: the row and its questions
    copy,     \* copy[p][t]: what tab p has fetched of t
    editor,   \* editor[p]: the editor in tab p
    saving    \* saving[p]: its request under way

templateVars == <<template, copy, editor, saving>>

Template == [stored : {"no", "yes", "deleted"}, keys : SUBSET TemplateKeys]
Copy == [status : {"loading", "failed", "ok"}, keys : SUBSET TemplateKeys]
NoCopy == [status |-> "loading", keys |-> {}]

\* "of" = NoTemplate for a new one.  History, "excused": the questions that may
\* go when it is saved; see QuestionsOnlyRemoved.
Editor == [open : BOOLEAN, of : Templates \cup {NoTemplate},
           keys : SUBSET TemplateKeys, excused : SUBSET TemplateKeys]
NoEditor == [open |-> FALSE, of |-> NoTemplate, keys |-> {},
             excused |-> TemplateKeys]

Saving == [step : {"none", "writing", "written"},
           of : Templates \cup {NoTemplate},
           keys : SUBSET TemplateKeys, excused : SUBSET TemplateKeys]
NotSaving == [step |-> "none", of |-> NoTemplate, keys |-> {},
              excused |-> TemplateKeys]

TemplatesInit ==
    /\ template \in [Templates -> [stored : {"no", "yes"}, keys : {{}}]]
    /\ copy = [p \in TemplateTabs |-> [t \in Templates |-> NoCopy]]
    /\ editor = [p \in TemplateTabs |-> NoEditor]
    /\ saving = [p \in TemplateTabs |-> NotSaving]

-------------------------------------------------------------------------------

\* The effect that fills the form, or empties it.
Filled(t, c) ==
    [open |-> TRUE, of |-> t, keys |-> c.keys,
     excused |-> IF c.status = "loading" THEN {}
                 ELSE IF c.keys # template[t].keys THEN TemplateKeys
                 ELSE TemplateKeys \ c.keys]

\* "Edit" in the list, which may be older than the template's deletion.
OpenEditor(p, t) ==
    LET c == copy[p][t]
        c1 == IF c.status = "failed" THEN NoCopy ELSE c
    IN
    /\ ~editor[p].open
    /\ template[t].stored # "no"
    /\ copy' = [copy EXCEPT ![p][t] = c1]
    /\ editor' = [editor EXCEPT ![p] = Filled(t, c1)]
    /\ UNCHANGED <<template, saving>>

OpenNew(p) ==
    /\ ~editor[p].open
    /\ editor' = [editor EXCEPT ![p] = [NoEditor EXCEPT !.open = TRUE]]
    /\ UNCHANGED <<template, copy, saving>>

CloseEditor(p) ==
    /\ editor[p].open
    /\ editor' = [editor EXCEPT ![p] = NoEditor]
    /\ UNCHANGED <<template, copy, saving>>

Editing(p) == editor[p].open /\ editor[p].of # NoTemplate

\* A template that was saved meanwhile fills the form again, even with the same
\* questions; the same one does not.
findTemplateById(p) ==
    LET t == editor[p].of
        c == [status |-> "ok", keys |-> template[t].keys]
    IN
    /\ Editing(p)
    /\ template[t].stored = "yes"
    /\ copy' = [copy EXCEPT ![p][t] = c]
    /\ \/ editor' = [editor EXCEPT ![p] = Filled(t, c)]
       \/ copy[p][t] = c /\ UNCHANGED editor
    /\ UNCHANGED <<template, saving>>

\* A deleted one always fails; what an earlier fetch brought stays.
FetchTemplateFails(p) ==
    LET t == editor[p].of IN
    /\ Editing(p)
    /\ copy[p][t].status = "loading"
    /\ copy' = [copy EXCEPT ![p][t].status = "failed"]
    /\ editor' = [editor EXCEPT ![p].excused = TemplateKeys]
    /\ UNCHANGED <<template, saving>>

addField(p, k) ==
    /\ editor[p].open
    /\ editor' = [editor EXCEPT ![p].keys = @ \cup {k}]
    /\ UNCHANGED <<template, copy, saving>>

removeField(p, k) ==
    /\ k \in editor[p].keys
    /\ editor' = [editor EXCEPT ![p].keys = @ \ {k}, ![p].excused = @ \cup {k}]
    /\ UNCHANGED <<template, copy, saving>>

BusySaving(p) == saving[p] # NotSaving

Busy(p) ==
    \/ saving[p] # NotSaving
    \/ Editing(p) /\ copy[p][editor[p].of].status = "loading"

SaveTemplate(p) ==
    /\ editor[p].open
    /\ ~Busy(p)
    /\ saving' = [saving EXCEPT ![p] =
                    [step |-> "writing", of |-> editor[p].of,
                     keys |-> editor[p].keys, excused |-> editor[p].excused]]
    /\ UNCHANGED <<template, copy, editor>>

\* Whatever had been filled or sent for t before is excused from now on.
Outdated(t, r) == IF r.of = t THEN [r EXCEPT !.excused = TemplateKeys] ELSE r

\* The row and the questions are committed at once; the answer may be an error,
\* or lost.
Commit(p, t, row) ==
    /\ template' = [template EXCEPT ![t] = row]
    /\ \E step \in {"written", "none"} :
          saving' = [q \in TemplateTabs |->
                       IF q # p THEN Outdated(t, saving[q])
                       ELSE IF step = "none" THEN NotSaving
                       ELSE [NotSaving EXCEPT !.step = step]]
    /\ editor' = [q \in TemplateTabs |-> Outdated(t, editor[q])]
    /\ UNCHANGED copy

createTemplate(p) ==
    /\ saving[p].step = "writing"
    /\ saving[p].of = NoTemplate
    /\ \E t \in Templates :
          /\ template[t].stored = "no"
          /\ Commit(p, t, [stored |-> "yes", keys |-> saving[p].keys])

\* It does not look whether the template was deleted.
updateTemplate(p) ==
    LET t == saving[p].of IN
    /\ saving[p].step = "writing"
    /\ t # NoTemplate
    /\ Commit(p, t, [template[t] EXCEPT !.keys = saving[p].keys])

\* Two questions with the same key, a lost request, no rights: the editor stays.
SaveTemplateFails(p) ==
    /\ saving[p].step = "writing"
    /\ saving' = [saving EXCEPT ![p] = NotSaving]
    /\ UNCHANGED <<template, copy, editor>>

TemplateSaved(p) ==
    /\ saving[p].step = "written"
    /\ saving' = [saving EXCEPT ![p] = NotSaving]
    /\ editor' = [editor EXCEPT ![p] = NoEditor]
    /\ UNCHANGED <<template, copy>>

deleteTemplate(t) ==
    /\ template[t].stored = "yes"
    /\ template' = [template EXCEPT ![t].stored = "deleted"]
    /\ UNCHANGED <<copy, editor, saving>>

TemplatesNext ==
    \/ \E p \in TemplateTabs :
          \/ \E t \in Templates : OpenEditor(p, t)
          \/ OpenNew(p) \/ CloseEditor(p)
          \/ findTemplateById(p) \/ FetchTemplateFails(p)
          \/ \E k \in TemplateKeys : addField(p, k) \/ removeField(p, k)
          \/ SaveTemplate(p)
          \/ createTemplate(p) \/ updateTemplate(p)
          \/ SaveTemplateFails(p) \/ TemplateSaved(p)
    \/ \E t \in Templates : deleteTemplate(t)

TemplatesSpec == TemplatesInit /\ [][TemplatesNext]_templateVars

-------------------------------------------------------------------------------
(* Properties. *)

TemplatesTypeOK ==
    /\ template \in [Templates -> Template]
    /\ copy \in [TemplateTabs -> [Templates -> Copy]]
    /\ editor \in [TemplateTabs -> Editor]
    /\ saving \in [TemplateTabs -> Saving]

\* A question only goes from a template under a save if it was removed in the
\* editor that is saved, or the editor could not know it: its form was filled
\* from what the tab had fetched before another save, or was empty because
\* nothing could be fetched (CreateOrEditTemplateModal.tsx:69-102, 151-205,
\* organizations.service.ts:390-400).
QuestionsOnlyRemoved ==
    [][\A p \in TemplateTabs, t \in Templates :
          updateTemplate(p) /\ saving[p].of = t =>
             template[t].keys \ template'[t].keys \subseteq saving[p].excused
      ]_templateVars
=============================================================================
