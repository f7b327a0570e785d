------------------------------ MODULE MCRecords -------------------------------
(***************************************************************************)
(* An instance, for TLC, of the modules about rows that are read, shown    *)
(* and written again: users, memberships, questions and templates.  They   *)
(* share no variable, so one run takes them one at a time: "which" names   *)
(* the module that moves, and the others stay where they start.            *)
(***************************************************************************)
EXTENDS EmailVerification, PasswordReset, Registration, Membership, Questions,
        Templates, AutoFill, MeetForm, TLC

VARIABLE which

Which == {"verification", "reset", "registration", "membership", "questions",
          "templates", "autoFill", "meetForm"}

recordsVars ==
    <<which, verificationVars, resetVars, registrationVars, membershipVars,
      questionVars, templateVars, autoFillVars, meetFormVars>>

\* A module that does not move has one initial state, without a preference for
\* any of the symmetric values.
RecordsInit ==
    /\ which \in Which
    /\ VerificationInit
    /\ which # "verification" => user.email = CHOOSE e \in Mailboxes : TRUE
    /\ ResetInit
    /\ RegistrationInit
    /\ which # "registration" => private = {}
    /\ MembershipInit
    /\ which # "membership" => \A u \in Users : HasAdminRole(u)
    /\ QuestionsInit
    /\ TemplatesInit
    /\ which # "templates" => \A t \in Templates : template[t].stored = "yes"
    /\ AutoFillInit
    /\ which # "autoFill" => questions = {} /\ saved = Empty
    /\ MeetFormInit
    /\ which # "meetForm" => \A m \in FormMeets : meet[m] = NoRow

RecordsNext ==
    /\ UNCHANGED which
    /\ IF which = "verification"
          THEN VerificationNext ELSE UNCHANGED verificationVars
    /\ IF which = "reset" THEN ResetNext ELSE UNCHANGED resetVars
    /\ IF which = "registration"
          THEN RegistrationNext ELSE UNCHANGED registrationVars
    /\ IF which = "membership"
          THEN MembershipNext ELSE UNCHANGED membershipVars
    /\ IF which = "questions" THEN QuestionsNext ELSE UNCHANGED questionVars
    /\ IF which = "templates" THEN TemplatesNext ELSE UNCHANGED templateVars
    /\ IF which = "autoFill" THEN AutoFillNext ELSE UNCHANGED autoFillVars
    /\ IF which = "meetForm" THEN MeetFormNext ELSE UNCHANGED meetFormVars

RecordsSpec == RecordsInit /\ [][RecordsNext]_recordsVars

\* The variables of the module that moves keep their types.
RecordsTypeOK ==
    /\ which \in Which
    /\ which = "verification" => VerificationTypeOK
    /\ which = "reset" => ResetTypeOK
    /\ which = "registration" => RegistrationTypeOK
    /\ which = "membership" => MembershipTypeOK
    /\ which = "questions" => QuestionsTypeOK
    /\ which = "templates" => TemplatesTypeOK
    /\ which = "autoFill" => AutoFillTypeOK
    /\ which = "meetForm" => MeetFormTypeOK

MCSteps == <<"basic", "place">>

\* The cfg gives the same model values to sets of different modules, which keeps
\* the group small.
Symmetric ==
    Permutations(Pages) \cup Permutations(Emails) \cup Permutations(Rows)
=============================================================================
