----------------------------- MODULE Registration -----------------------------
(***************************************************************************)
(* Registration: the page that creates an account, what the API does with  *)
(* the form, and sign-in with Google, which creates accounts as well.      *)
(*                                                                         *)
(* The API looks whether the organization may be joined, then creates the  *)
(* user and his membership in one transaction, and only then links the     *)
(* applications that were made with his email.  No step sees what happens  *)
(* between two of them, and the link breaks the key (meet_id, user_id) of  *)
(* meet_attendees when one meet holds two applications with that email.    *)
(*                                                                         *)
(* Simplifications.  A user is his email, and Google's subject is the      *)
(* email too.  Nobody signs up for a meet with an account's id: no page    *)
(* sends one.  The form's other fields, the captcha's verdict and the      *)
(* verification mail, whose failure is only logged, are left out.  The     *)
(* check of the email, made when its field loses focus, and that of the    *)
(* invitation are answered at once.                                        *)
(***************************************************************************)
EXTENDS Naturals

CONSTANTS
    Forms,  \* register pages
    Logins, \* sign-ins with Google
    Emails,
    Orgs,   \* organizations with an invitation link
    Rows,   \* applications for meets
    Meets,
    None    \* no email, no organization, no meet

ASSUME RegistrationConstants == None \notin Emails \cup Orgs \cup Meets

VARIABLES
    account, \* account[e]: the user with email e
    joined,  \* joined[e]: the organization he was put in when created
    private, \* the organizations that are private
    row,     \* row[r]: an application
    form,    \* form[g]: a register page and its request
    login    \* login[l]: a sign-in with Google

registrationVars == <<account, joined, private, row, form, login>>

\* The organization that is made for a user who was not invited.
Own == "own"

\* "link": whether his applications were linked.
Account == [exists : BOOLEAN, google : BOOLEAN,
            link : {"no", "done", "failed", "cut", "never"}]
NoAccount == [exists |-> FALSE, google |-> FALSE, link |-> "no"]

\* "early": made before the applications of its email were linked.
Application == [meet : Meets \cup {None}, email : Emails \cup {None},
                user : Emails \cup {None}, early : BOOLEAN]
NoApplication == [meet |-> None, email |-> None, user |-> None, early |-> TRUE]

\* "checking": the invitation was not checked yet.
Form == [step : {"closed", "form", "joining", "creating", "linking",
                 "verifying"},
         email : Emails \cup {None}, org : Orgs \cup {None},
         checking : BOOLEAN, inviteError : BOOLEAN, emailError : BOOLEAN]
NoForm == [step |-> "closed", email |-> None, org |-> None,
           checking |-> FALSE, inviteError |-> FALSE, emailError |-> FALSE]

Login == [step : {"idle", "updating", "creating"}, email : Emails \cup {None}]
NoLogin == [step |-> "idle", email |-> None]

RegistrationInit ==
    /\ account = [e \in Emails |-> NoAccount]
    /\ joined = [e \in Emails |-> None]
    /\ private \in SUBSET Orgs
    /\ row = [r \in Rows |-> NoApplication]
    /\ form = [g \in Forms |-> NoForm]
    /\ login = [l \in Logins |-> NoLogin]

-------------------------------------------------------------------------------
(* The page. *)

Put(g, f) == form' = [form EXCEPT ![g] = f]
Goto(g, step) == Put(g, [form[g] EXCEPT !.step = step])
PageOnly == UNCHANGED <<account, joined, private, row, login>>

\* From an invitation link, without one, or from a sheet that was submitted.
OpenRegister(g, e, o) ==
    /\ form[g].step = "closed"
    /\ Put(g, [NoForm EXCEPT !.step = "form", !.email = e, !.org = o,
                             !.checking = (o # None)])
    /\ PageOnly

checkOrganizationInvite(g) ==
    /\ form[g].step = "form"
    /\ form[g].checking
    /\ Put(g, [form[g] EXCEPT !.checking = FALSE,
                              !.inviteError = form[g].org \in private])
    /\ PageOnly

TypeEmail(g, e) ==
    /\ form[g].step = "form"
    /\ form[g].email # e
    /\ Put(g, [form[g] EXCEPT !.email = e, !.emailError = FALSE])
    /\ PageOnly

\* The field loses focus.
checkEmail(g) ==
    /\ form[g].step = "form"
    /\ Put(g, [form[g] EXCEPT !.emailError = account[form[g].email].exists])
    /\ PageOnly

\* An invitation that was not checked yet does not hold the form back.
handleSubmit(g) ==
    /\ form[g].step = "form"
    /\ ~form[g].inviteError
    /\ ~form[g].emailError
    /\ Put(g, [form[g] EXCEPT
                 !.step = IF form[g].org = None THEN "creating" ELSE "joining"])
    /\ PageOnly

-------------------------------------------------------------------------------
(* The API. *)

ensureOrganizationJoinable(g) ==
    /\ form[g].step = "joining"
    /\ Goto(g, IF form[g].org \in private THEN "form" ELSE "creating")
    /\ PageOnly

\* The user and the membership, or neither when the email is taken.
Insert(e, org, a) ==
    /\ account' = [account EXCEPT ![e] = a]
    /\ joined' = [joined EXCEPT ![e] = org]

createUnchecked(g) ==
    LET e == form[g].email IN
    /\ form[g].step = "creating"
    /\ Insert(e, IF form[g].org = None THEN Own ELSE form[g].org,
              [NoAccount EXCEPT !.exists = TRUE])
    /\ Goto(g, "linking")
    /\ UNCHANGED <<private, row, login>>

create(g) ==
    LET e == form[g].email IN
    /\ form[g].step = "creating"
    /\ IF account[e].exists
          THEN Goto(g, "form") /\ UNCHANGED <<account, joined>>
          ELSE /\ Insert(e, IF form[g].org = None THEN Own ELSE form[g].org,
                         [NoAccount EXCEPT !.exists = TRUE])
               /\ Goto(g, "linking")
    /\ UNCHANGED <<private, row, login>>

With(e) == {r \in Rows : row[r].email = e}

TwiceInOneMeet(e) ==
    \E r, s \in With(e) : r # s /\ row[r].meet = row[s].meet

linkQuietly(g) ==
    LET e == form[g].email IN
    /\ form[g].step = "linking"
    /\ account' = [account EXCEPT ![e].link = "done"]
    /\ row' = [r \in Rows |-> IF r \in With(e) /\ ~TwiceInOneMeet(e)
                                  THEN [row[r] EXCEPT !.user = e]
                                  ELSE row[r]]
    /\ Goto(g, "verifying")
    /\ UNCHANGED <<joined, private, login>>

linkByEmail(g) ==
    LET e == form[g].email IN
    /\ form[g].step = "linking"
    /\ IF TwiceInOneMeet(e)
          THEN /\ account' = [account EXCEPT ![e].link = "failed"]
               /\ Goto(g, "form")
               /\ UNCHANGED row
          ELSE /\ account' = [account EXCEPT ![e].link = "done"]
               /\ row' = [r \in Rows |-> IF r \in With(e)
                                            THEN [row[r] EXCEPT !.user = e]
                                            ELSE row[r]]
               /\ Goto(g, "verifying")
    /\ UNCHANGED <<joined, private, login>>

\* The page has the tokens and leaves.
Registered(g) ==
    /\ form[g].step = "verifying"
    /\ Put(g, NoForm)
    /\ PageOnly

\* The API is restarted: every request fails where it is.
ApiRestarts ==
    /\ form' = [g \in Forms |-> IF form[g].step = "closed" THEN form[g]
                                ELSE [form[g] EXCEPT !.step = "form"]]
    /\ account' = [e \in Emails |->
          IF \E g \in Forms : form[g].step = "linking" /\ form[g].email = e
             THEN [account[e] EXCEPT !.link = "cut"] ELSE account[e]]
    /\ login' = [l \in Logins |-> NoLogin]
    /\ UNCHANGED <<joined, private, row>>

-------------------------------------------------------------------------------
(* upsertGoogleUser. *)

upsertGoogleUser(l, e) ==
    /\ login[l].step = "idle"
    /\ ~account[e].google
    /\ login' = [login EXCEPT ![l] =
          [step |-> IF account[e].exists THEN "updating" ELSE "creating",
           email |-> e]]
    /\ UNCHANGED <<account, joined, private, row, form>>

update(l) ==
    /\ login[l].step = "updating"
    /\ account' = [account EXCEPT ![login[l].email].google = TRUE]
    /\ login' = [login EXCEPT ![l] = NoLogin]
    /\ UNCHANGED <<joined, private, row, form>>

\* No applications are linked.  The sign-in fails when the email is taken.
createGoogleUser(l) ==
    LET e == login[l].email IN
    /\ login[l].step = "creating"
    /\ IF account[e].exists
          THEN UNCHANGED <<account, joined>>
          ELSE Insert(e, Own,
                      [exists |-> TRUE, google |-> TRUE, link |-> "never"])
    /\ login' = [login EXCEPT ![l] = NoLogin]
    /\ UNCHANGED <<private, row, form>>

-------------------------------------------------------------------------------
(* What others do: applications, and an organization's privacy. *)

addAttendee(r, m, e) ==
    /\ row[r] = NoApplication
    /\ row' = [row EXCEPT ![r] =
          [meet |-> m, email |-> e, user |-> None,
           early |-> account[e].link = "no"]]
    /\ UNCHANGED <<account, joined, private, form, login>>

setPrivate(o) ==
    /\ private' = IF o \in private THEN private \ {o} ELSE private \cup {o}
    /\ UNCHANGED <<account, joined, row, form, login>>

RegistrationNext ==
    \/ \E g \in Forms :
          \/ \E e \in Emails, o \in Orgs \cup {None} : OpenRegister(g, e, o)
          \/ \E e \in Emails : TypeEmail(g, e)
          \/ checkOrganizationInvite(g)
          \/ checkEmail(g)
          \/ handleSubmit(g)
          \/ ensureOrganizationJoinable(g)
          \/ create(g)
          \/ linkByEmail(g)
          \/ Registered(g)
    \/ ApiRestarts
    \/ \E l \in Logins :
          \/ \E e \in Emails : upsertGoogleUser(l, e)
          \/ update(l)
          \/ createGoogleUser(l)
    \/ \E r \in Rows, m \in Meets, e \in Emails : addAttendee(r, m, e)
    \/ \E o \in Orgs : setPrivate(o)

RegistrationSpec == RegistrationInit /\ [][RegistrationNext]_registrationVars

-------------------------------------------------------------------------------
(* Properties. *)

RegistrationTypeOK ==
    /\ account \in [Emails -> Account]
    /\ joined \in [Emails -> Orgs \cup {Own, None}]
    /\ private \subseteq Orgs
    /\ row \in [Rows -> Application]
    /\ form \in [Forms -> Form]
    /\ login \in [Logins -> Login]

\* A user whose registration went through has every application that was made
\* with his email before it ended; and one whose registration failed after he
\* was created has none, because one meet holds two of them, or because the API
\* was restarted (auth.service.ts:213-215, users.service.ts:392-397).
RegisteredIsLinked ==
    \A e \in Emails :
       /\ account[e].link = "done" =>
             \A r \in With(e) : row[r].early => row[r].user = e
       /\ account[e].link = "failed" => TwiceInOneMeet(e)

\* Whoever registers while another registration or a sign-in with Google creates
\* the same user is refused: nobody's link is redone, and an application once
\* linked stays with its user (auth.service.ts:544-566).
LinkedOnce ==
    [][/\ \A e \in Emails :
             account[e].link # "no" => account'[e].link = account[e].link
       /\ \A r \in Rows : row[r].user # None => row'[r].user = row[r].user
      ]_registrationVars
=============================================================================
