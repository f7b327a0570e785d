------------------------------ MODULE Workspace -------------------------------
(***************************************************************************)
(* The frame around the application's pages in one tab: which user it      *)
(* knows, which organization he works in, the dialog that makes him choose *)
(* one, and the light, dark or glass mode that the organization's theme    *)
(* allows.                                                                 *)
(*                                                                         *)
(* The page keeps itself in order by effects, each of which looks at the   *)
(* state and corrects a part of it, so that others run again: the          *)
(* organization is cleared when the user is not in it, chosen when there   *)
(* is only one, and kept in localStorage; the mode is changed to one that  *)
(* is allowed.                                                             *)
(*                                                                         *)
(* Simplifications.  Effects run one at a time, in any order.  What the    *)
(* dialog has selected is chosen when "Choose" is clicked.  Menus and the  *)
(* profile's dialog, which keep no state of their own, are left out.       *)
(***************************************************************************)
EXTENDS Naturals, FiniteSets

CONSTANTS
    Orgs,        \* organizations
    NoOrg,
    AllowedModes \* AllowedModes[o]: the modes of o's theme

Modes == {"light", "dark", "glass"}

ASSUME WorkspaceConstants ==
    /\ NoOrg \notin Orgs
    /\ IsFiniteSet(Orgs)
    /\ AllowedModes \in [Orgs -> SUBSET Modes]

VARIABLES
    orgsOf,  \* organizations of the user who is signed in, as the API has them
    me,      \* what the tab knows of him
    frame,   \* "login", or "app" for any page within the frame
    current, \* the organization he works in
    chooser, \* the dialog "Choose organisation"
    themed,  \* whether the organization's theme has been fetched
    mode,    \* the mode of the page, and the one to return to from glass
    kept,    \* localStorage
    effects, \* history: effects that ran since something happened
    signedIn \* whether there is an access token

workspaceVars ==
    <<orgsOf, me, frame, current, chooser, themed, mode, kept, effects, signedIn>>

MaybeOrg == Orgs \cup {NoOrg}
Mode == [now : Modes, base : {"light", "dark"}]
Me == [status : {"loading", "none", "known"}, orgs : SUBSET Orgs]
Nobody == [status |-> "none", orgs |-> {}]
Loading == [status |-> "loading", orgs |-> {}]

\* "options": the organizations it has fetched; "handled": it has chosen for
\* him.
Dialog == [asked : BOOLEAN, fetched : BOOLEAN, options : SUBSET Orgs,
           handled : BOOLEAN]
NoDialog ==
    [asked |-> FALSE, fetched |-> FALSE, options |-> {}, handled |-> FALSE]

WorkspaceInit ==
    /\ orgsOf \in SUBSET Orgs
    /\ signedIn = FALSE
    /\ me = Nobody
    /\ frame = "login"
    /\ current = NoOrg
    /\ chooser = NoDialog
    /\ themed = FALSE
    /\ mode = [now |-> "light", base |-> "light"]
    /\ kept = [org |-> NoOrg, mode |-> mode]
    /\ effects = 0

-------------------------------------------------------------------------------
(* The effects. *)

organizationIds == me.orgs

AllOptions == chooser.options

Options == chooser.options \cap organizationIds
DialogOpen == frame = "app" /\ (chooser.asked \/ current = NoOrg)

\* The default theme has no glass.
getAllowedThemeModes ==
    IF current = NoOrg \/ ~themed THEN {"light", "dark"}
    ELSE IF AllowedModes[current] = {} THEN {"light"} ELSE AllowedModes[current]

setCurrentOrganizationId(o) ==
    /\ current' = o
    /\ themed' = (themed /\ o = current)

ClearWhileLoading ==
    /\ current # NoOrg /\ current \notin organizationIds
    /\ setCurrentOrganizationId(NoOrg)
    /\ UNCHANGED <<chooser, mode, kept>>

\* Nobody's organization is cleared too, on the login page for instance.
ClearOrganization ==
    /\ me.status # "loading"
    /\ current # NoOrg /\ current \notin organizationIds
    /\ setCurrentOrganizationId(NoOrg)
    /\ UNCHANGED <<chooser, mode, kept>>

OnlyOrganization ==
    /\ me.status # "loading"
    /\ current = NoOrg
    /\ Cardinality(organizationIds) = 1
    /\ \E o \in organizationIds : setCurrentOrganizationId(o)
    /\ UNCHANGED <<chooser, mode, kept>>

KeepOrganization ==
    /\ kept.org # current
    /\ kept' = [kept EXCEPT !.org = current]
    /\ UNCHANGED <<current, themed, chooser, mode>>

\* The dialog chooses for him, once each time it is open.
AutoChoose ==
    /\ DialogOpen /\ chooser.fetched /\ ~chooser.handled
    /\ Cardinality(Options) = 1
    /\ \E o \in Options : setCurrentOrganizationId(o)
    /\ chooser' = [chooser EXCEPT !.handled = TRUE, !.asked = FALSE]
    /\ UNCHANGED <<mode, kept>>

ForgetAutoChoice ==
    /\ ~DialogOpen /\ chooser.handled
    /\ chooser' = [chooser EXCEPT !.handled = FALSE]
    /\ UNCHANGED <<current, themed, mode, kept>>

FirstAllowed == IF "light" \in getAllowedThemeModes THEN "light"
                ELSE IF "dark" \in getAllowedThemeModes THEN "dark" ELSE "glass"

AllowMode ==
    /\ frame = "app"
    /\ mode.now \notin getAllowedThemeModes
    /\ mode' = [mode EXCEPT !.now = FirstAllowed]
    /\ UNCHANGED <<current, themed, chooser, kept>>

setBaseMode ==
    /\ frame = "app"
    /\ mode.now # "glass" /\ mode.base # mode.now
    /\ mode' = [mode EXCEPT !.base = mode.now]
    /\ UNCHANGED <<current, themed, chooser, kept>>

KeepMode ==
    /\ kept.mode # mode
    /\ kept' = [kept EXCEPT !.mode = mode]
    /\ UNCHANGED <<current, themed, chooser, mode>>

Effect ==
    /\ \/ ClearOrganization \/ OnlyOrganization \/ KeepOrganization
       \/ AutoChoose \/ ForgetAutoChoice
       \/ AllowMode \/ setBaseMode \/ KeepMode
    /\ effects' = effects + 1
    /\ UNCHANGED <<orgsOf, me, frame, signedIn>>

-------------------------------------------------------------------------------
(* What happens. *)

\* The tab is loaded, or another one is opened.
LoadPage ==
    /\ current' = kept.org /\ themed' = FALSE
    /\ mode' = kept.mode
    /\ me' = IF signedIn THEN Loading ELSE Nobody
    /\ chooser' = NoDialog
    /\ frame' \in {"app", "login"}
    /\ UNCHANGED <<orgsOf, kept, signedIn>>

\* Another user may sign in.
SignIn ==
    /\ frame = "login"
    /\ signedIn' = TRUE
    /\ orgsOf' \in SUBSET Orgs
    /\ me' = [status |-> "known", orgs |-> orgsOf']
    /\ frame' = "app"
    /\ UNCHANGED <<current, chooser, themed, mode, kept>>

\* The tab may still show the user until the frame is rendered again.
handleLogout ==
    /\ frame = "app" /\ ~DialogOpen
    /\ signedIn' = FALSE
    /\ me' \in {me, Nobody}
    /\ chooser' = NoDialog /\ themed' = FALSE
    /\ frame' = "login"
    /\ UNCHANGED <<orgsOf, current, mode, kept>>

\* When a first answer does not come, nobody seems to be signed in.
useFetchMe ==
    /\ signedIn
    /\ \/ me' = [status |-> "known", orgs |-> orgsOf]
       \/ me.status = "loading" /\ me' = Nobody
    /\ UNCHANGED <<orgsOf, frame, current, chooser, themed, mode, kept, signedIn>>

useFetchOrganisations ==
    /\ frame = "app" /\ signedIn
    /\ chooser' = [chooser EXCEPT !.fetched = TRUE, !.options = orgsOf]
    /\ UNCHANGED <<orgsOf, me, frame, current, themed, mode, kept, signedIn>>

useFetchOrganization ==
    /\ frame = "app" /\ current # NoOrg /\ signedIn
    /\ themed' = TRUE
    /\ UNCHANGED <<orgsOf, me, frame, current, chooser, mode, kept, signedIn>>

\* From the bar or the drawer, by a user with more than one.
SwitchOrganization ==
    /\ frame = "app" /\ ~DialogOpen
    /\ Cardinality(organizationIds) > 1
    /\ chooser' = [chooser EXCEPT !.asked = TRUE]
    /\ UNCHANGED <<orgsOf, me, frame, current, themed, mode, kept, signedIn>>

\* Only with an organization.
CloseChoice ==
    /\ DialogOpen /\ current # NoOrg
    /\ chooser' = [chooser EXCEPT !.asked = FALSE]
    /\ UNCHANGED <<orgsOf, me, frame, current, themed, mode, kept, signedIn>>

\* What is selected may be an organization he is no longer in.
handleSave(o) ==
    /\ DialogOpen
    /\ o \in (chooser.options \cup {current}) \ {NoOrg}
    /\ setCurrentOrganizationId(o)
    /\ chooser' = [chooser EXCEPT !.asked = FALSE]
    /\ UNCHANGED <<orgsOf, me, frame, mode, kept, signedIn>>

Toggled(base) == IF base = "dark" THEN "light" ELSE "dark"

handleToggleLightDark ==
    LET next == Toggled(IF mode.now = "glass" THEN mode.base ELSE mode.now) IN
    /\ frame = "app" /\ ~DialogOpen
    /\ {"light", "dark"} \subseteq getAllowedThemeModes
    /\ mode' = [now |-> next, base |-> next]
    /\ UNCHANGED <<orgsOf, me, frame, current, chooser, themed, kept, signedIn>>

handleToggleGlass ==
    /\ frame = "app" /\ ~DialogOpen
    /\ "glass" \in getAllowedThemeModes
    /\ mode' = [mode EXCEPT !.now = IF @ = "glass" THEN mode.base ELSE "glass"]
    /\ UNCHANGED <<orgsOf, me, frame, current, chooser, themed, kept, signedIn>>

\* He joins or leaves an organization.
MembershipChanges ==
    /\ orgsOf' \in SUBSET Orgs
    /\ UNCHANGED <<me, frame, current, chooser, themed, mode, kept, signedIn>>

Event ==
    /\ \/ LoadPage \/ SignIn \/ handleLogout
       \/ useFetchMe \/ useFetchOrganisations \/ useFetchOrganization
       \/ SwitchOrganization \/ CloseChoice
       \/ \E o \in Orgs : handleSave(o)
       \/ handleToggleLightDark \/ handleToggleGlass
       \/ MembershipChanges
    /\ effects' = 0

WorkspaceNext == Effect \/ Event

WorkspaceSpec == WorkspaceInit /\ [][WorkspaceNext]_workspaceVars

-------------------------------------------------------------------------------
(* Properties. *)

WorkspaceTypeOK ==
    /\ orgsOf \subseteq Orgs
    /\ me \in Me
    /\ frame \in {"login", "app"}
    /\ current \in MaybeOrg
    /\ chooser \in Dialog
    /\ themed \in BOOLEAN
    /\ mode \in Mode
    /\ kept \in [org : MaybeOrg, mode : Mode]
    /\ signedIn \in BOOLEAN

\* The effects of two components that correct each other's state come to rest:
\* the frame is not rendered for ever
\* (OrganizationProvider.tsx:39-68, ChooseOrganizationModal.tsx:49-77,
\* MainLayout.tsx:241-267).
EffectsSettle == effects <= 16

\* The organization a user works in is only left by his choice, or because the
\* tab has learnt that he is not in it (from /me, or from the organizations the
\* dialog fetched), or knows no user: after a logout, or when he could not be
\* fetched (OrganizationProvider.tsx:39-62, ChooseOrganizationModal.tsx:49-77).
OrganizationIsKept ==
    [][/\ current # NoOrg /\ current' # current
       => \/ \E o \in Orgs : handleSave(o)
          \/ LoadPage
          \/ me.status = "none"
          \/ me.status = "known" /\ current \notin me.orgs
          \/ chooser.fetched /\ current \notin chooser.options]_workspaceVars
=============================================================================
