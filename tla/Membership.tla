------------------------------ MODULE Membership ------------------------------
(***************************************************************************)
(* The members of one organization: their roles, and the pages on which    *)
(* its administrators change them.                                         *)
(*                                                                         *)
(* A page holds the list it fetched.  The dialog "Edit user" starts from a *)
(* row of that list and sends the role and the status, the one that was    *)
(* not touched included, so it writes back what the list said.  It can be  *)
(* closed, and another one opened, while its request is under way; the     *)
(* answer then closes whatever dialog is open.  The API reads the caller's *)
(* role from the database, then writes: nothing keeps the last             *)
(* administrator from losing his role, and a caller may lose his between   *)
(* the two.                                                                *)
(*                                                                         *)
(* Simplifications.  Each user has one page.  Sending a request and the    *)
(* check of the caller's role are one step, and what a dialog shows is     *)
(* chosen when "Save" is clicked.                                          *)
(***************************************************************************)
EXTENDS Naturals

CONSTANTS
    Users,      \* users with a membership in the organization
    OtherRoles, \* roles that administer nothing: "organizer", "member"
    Nobody,
    MaxWrites   \* bound: writes the API applies

ASSUME MembershipConstants ==
    /\ Nobody \notin Users
    /\ "admin" \notin OtherRoles
    /\ MaxWrites \in Nat

VARIABLES
    member,  \* member[u]: the membership of u
    list,    \* list[u]: the members as u's page knows them
    dialog,  \* dialog[u]: the dialog open on u's page
    patch,   \* patch[u]: what u's page has sent
    writes,  \* writes the API applied
    unsure,  \* history: unsure[u]: the list is older than u's own last write
    by,      \* history: by[u]: whose page wrote the membership of u last
    late     \* history: late[u]: writes of u since he is no administrator

membershipVars == <<member, list, dialog, patch, writes, unsure, by, late>>

Roles == {"admin"} \cup OtherRoles
Row == [role : Roles, status : {"active", "disabled"}]
SomeRow == [role |-> "admin", status |-> "active"]
Members == [Users -> Row]
MaybeUser == Users \cup {Nobody}

\* "was": the row the dialog was opened with.  History, "old": that row was
\* fetched before the page's own last write.
Dialog == [user : MaybeUser, was : Row, old : BOOLEAN]
Closed == [user |-> Nobody, was |-> SomeRow, old |-> FALSE]

Requests == [step : {"none", "writing", "written"}, user : MaybeUser,
             was : Row, row : Row, old : BOOLEAN]
NoRequest == [step |-> "none", user |-> Nobody, was |-> SomeRow,
              row |-> SomeRow, old |-> FALSE]

\* The roles a request is checked against are read from active memberships.
HasAdminRole(u) == member[u].role = "admin" /\ member[u].status = "active"
Leaderless == \A u \in Users : ~HasAdminRole(u)

MembershipInit ==
    /\ member \in [Users -> [role : Roles, status : {"active"}]]
    /\ ~Leaderless
    /\ list = [u \in Users |-> member]
    /\ dialog = [u \in Users |-> Closed]
    /\ patch = [u \in Users |-> NoRequest]
    /\ writes = 0
    /\ unsure = [u \in Users |-> FALSE]
    /\ by = [u \in Users |-> Nobody]
    /\ late = [u \in Users |-> 0]

-------------------------------------------------------------------------------

findMembersOnce(u) ==
    /\ HasAdminRole(u)
    /\ UNCHANGED list
    /\ unsure' = [unsure EXCEPT ![u] = FALSE]
    /\ UNCHANGED <<member, dialog, patch, writes, by, late>>

\* The page is opened, or the list is fetched again.
findMembers(u) ==
    /\ HasAdminRole(u)
    /\ list' = [list EXCEPT ![u] = member]
    /\ unsure' = [unsure EXCEPT ![u] = FALSE]
    /\ UNCHANGED <<member, dialog, patch, writes, by, late>>

Edit(u, v) ==
    /\ dialog[u].user = Nobody
    /\ dialog' = [dialog EXCEPT ![u] =
                     [user |-> v, was |-> list[u][v], old |-> unsure[u]]]
    /\ UNCHANGED <<member, list, patch, writes, unsure, by, late>>

Close(u) ==
    /\ dialog[u].user # Nobody
    /\ dialog' = [dialog EXCEPT ![u] = Closed]
    /\ UNCHANGED <<member, list, patch, writes, unsure, by, late>>

handleSaveUnchecked(u, row) ==
    /\ dialog[u].user # Nobody
    /\ row # dialog[u].was
    /\ patch[u].step = "none"
    /\ patch' = [patch EXCEPT ![u] =
                      [step |-> "writing", user |-> dialog[u].user,
                       was |-> dialog[u].was, row |-> row,
                       old |-> dialog[u].old]]
    /\ UNCHANGED <<member, list, dialog, writes, unsure, by, late>>

\* The role and the status that the dialog shows by now.  Without the role of an
\* administrator the request is refused, and the dialog stays open.
handleSave(u, row) ==
    /\ dialog[u].user # Nobody
    /\ row # dialog[u].was
    /\ patch[u].step = "none"
    /\ HasAdminRole(u)
    /\ patch' = [patch EXCEPT ![u] =
                      [step |-> "writing", user |-> dialog[u].user,
                       was |-> dialog[u].was, row |-> row,
                       old |-> dialog[u].old]]
    /\ UNCHANGED <<member, list, dialog, writes, unsure, by, late>>

\* The answer to the page may be lost; a dialog that is open then stays open.
updateMember(u) ==
    LET r == patch[u] IN
    /\ r.step = "writing"
    /\ writes < MaxWrites
    /\ writes' = writes + 1
    /\ member' = [member EXCEPT ![r.user] = r.row]
    /\ by' = [by EXCEPT ![r.user] = u]
    /\ unsure' = [unsure EXCEPT ![u] = TRUE]
    /\ dialog' = [dialog EXCEPT ![u].old = (dialog[u].user # Nobody)]
    /\ late' = [v \in Users |-> IF HasAdminRole(v)' THEN 0
                                ELSE IF v = u /\ ~HasAdminRole(u)
                                        THEN late[v] + 1 ELSE late[v]]
    /\ \E answer \in {NoRequest, [NoRequest EXCEPT !.step = "written"]} :
          patch' = [patch EXCEPT ![u] = answer]
    /\ UNCHANGED list

\* The list is asked for again (findMembers), and the dialog is closed, be it
\* another one by now.
Saved(u) ==
    /\ patch[u].step = "written"
    /\ patch' = [patch EXCEPT ![u] = NoRequest]
    /\ dialog' = [dialog EXCEPT ![u] = Closed]
    /\ UNCHANGED <<member, list, writes, unsure, by, late>>

MembershipNext ==
    \E u \in Users :
       \/ findMembers(u)
       \/ \E v \in Users : Edit(u, v)
       \/ Close(u)
       \/ \E row \in Row : handleSave(u, row)
       \/ updateMember(u)
       \/ Saved(u)

MembershipSpec == MembershipInit /\ [][MembershipNext]_membershipVars

-------------------------------------------------------------------------------
(* Properties. *)

MembershipTypeOK ==
    /\ member \in Members
    /\ list \in [Users -> Members]
    /\ dialog \in [Users -> Dialog]
    /\ patch \in [Users -> Requests]
    /\ writes \in 0 .. MaxWrites
    /\ unsure \in [Users -> BOOLEAN]
    /\ by \in [Users -> MaybeUser]
    /\ late \in [Users -> Nat]

Untouched(u, field) == patch[u].row[field] = patch[u].was[field]
Abandoned == Leaderless /\ \A u \in Users : patch[u].step # "writing"

\* Whoever lost the role gets at most one more write through, the one that had
\* been checked before (organizations.controller.ts:81-102).
OneLateWrite == \A u \in Users : late[u] <= 1

\* A role or a status that the administrator did not touch only changes when it
\* undoes what another page wrote after the dialog's list was fetched, or when
\* the dialog was opened before the list that followed the page's own last write
\* had come (EditUsersModal.tsx:64-73, useUpdateOrganizationMember.ts:23-27).
UntouchedIsKept ==
    [][\A u \in Users, field \in {"role", "status"} :
          LET v == patch[u].user IN
          updateMember(u) /\ Untouched(u, field) =>
             \/ member'[v][field] = member[v][field]
             \/ by[v] # u
             \/ patch[u].old]_membershipVars

\* Once nobody is left who administers the organization, and no request is
\* past its check, nobody ever administers it again
\* (organizations.service.ts:150-207).
AbandonedForGood == [][Abandoned => Abandoned']_membershipVars
=============================================================================
