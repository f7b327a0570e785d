---------------------------- MODULE PasswordReset -----------------------------
(***************************************************************************)
(* The links by which one user sets a forgotten password: the page that    *)
(* asks for a link, the pages that links open, and the API, which keeps    *)
(* the hash of the last link only.                                         *)
(*                                                                         *)
(* Setting the password takes two accesses: the row is found by the link,  *)
(* then written by the user's id.  The write clears whatever link is       *)
(* stored by then.                                                         *)
(*                                                                         *)
(* Simplifications.  Finding the user by email and storing a link are one  *)
(* step: the write depends on the user's id alone.  A mail that is lost is *)
(* a link nobody opens.                                                    *)
(***************************************************************************)
EXTENDS Naturals

CONSTANTS
    ResetPages, \* reset pages, in any browser
    MaxLinks    \* bound: links asked for

ASSUME PasswordResetConstants == MaxLinks \in Nat

VARIABLES
    stored,    \* the row: the link it holds, and whether its half hour is over
    links,     \* links made so far
    resetPage, \* resetPage[p]: the link it was opened with, and its submission
    uses       \* history: uses[l]: passwords set by link l

resetVars == <<stored, links, resetPage, uses>>

Links == 1 .. MaxLinks
NoLink == 0
ResetSteps == {"closed", "form", "updating", "success", "failed"}

ResetInit ==
    /\ stored = [link |-> NoLink, fresh |-> FALSE]
    /\ links = 0
    /\ resetPage = [p \in ResetPages |-> [step |-> "closed", link |-> NoLink]]
    /\ uses = [l \in Links |-> 0]

\* The new link replaces the stored one.
requestPasswordReset ==
    /\ links < MaxLinks
    /\ links' = links + 1
    /\ stored' = [link |-> links + 1, fresh |-> TRUE]
    /\ UNCHANGED <<resetPage, uses>>

LinkExpires ==
    /\ stored.fresh
    /\ stored' = [stored EXCEPT !.fresh = FALSE]
    /\ UNCHANGED <<links, resetPage, uses>>

\* A mailed link is opened in a page that waits for no answer.
OpenLink(p, l) ==
    /\ resetPage[p].step # "updating"
    /\ l <= links
    /\ resetPage' = [resetPage EXCEPT ![p] = [step |-> "form", link |-> l]]
    /\ UNCHANGED <<stored, links, uses>>

Show(p, step) == resetPage' = [resetPage EXCEPT ![p].step = step]

\* The form can be submitted until it succeeded.
Submitting(p) == resetPage[p].step \in {"form", "failed"}

findByPasswordResetToken(p) ==
    /\ Submitting(p)
    /\ stored.link = resetPage[p].link
    /\ stored.fresh
    /\ Show(p, "updating")
    /\ UNCHANGED <<stored, links, uses>>

ResetRefused(p) ==
    /\ Submitting(p)
    /\ stored.link # resetPage[p].link \/ ~stored.fresh
    /\ Show(p, "failed")
    /\ UNCHANGED <<stored, links, uses>>

updatePasswordOnly(p) ==
    /\ resetPage[p].step = "updating"
    /\ UNCHANGED stored
    /\ uses' = [uses EXCEPT ![resetPage[p].link] = @ + 1]
    /\ \E step \in {"success", "failed"} : Show(p, step)
    /\ UNCHANGED links

\* The answer to the page may be lost.
updatePasswordFromReset(p) ==
    /\ resetPage[p].step = "updating"
    /\ stored' = [link |-> NoLink, fresh |-> FALSE]
    /\ uses' = [uses EXCEPT ![resetPage[p].link] = @ + 1]
    /\ \E step \in {"success", "failed"} : Show(p, step)
    /\ UNCHANGED links

ResetNext ==
    \/ requestPasswordReset
    \/ LinkExpires
    \/ \E p \in ResetPages :
          \/ \E l \in Links : OpenLink(p, l)
          \/ findByPasswordResetToken(p)
          \/ ResetRefused(p)
          \/ updatePasswordFromReset(p)

ResetSpec == ResetInit /\ [][ResetNext]_resetVars

-------------------------------------------------------------------------------
(* Properties. *)

ResetTypeOK ==
    /\ stored \in [link : Links \cup {NoLink}, fresh : BOOLEAN]
    /\ links \in 0 .. MaxLinks
    /\ resetPage \in [ResetPages -> 
            [step : ResetSteps, link : Links \cup {NoLink}]]
    /\ uses \in [Links -> Nat]

\* A link that has set a password is never found again, however the pages that
\* submit it overlap with each other and with newer links
\* (auth.service.ts:337-348, users.service.ts:213-221).
SpentLinkIsDead == stored.link # NoLink => uses[stored.link] = 0
=============================================================================
