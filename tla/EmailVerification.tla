-------------------------- MODULE EmailVerification ---------------------------
(***************************************************************************)
(* One user's email address and its verification: the profile pages that   *)
(* change the address, ask for a code and confirm it, and the API that     *)
(* serves them from the row of table users.                                *)
(*                                                                         *)
(* The API reads the row, decides, and writes single columns by user id,   *)
(* without a transaction: whatever another request wrote in between is not *)
(* seen.  The three buttons of a page are disabled only while their own    *)
(* request is under way, so one page can have three of them.               *)
(*                                                                         *)
(* Simplifications.  Pressing a button and the request's first access to   *)
(* the row are one step, and so are storing a code and mailing it, as the  *)
(* mail is made of what the request holds.  Codes are not reused.          *)
(***************************************************************************)
EXTENDS Naturals, FiniteSets

CONSTANTS
    Pages,       \* profile pages the user has open, in any browser
    Mailboxes,      \* addresses the user may give
    MaxAttempts, \* wrong codes before a lock: 5 in the code
    MaxCodes,    \* bound: codes asked for
    MaxStored,   \* bound: wrong codes the row counts
    MaxRequests, \* bound: requests under way
    NoMailbox         \* no address

ASSUME EmailVerificationConstants ==
    /\ IsFiniteSet(Pages) /\ Pages # {}
    /\ NoMailbox \notin Mailboxes
    /\ MaxAttempts \in Nat \ {0}
    /\ MaxCodes \in Nat /\ MaxStored \in Nat /\ MaxRequests \in Nat

VARIABLES
    user,       \* the row
    page,       \* page[p]: the user as page p knows him
    request,    \* request[p][b]: the request of button b of page p
    mailbox,    \* mailbox[c]: the address code c was mailed to
    verifiedBy, \* history: the code that was accepted last
    crossed,    \* history: the address was changed between the read and the
                \* write of another request
    tries       \* history: wrong codes compared with the stored one since it
                \* was stored, or since a lock was over

verificationVars == <<user, page, request, mailbox, verifiedBy, crossed, tries>>

Codes == 1 .. MaxCodes
NoCode == 0
Buttons == {"save", "send", "confirm"}

\* "fresh": the code's half hour is not over.  "locked": nor is the lock.
User == [email : Mailboxes, verified : BOOLEAN, code : Codes \cup {NoCode},
         fresh : BOOLEAN, attempts : Nat, locked : BOOLEAN]

Known == [email : Mailboxes, verified : BOOLEAN]
KnownOf(u) == [email |-> u.email, verified |-> u.verified]

\* What a request holds of the row it read.
Request == [step : {"idle", "storing", "clearing", "counting", "locking",
                    "marking", "fetching", "saved"},
            email : Mailboxes \cup {NoMailbox}, code : Codes \cup {NoCode},
            attempts : Nat]
Idle == [step |-> "idle", email |-> NoMailbox, code |-> NoCode, attempts |-> 0]

VerificationInit ==
    /\ \E e \in Mailboxes :
          user = [email |-> e, verified |-> FALSE, code |-> NoCode,
                  fresh |-> FALSE, attempts |-> 0, locked |-> FALSE]
    /\ page = [p \in Pages |-> KnownOf(user)]
    /\ request = [p \in Pages |-> [b \in Buttons |-> Idle]]
    /\ mailbox = [c \in Codes |-> NoMailbox]
    /\ verifiedBy = NoCode
    /\ crossed = FALSE
    /\ tries = 0

-------------------------------------------------------------------------------
(* Requests. *)

UnderWay == {r \in Pages \X Buttons : request[r[1]][r[2]].step # "idle"}

\* A button that is not waiting for an answer.
Pressable(p, b) ==
    /\ request[p][b].step = "idle"
    /\ Cardinality(UnderWay) < MaxRequests

PutRequest(p, b, r) == request' = [request EXCEPT ![p][b] = r]
GotoStep(p, b, step) == PutRequest(p, b, [request[p][b] EXCEPT !.step = step])
Answered(p, b) == PutRequest(p, b, Idle)

ChangeEmailKeepingCode(p) ==
    /\ Pressable(p, "save")
    /\ \E e \in Mailboxes \ {page[p].email} :
          /\ user' = [user EXCEPT !.email = e, !.verified = FALSE]
          /\ PutRequest(p, "save", [Idle EXCEPT !.step = "saved", !.email = e])
    /\ crossed' = (crossed \/ \E r \in UnderWay :
                      request[r[1]][r[2]].step \in {"storing", "marking"})
    /\ UNCHANGED <<page, mailbox, verifiedBy, tries>>

\* "Change Email": PATCH /users/:id with another address.
ChangeEmail(p) ==
    /\ Pressable(p, "save")
    /\ \E e \in Mailboxes \ {page[p].email} :
          /\ user' = [user EXCEPT !.email = e, !.verified = FALSE,
                                  !.code = NoCode, !.fresh = FALSE]
          /\ PutRequest(p, "save", [Idle EXCEPT !.step = "saved", !.email = e])
    /\ crossed' = (crossed \/ \E r \in UnderWay :
                      request[r[1]][r[2]].step \in {"storing", "marking"})
    /\ UNCHANGED <<page, mailbox, verifiedBy, tries>>

EmailChangedToVerified(p) ==
    /\ request[p]["save"].step = "saved"
    /\ page' = [page EXCEPT ![p] = [email |-> request[p]["send"].email,
                                    verified |-> FALSE]]
    /\ Answered(p, "save")
    /\ UNCHANGED <<user, mailbox, verifiedBy, crossed, tries>>

\* The answer to it replaces what the page knows.
EmailChanged(p) ==
    /\ request[p]["save"].step = "saved"
    /\ page' = [page EXCEPT ![p] = [email |-> request[p]["save"].email,
                                    verified |-> FALSE]]
    /\ Answered(p, "save")
    /\ UNCHANGED <<user, mailbox, verifiedBy, crossed, tries>>

\* "Verify Email": the row is read, for the address and whether it is verified.
AskForCode(p) ==
    /\ Pressable(p, "send")
    /\ ~page[p].verified
    /\ ~user.verified
    /\ PutRequest(p, "send",
                  [Idle EXCEPT !.step = "storing", !.email = user.email])
    /\ UNCHANGED <<user, page, mailbox, verifiedBy, crossed, tries>>

\* A new code replaces the stored one and lifts the lock.  The mail goes to the
\* address that was read, or is lost.
setEmailVerificationToken(p) ==
    /\ request[p]["send"].step = "storing"
    /\ \E c \in Codes :
          /\ c = 1 + Cardinality({d \in Codes : mailbox[d] # NoMailbox})
          /\ user' = [user EXCEPT !.code = c, !.fresh = TRUE,
                                  !.attempts = 0, !.locked = FALSE]
          /\ mailbox' = [mailbox EXCEPT ![c] = request[p]["send"].email]
    /\ tries' = 0
    /\ Answered(p, "send")
    /\ UNCHANGED <<page, verifiedBy, crossed>>

-------------------------------------------------------------------------------
(* verifyEmailCode: the row is read once, and everything is decided on it. *)

Entering(p) ==
    /\ Pressable(p, "confirm")
    /\ ~page[p].verified
    /\ UNCHANGED <<user, page, mailbox, verifiedBy, crossed>>

Comparable == user.code # NoCode /\ ~user.locked /\ user.fresh

\* An address that is verified already is reported as verified now.
EnterAnyway(p) ==
    /\ Entering(p)
    /\ user.verified
    /\ GotoStep(p, "confirm", "fetching")
    /\ UNCHANGED tries

EnterWithoutComparing(p) ==
    /\ Entering(p)
    /\ ~user.verified
    /\ user.code # NoCode /\ ~user.locked
    /\ PutRequest(p, "confirm",
                  [Idle EXCEPT !.step = "clearing", !.code = user.code])
    /\ UNCHANGED tries

EnterExpired(p) ==
    /\ Entering(p)
    /\ ~user.verified
    /\ user.code # NoCode /\ ~user.locked /\ ~user.fresh
    /\ PutRequest(p, "confirm",
                  [Idle EXCEPT !.step = "clearing", !.code = user.code])
    /\ UNCHANGED tries

EnterWrong(p) ==
    /\ Entering(p)
    /\ ~user.verified
    /\ Comparable
    /\ user.attempts < MaxStored
    /\ PutRequest(p, "confirm",
                  [Idle EXCEPT !.step = "counting", !.code = user.code,
                               !.attempts = user.attempts])
    /\ tries' = tries + 1

\* The stored code, which its reader found in a mailbox.
EnterRight(p) ==
    /\ Entering(p)
    /\ ~user.verified
    /\ Comparable
    /\ mailbox[user.code] # NoMailbox
    /\ PutRequest(p, "confirm",
                  [Idle EXCEPT !.step = "marking", !.code = user.code])
    /\ UNCHANGED tries

clearEmailVerificationToken(p) ==
    /\ request[p]["confirm"].step = "clearing"
    /\ user' = [user EXCEPT !.code = NoCode, !.fresh = FALSE,
                            !.attempts = 0, !.locked = FALSE]
    /\ Answered(p, "confirm")
    /\ UNCHANGED <<page, mailbox, verifiedBy, crossed, tries>>

incrementAndLockLate(p) ==
    LET r == request[p]["confirm"] IN
    /\ r.step = "counting"
    /\ user' = [user EXCEPT !.attempts = @ + 1]
    /\ IF r.attempts + 1 > MaxAttempts
          THEN GotoStep(p, "confirm", "locking")
          ELSE Answered(p, "confirm")
    /\ UNCHANGED <<page, mailbox, verifiedBy, crossed, tries>>

\* The database counts; whether to lock is decided on the count that was read.
incrementEmailVerificationAttempts(p) ==
    LET r == request[p]["confirm"] IN
    /\ r.step = "counting"
    /\ user' = [user EXCEPT !.attempts = @ + 1]
    /\ IF r.attempts + 1 >= MaxAttempts
          THEN GotoStep(p, "confirm", "locking")
          ELSE Answered(p, "confirm")
    /\ UNCHANGED <<page, mailbox, verifiedBy, crossed, tries>>

lockEmailVerification(p) ==
    /\ request[p]["confirm"].step = "locking"
    /\ user' = [user EXCEPT !.locked = TRUE]
    /\ Answered(p, "confirm")
    /\ UNCHANGED <<page, mailbox, verifiedBy, crossed, tries>>

markEmailVerified(p) ==
    /\ request[p]["confirm"].step = "marking"
    /\ user' = [user EXCEPT !.verified = TRUE, !.code = NoCode, !.fresh = FALSE]
    /\ verifiedBy' = request[p]["confirm"].code
    /\ GotoStep(p, "confirm", "fetching")
    /\ UNCHANGED <<page, mailbox, crossed, tries>>

\* Only a code that was accepted makes the page fetch the user again.
Fetched(p) ==
    /\ request[p]["confirm"].step = "fetching"
    /\ page' = [page EXCEPT ![p] = KnownOf(user)]
    /\ Answered(p, "confirm")
    /\ UNCHANGED <<user, mailbox, verifiedBy, crossed, tries>>

-------------------------------------------------------------------------------
(* Time, and a page that is loaded again. *)

CodeExpires ==
    /\ user.fresh
    /\ user' = [user EXCEPT !.fresh = FALSE]
    /\ UNCHANGED <<page, request, mailbox, verifiedBy, crossed, tries>>

LockEnds ==
    /\ user.locked
    /\ user' = [user EXCEPT !.locked = FALSE]
    /\ tries' = 0
    /\ UNCHANGED <<page, request, mailbox, verifiedBy, crossed>>

OpenProfile(p) ==
    /\ \A b \in Buttons : request[p][b].step = "idle"
    /\ page' = [page EXCEPT ![p] = KnownOf(user)]
    /\ UNCHANGED <<user, request, mailbox, verifiedBy, crossed, tries>>

VerificationNext ==
    \/ \E p \in Pages :
          \/ ChangeEmail(p)
          \/ EmailChanged(p)
          \/ AskForCode(p)
          \/ setEmailVerificationToken(p)
          \/ EnterAnyway(p)
          \/ EnterExpired(p)
          \/ EnterWrong(p)
          \/ EnterRight(p)
          \/ clearEmailVerificationToken(p)
          \/ incrementEmailVerificationAttempts(p)
          \/ lockEmailVerification(p)
          \/ markEmailVerified(p)
          \/ Fetched(p)
          \/ OpenProfile(p)
    \/ CodeExpires
    \/ LockEnds

VerificationSpec == VerificationInit /\ [][VerificationNext]_verificationVars

-------------------------------------------------------------------------------
(* Properties. *)

VerificationTypeOK ==
    /\ user \in User
    /\ page \in [Pages -> Known]
    /\ request \in [Pages -> [Buttons -> Request]]
    /\ mailbox \in [Codes -> Mailboxes \cup {NoMailbox}]
    /\ verifiedBy \in Codes \cup {NoCode}
    /\ crossed \in BOOLEAN
    /\ tries \in Nat

\* An address counts as verified only because a code was read in its own
\* mailbox, unless the address was changed while a request was between reading
\* and writing the row (auth.service.ts:365-436, users.service.ts:290-295).
VerifiedByItsMailbox ==
    user.verified /\ ~crossed => mailbox[verifiedBy] = user.email

\* With n pages, a code is compared with fewer than MaxAttempts - 1 + 2n wrong
\* ones before the lock: n attempts may have read the count before the last one
\* that did not lock was counted, and n more before the lock was stored
\* (auth.service.ts:424-431).
FewTries == tries < MaxAttempts - 1 + 2 * Cardinality(Pages)

\* A fresh code is only taken from the row when the address becomes verified,
\* when an address is saved, or by an attempt that found an older code expired
\* (auth.service.ts:417-419).
FreshCodeKept ==
    [][user.fresh /\ user'.code = NoCode =>
          \/ user'.verified
          \/ \E p \in Pages : request'[p]["save"] # request[p]["save"]
          \/ \E p \in Pages :
                /\ request[p]["confirm"].step = "clearing"
                /\ request[p]["confirm"].code # user.code]_verificationVars
=============================================================================
