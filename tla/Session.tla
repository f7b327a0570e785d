------------------------------- MODULE Session --------------------------------
(***************************************************************************)
(* A browser's session: the tokens in localStorage, which all its tabs     *)
(* share, and the calls that send them (useApi).                           *)
(*                                                                         *)
(* A call answered with 401 asks for new tokens, stores them and is sent   *)
(* once more; when it gets none, or a 401 again, it removes the tokens     *)
(* whoever stored them and goes to the login page.  Nothing keeps two      *)
(* calls from refreshing at once, and nothing tells a refresh that the     *)
(* user has logged out meanwhile.  Tokens are signed, not stored: the API  *)
(* accepts any it made until it expires.                                   *)
(*                                                                         *)
(* Simplifications.  What a tab shows of the user is left out: a sign-up   *)
(* sheet is an application page, and the login form it offers may be open  *)
(* in any of them.  Posting a login form with a wrong password is one more *)
(* call, whose 401 is handled as any other's.                              *)
(***************************************************************************)
EXTENDS Naturals, FiniteSets

CONSTANTS
    Tabs,     \* tabs of one browser
    Calls,    \* calls a tab may have under way
    Accounts, \* users who sign in from it
    NoAccount \* no user

ASSUME SessionNoAccount == NoAccount \notin Accounts

VARIABLES
    stored, \* localStorage: whose tokens, and whether the access token lives
    tab,    \* tab[t]: whether it shows the application or the login page
    call    \* call[t][c]: a call under way

sessionVars == <<stored, tab, call>>

Owner == Accounts \cup {NoAccount}
Stored == [owner : Owner, live : BOOLEAN]
NoTokens == [owner |-> NoAccount, live |-> FALSE]

View == {"app", "login"}

\* "owner" and "live" are those of the token that was sent.
Call == [step : {"idle", "sent", "refreshing", "retried"},
         kind : {"api", "login"}, owner : Owner, live : BOOLEAN]
NoCall == [step |-> "idle", kind |-> "api", owner |-> NoAccount, live |-> FALSE]

SessionInit ==
    /\ stored = NoTokens
    /\ tab = [t \in Tabs |-> "login"]
    /\ call = [t \in Tabs |-> [c \in Calls |-> NoCall]]

Set(t, c, r) == call' = [call EXCEPT ![t][c] = r]
Send(t, c, step, kind) ==
    Set(t, c, [step |-> step, kind |-> kind,
               owner |-> stored'.owner, live |-> stored'.live])

\* Tokens are removed and the tab goes to the login page.
SignedOut(t, c) ==
    /\ stored' = NoTokens
    /\ tab' = [tab EXCEPT ![t] = "login"]
    /\ Set(t, c, NoCall)

-------------------------------------------------------------------------------
(* request() of useApi. *)

Request(t, c) ==
    /\ call[t][c].step = "idle"
    /\ tab[t] = "app"
    /\ UNCHANGED <<stored, tab>>
    /\ Send(t, c, "sent", "api")

\* A login form is posted with a wrong email or password.
RequestLogin(t, c) ==
    /\ \A d \in Calls : call[t][d].kind = "login" => call[t][d].step = "idle"
    /\ call[t][c].step = "idle"
    /\ UNCHANGED <<stored, tab>>
    /\ Send(t, c, "sent", "login")

Refused(r) == r.kind = "login" \/ ~r.live

\* An answer other than 401.
AnswerOk(t, c) ==
    /\ call[t][c].step \in {"sent", "retried"}
    /\ ~Refused(call[t][c])
    /\ Set(t, c, NoCall)
    /\ UNCHANGED <<stored, tab>>

UnauthorizedAgain(t, c) ==
    /\ call[t][c].step \in {"sent", "retried"}
    /\ Refused(call[t][c])
    /\ stored.owner # NoAccount
    /\ UNCHANGED <<stored, tab>>
    /\ Send(t, c, "refreshing", call[t][c].kind)

UnauthorizedWithOld(t, c) ==
    LET r == call[t][c] IN
    /\ r.step = "sent" /\ Refused(r)
    /\ r.owner # NoAccount
    /\ Set(t, c, [r EXCEPT !.step = "refreshing"])
    /\ UNCHANGED <<stored, tab>>

\* 401, and there is a refresh token by now: it is sent.
Unauthorized(t, c) ==
    /\ call[t][c].step = "sent"
    /\ Refused(call[t][c])
    /\ stored.owner # NoAccount
    /\ UNCHANGED <<stored, tab>>
    /\ Send(t, c, "refreshing", call[t][c].kind)

\* 401 without a refresh token, or to the second attempt.
UnauthorizedForGood(t, c) ==
    LET r == call[t][c] IN
    /\ Refused(r)
    /\ \/ r.step = "sent" /\ stored.owner = NoAccount
       \/ r.step = "retried"
    /\ SignedOut(t, c)

\* New tokens: stored, and the call is sent again with what is stored now.
refreshToken(t, c) ==
    /\ call[t][c].step = "refreshing"
    /\ stored' = [owner |-> call[t][c].owner, live |-> TRUE]
    /\ Send(t, c, "retried", call[t][c].kind)
    /\ UNCHANGED tab

\* The API refuses to refresh, or fails.
RefreshRefused(t, c) ==
    /\ call[t][c].step = "refreshing"
    /\ SignedOut(t, c)

\* No answer: the call is given up, and the tokens stay.
CallLost(t, c) ==
    /\ call[t][c].step # "idle"
    /\ Set(t, c, NoCall)
    /\ UNCHANGED <<stored, tab>>

-------------------------------------------------------------------------------
(* Signing in and out. *)

\* Login, registration or Google answered with tokens; the page goes to "/", or
\* stays at the sheet.
useLogin(t, u) ==
    /\ stored' = [owner |-> u, live |-> TRUE]
    /\ tab' = [tab EXCEPT ![t] = "app"]
    /\ UNCHANGED call

\* The address bar: any page of the application, or the login page.
Visit(t, view) ==
    /\ tab[t] # view
    /\ tab' = [tab EXCEPT ![t] = view]
    /\ call' = [call EXCEPT ![t] = [c \in Calls |-> NoCall]]
    /\ UNCHANGED stored

\* From the menu, which goes to the login page, or from a sheet, which logs
\* out by itself whoever is not its applicant.  Calls that are under way are
\* not aborted.
Logout(t) ==
    /\ tab[t] = "app"
    /\ stored' = NoTokens
    /\ \E view \in View : tab' = [tab EXCEPT ![t] = view]
    /\ UNCHANGED call

\* A quarter of an hour.
AccessTokenExpires ==
    /\ stored.live
    /\ stored' = [stored EXCEPT !.live = FALSE]
    /\ UNCHANGED <<tab, call>>

\* A token that was sent in time and is checked too late.
SentTokenExpires(t, c) ==
    /\ call[t][c].step \in {"sent", "retried"}
    /\ call[t][c].live
    /\ ~stored.live
    /\ call' = [call EXCEPT ![t][c].live = FALSE]
    /\ UNCHANGED <<stored, tab>>

Answer(t, c) ==
    \/ AnswerOk(t, c)
    \/ Unauthorized(t, c)
    \/ UnauthorizedForGood(t, c)
    \/ refreshToken(t, c)
    \/ RefreshRefused(t, c)
    \/ CallLost(t, c)

SessionNext ==
    \/ \E t \in Tabs, c \in Calls :
          \/ Request(t, c)
          \/ RequestLogin(t, c)
          \/ Answer(t, c)
          \/ SentTokenExpires(t, c)
    \/ \E t \in Tabs :
          \/ \E u \in Accounts : useLogin(t, u)
          \/ \E view \in View : Visit(t, view)
          \/ Logout(t)
    \/ AccessTokenExpires

\* Every call is answered or given up; nothing else has to happen.
SessionSpec ==
    /\ SessionInit /\ [][SessionNext]_sessionVars
    /\ \A t \in Tabs, c \in Calls : WF_sessionVars(Answer(t, c))

-------------------------------------------------------------------------------
(* Properties. *)

SessionTypeOK ==
    /\ stored \in Stored
    /\ tab \in [Tabs -> View]
    /\ call \in [Tabs -> [Calls -> Call]]

\* A user whose tokens are gone, in whichever tab and with whatever calls of his
\* under way, only comes back by signing in, unless one of them was refreshing
\* already: its answer stores tokens and signs him in again
\* (AuthProvider.tsx:56-63, useApi.ts:44-59, 84-107).
Gone(u) ==
    /\ stored.owner # u
    /\ \A t \in Tabs, c \in Calls :
          call[t][c].step = "refreshing" => call[t][c].owner # u

GoneForGood ==
    [][\A u \in Accounts :
          Gone(u) => Gone(u)' \/ \E t \in Tabs : useLogin(t, u)]_sessionVars

\* A call is sent at most twice: it ends.
EveryCallEnds ==
    \A t \in Tabs, c \in Calls :
       call[t][c].step # "idle" ~> call[t][c].step = "idle"
=============================================================================
