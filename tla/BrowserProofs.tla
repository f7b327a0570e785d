---------------------------- MODULE BrowserProofs -----------------------------
(***************************************************************************)
(* Proofs about what a browser keeps and shows: Session, Messages,         *)
(* Workspace, Calendar and Listing, for any number of tabs, calls, users,  *)
(* mails, organizations and meets, any calendar and any rows; and about    *)
(* MCBrowser, in which one of them moves.                                  *)
(***************************************************************************)
EXTENDS MCBrowser, FiniteSetTheorems, TLAPS

-------------------------------------------------------------------------------
(* Types of Session. *)

\* Putting a call in its place keeps the type of all of them.
LEMMA SetTypes ==
    ASSUME call \in [Tabs -> [Calls -> Call]], NEW t \in Tabs, NEW c \in Calls,
           NEW r \in Call, Set(t, c, r)
    PROVE  call' \in [Tabs -> [Calls -> Call]]
  BY DEF Set

LEMMA NoCallTypes == NoCall \in Call /\ NoTokens \in Stored
  BY DEF NoCall, NoTokens, Call, Stored, Owner

\* A call sends what is stored.
LEMMA SendTypes ==
    ASSUME call \in [Tabs -> [Calls -> Call]], stored' \in Stored,
           NEW t \in Tabs, NEW c \in Calls,
           NEW step \in {"sent", "refreshing", "retried"},
           NEW kind \in {"api", "login"}, Send(t, c, step, kind)
    PROVE  call' \in [Tabs -> [Calls -> Call]]
  <1>1. [step |-> step, kind |-> kind, owner |-> stored'.owner,
         live |-> stored'.live] \in Call
    BY DEF Stored, Call
  <1> QED
    BY <1>1, SetTypes DEF Send

LEMMA AnswerTypes ==
    ASSUME SessionTypeOK, NEW t \in Tabs, NEW c \in Calls, Answer(t, c)
    PROVE  SessionTypeOK'
  <1> USE DEF SessionTypeOK
  <1>0. call[t][c] \in Call
    OBVIOUS
  <1>1. ASSUME SignedOut(t, c) PROVE SessionTypeOK'
    BY <1>1, NoCallTypes, SetTypes DEF SignedOut, View
  <1>2. CASE AnswerOk(t, c) \/ CallLost(t, c)
    BY <1>2, NoCallTypes, SetTypes DEF AnswerOk, CallLost
  <1>3. CASE Unauthorized(t, c)
    BY <1>0, <1>3, SendTypes DEF Unauthorized, Call
  <1>4. CASE UnauthorizedForGood(t, c) \/ RefreshRefused(t, c)
    BY <1>1, <1>4 DEF UnauthorizedForGood, RefreshRefused
  <1>5. CASE refreshToken(t, c)
    <2>1. stored' \in Stored
      BY <1>0, <1>5 DEF refreshToken, Stored, Call
    <2>2. call' \in [Tabs -> [Calls -> Call]]
      BY <1>0, <1>5, <2>1, SendTypes DEF refreshToken, Call
    <2> QED
      BY <1>5, <2>1, <2>2 DEF refreshToken
  <1> QED
    BY <1>2, <1>3, <1>4, <1>5 DEF Answer

LEMMA SessionTypesKept ==
    SessionTypeOK /\ [SessionNext]_sessionVars => SessionTypeOK'
  <1> SUFFICES ASSUME SessionTypeOK, [SessionNext]_sessionVars
               PROVE  SessionTypeOK'
    OBVIOUS
  <1> USE DEF SessionTypeOK
  <1>1. ASSUME NEW t \in Tabs, NEW c \in Calls,
               Request(t, c) \/ RequestLogin(t, c)
        PROVE  SessionTypeOK'
    BY <1>1, SendTypes DEF Request, RequestLogin
  <1>2. ASSUME NEW t \in Tabs, NEW c \in Calls, SentTokenExpires(t, c)
        PROVE  SessionTypeOK'
    <2>1. call[t][c] \in Call
      OBVIOUS
    <2>2. [call[t][c] EXCEPT !.live = FALSE] \in Call
      BY <2>1 DEF Call
    <2> QED
      BY <1>2, <2>2 DEF SentTokenExpires
  <1>3. ASSUME NEW t \in Tabs, NEW u \in Accounts, useLogin(t, u)
        PROVE  SessionTypeOK'
    BY <1>3 DEF useLogin, Stored, Owner, View
  <1>4. ASSUME NEW t \in Tabs, NEW p \in View, Visit(t, p)
        PROVE  SessionTypeOK'
    BY <1>4, NoCallTypes DEF Visit
  <1>5. ASSUME NEW t \in Tabs, Logout(t) PROVE SessionTypeOK'
    BY <1>5, NoCallTypes DEF Logout
  <1>6. CASE AccessTokenExpires
    BY <1>6 DEF AccessTokenExpires, Stored
  <1>7. CASE UNCHANGED sessionVars
    BY <1>7 DEF sessionVars
  <1> QED
    BY <1>1, <1>2, <1>3, <1>4, <1>5, <1>6, <1>7, AnswerTypes DEF SessionNext

LEMMA SessionTypesStart == SessionInit => SessionTypeOK
  BY NoCallTypes DEF SessionInit, SessionTypeOK, View

\* Every token, tab and call keeps its type.
THEOREM SessionTypesHold == SessionSpec => []SessionTypeOK
  BY SessionTypesStart, SessionTypesKept, PTL DEF SessionSpec

-------------------------------------------------------------------------------
(* Whoever is gone stays away. *)

\* A call that has changed is not refreshing for u.
OnlyCall(t, c, u) ==
    /\ \A s \in Tabs, d \in Calls :
          s # t \/ d # c => call'[s][d] = call[s][d]
    /\ call'[t][c].step = "refreshing" => call'[t][c].owner # u

LEMMA GoneIfOnly ==
    ASSUME NEW u \in Accounts, Gone(u), NEW t \in Tabs, NEW c \in Calls,
           OnlyCall(t, c, u), stored'.owner # u
    PROVE  Gone(u)'
  BY DEF Gone, OnlyCall

LEMMA GoneKept ==
    ASSUME SessionTypeOK, SessionNext, NEW u \in Accounts, Gone(u)
    PROVE  Gone(u)' \/ \E t \in Tabs : useLogin(t, u)
  <1>0. /\ call \in [Tabs -> [Calls -> Call]] /\ stored \in Stored
        /\ u # NoAccount
    BY SessionNoAccount DEF SessionTypeOK
  <1>1. ASSUME NEW t \in Tabs, NEW c \in Calls, NEW r,
               Set(t, c, r), stored'.owner # u,
               r.step = "refreshing" => r.owner # u
        PROVE  Gone(u)'
    <2>1. OnlyCall(t, c, u)
      BY <1>0, <1>1 DEF Set, OnlyCall
    <2> QED
      BY <1>1, <2>1, GoneIfOnly
  <1>2. ASSUME NEW t \in Tabs, NEW c \in Calls,
               \/ Request(t, c) \/ RequestLogin(t, c) \/ Unauthorized(t, c)
        PROVE  Gone(u)'
    BY <1>1, <1>2 DEF Request, RequestLogin, Unauthorized, Send, Gone
  <1>3. ASSUME NEW t \in Tabs, NEW c \in Calls,
               AnswerOk(t, c) \/ CallLost(t, c)
        PROVE  Gone(u)'
    BY <1>1, <1>3 DEF AnswerOk, CallLost, NoCall, Gone
  <1>4. ASSUME NEW t \in Tabs, NEW c \in Calls,
               UnauthorizedForGood(t, c) \/ RefreshRefused(t, c)
        PROVE  Gone(u)'
    BY <1>0, <1>1, <1>4 DEF UnauthorizedForGood, RefreshRefused, SignedOut,
                            NoCall, NoTokens
  <1>5. ASSUME NEW t \in Tabs, NEW c \in Calls, refreshToken(t, c)
        PROVE  Gone(u)'
    <2>1. stored'.owner = call[t][c].owner /\ call[t][c].owner # u
      BY <1>5 DEF refreshToken, Gone
    <2> QED
      BY <1>1, <1>5, <2>1 DEF refreshToken, Send
  <1>6. ASSUME NEW t \in Tabs, NEW c \in Calls, SentTokenExpires(t, c)
        PROVE  Gone(u)'
    <2>1. call'[t][c].step = call[t][c].step /\ call[t][c].step # "refreshing"
      BY <1>0, <1>6 DEF SentTokenExpires, Call
    <2>2. OnlyCall(t, c, u)
      BY <1>0, <1>6, <2>1 DEF SentTokenExpires, OnlyCall
    <2> QED
      BY <1>6, <2>2, GoneIfOnly DEF SentTokenExpires, Gone
  <1>7. ASSUME NEW t \in Tabs, NEW v \in Accounts, useLogin(t, v)
        PROVE  Gone(u)' \/ \E s \in Tabs : useLogin(s, u)
    <2>1. CASE v = u
      BY <1>7, <2>1
    <2>2. CASE v # u
      BY <1>7, <2>2 DEF useLogin, Gone
    <2> QED
      BY <2>1, <2>2
  <1>8. ASSUME NEW t \in Tabs, NEW p \in View, Visit(t, p)
        PROVE  Gone(u)'
    <2>1. \A s \in Tabs, d \in Calls :
             call'[s][d].step = "refreshing" => call'[s][d] = call[s][d]
      BY <1>0, <1>8 DEF Visit, NoCall
    <2> QED
      BY <1>8, <2>1 DEF Visit, Gone
  <1>9. ASSUME NEW t \in Tabs, Logout(t) PROVE Gone(u)'
    BY <1>0, <1>9 DEF Logout, Gone, NoTokens
  <1>10. CASE AccessTokenExpires
    <2>1. stored'.owner = stored.owner
      BY <1>0, <1>10 DEF AccessTokenExpires, Stored
    <2> QED
      BY <1>10, <2>1 DEF AccessTokenExpires, Gone
  <1> QED
    BY <1>2, <1>3, <1>4, <1>5, <1>6, <1>7, <1>8, <1>9, <1>10
       DEF SessionNext, Answer

\* The action of GoneForGood.
GoneStep ==
    \A u \in Accounts : Gone(u) => Gone(u)' \/ \E t \in Tabs : useLogin(t, u)

\* A user whose tokens are gone and none of whose calls is refreshing only comes
\* back by signing in, however many tabs and calls there are.
THEOREM GoneStaysGone == SessionSpec => GoneForGood
  <1>1. SessionTypeOK /\ [SessionNext]_sessionVars => [GoneStep]_sessionVars
    BY GoneKept DEF GoneStep
  <1>2. SessionSpec => [][GoneStep]_sessionVars
    BY <1>1, SessionTypesStart, SessionTypesKept, PTL DEF SessionSpec
  <1> QED
    BY <1>2 DEF GoneForGood, GoneStep

-------------------------------------------------------------------------------
(* Why a call ends: the part of EveryCallEnds that is not about fairness. *)

\* How many more answers a call can still need.
Ahead == [sent |-> 3, refreshing |-> 2, retried |-> 1, idle |-> 0]

\* A call under way never goes back, and an answer brings it on.
CallAdvances(t, c) ==
    call[t][c].step # "idle" =>
       /\ Ahead[call'[t][c].step] <= Ahead[call[t][c].step]
       /\ Answer(t, c) => Ahead[call'[t][c].step] < Ahead[call[t][c].step]

AllAdvance == \A t \in Tabs, c \in Calls : CallAdvances(t, c)

LEMMA SetAdvances ==
    ASSUME SessionTypeOK, NEW t \in Tabs, NEW c \in Calls, NEW r, Set(t, c, r)
    PROVE  /\ call'[t][c] = r
           /\ \A s \in Tabs, d \in Calls :
                 s # t \/ d # c => call'[s][d] = call[s][d]
  BY DEF SessionTypeOK, Set

\* What an answer does to a call, and that it needs one under way.
LEMMA AnswerAdvances ==
    ASSUME SessionTypeOK, NEW t \in Tabs, NEW c \in Calls, Answer(t, c)
    PROVE  /\ Ahead[call'[t][c].step] < Ahead[call[t][c].step]
           /\ \A s \in Tabs, d \in Calls :
                 s # t \/ d # c => call'[s][d] = call[s][d]
  <1>0. call[t][c].step \in {"idle", "sent", "refreshing", "retried"}
    BY DEF SessionTypeOK, Call
  <1>1. ASSUME NEW r, Set(t, c, r),
               Ahead[r.step] < Ahead[call[t][c].step]
        PROVE  /\ Ahead[call'[t][c].step] < Ahead[call[t][c].step]
               /\ \A s \in Tabs, d \in Calls :
                     s # t \/ d # c => call'[s][d] = call[s][d]
    BY <1>1, SetAdvances
  <1>2. /\ Ahead["idle"] = 0 /\ Ahead["retried"] = 1
        /\ Ahead["refreshing"] = 2 /\ Ahead["sent"] = 3
    BY DEF Ahead
  <1>3. ASSUME Set(t, c, NoCall), call[t][c].step # "idle"
        PROVE  /\ Ahead[call'[t][c].step] < Ahead[call[t][c].step]
               /\ \A s \in Tabs, d \in Calls :
                     s # t \/ d # c => call'[s][d] = call[s][d]
    <2>1. Ahead[NoCall.step] < Ahead[call[t][c].step]
      BY <1>0, <1>2, <1>3 DEF NoCall
    <2> QED
      BY <1>1, <1>3, <2>1
  <1>4. CASE AnswerOk(t, c) \/ CallLost(t, c)
    BY <1>3, <1>4 DEF AnswerOk, CallLost
  <1>5. CASE UnauthorizedForGood(t, c) \/ RefreshRefused(t, c)
    BY <1>3, <1>5 DEF UnauthorizedForGood, RefreshRefused, SignedOut
  <1>6. CASE Unauthorized(t, c)
    BY <1>1, <1>2, <1>6 DEF Unauthorized, Send
  <1>7. CASE refreshToken(t, c)
    BY <1>1, <1>2, <1>7 DEF refreshToken, Send
  <1> QED
    BY <1>4, <1>5, <1>6, <1>7 DEF Answer

LEMMA CallsKeepAdvancing ==
    ASSUME SessionTypeOK, [SessionNext]_sessionVars
    PROVE  AllAdvance
  <1>0. \A t \in Tabs, c \in Calls : Ahead[call[t][c].step] \in 0 .. 3
    BY DEF SessionTypeOK, Call, Ahead
  <1>1. \A t \in Tabs, c \in Calls :
           Answer(t, c) => Ahead[call'[t][c].step] < Ahead[call[t][c].step]
    BY AnswerAdvances
  <1> SUFFICES ASSUME NEW t \in Tabs, NEW c \in Calls,
                      call[t][c].step # "idle"
               PROVE  Ahead[call'[t][c].step] <= Ahead[call[t][c].step]
    BY <1>1 DEF AllAdvance, CallAdvances
  <1>2. ASSUME call'[t][c].step \in {call[t][c].step, "idle"}
        PROVE  Ahead[call'[t][c].step] <= Ahead[call[t][c].step]
    BY <1>0, <1>2 DEF Ahead
  <1>3. ASSUME NEW s \in Tabs, NEW d \in Calls,
               Request(s, d) \/ RequestLogin(s, d)
        PROVE  call'[t][c].step \in {call[t][c].step, "idle"}
    <2>1. call[s][d].step = "idle" /\ \E r : Set(s, d, r)
      BY <1>3 DEF Request, RequestLogin, Send
    <2>2. s # t \/ d # c
      BY <2>1
    <2> QED
      BY <2>1, <2>2, SetAdvances
  <1>4. ASSUME NEW s \in Tabs, NEW d \in Calls, Answer(s, d)
        PROVE  Ahead[call'[t][c].step] <= Ahead[call[t][c].step]
    <2>1. CASE s = t /\ d = c
      <3>1. Ahead[call'[t][c].step] < Ahead[call[t][c].step]
        BY <1>4, <2>1, AnswerAdvances
      <3>2. Ahead[call'[t][c].step] \in 0 .. 3
        BY <1>4, <2>1, AnswerTypes DEF SessionTypeOK, Call, Ahead
      <3> QED
        BY <1>0, <3>1, <3>2
    <2>2. CASE s # t \/ d # c
      BY <1>2, <1>4, <2>2, AnswerAdvances
    <2> QED
      BY <2>1, <2>2
  <1>5. ASSUME NEW s \in Tabs, NEW d \in Calls, SentTokenExpires(s, d)
        PROVE  call'[t][c].step \in {call[t][c].step, "idle"}
    BY <1>5 DEF SentTokenExpires, SessionTypeOK, Call
  <1>6. ASSUME NEW s \in Tabs, NEW p \in View, Visit(s, p)
        PROVE  call'[t][c].step \in {call[t][c].step, "idle"}
    BY <1>6 DEF Visit, SessionTypeOK, NoCall
  <1>7. CASE UNCHANGED call
    BY <1>2, <1>7
  <1>8. ASSUME NEW s \in Tabs,
               Logout(s) \/ \E u \in Accounts : useLogin(s, u)
        PROVE  UNCHANGED call
    BY <1>8 DEF Logout, useLogin
  <1>9. AccessTokenExpires \/ UNCHANGED sessionVars => UNCHANGED call
    BY DEF AccessTokenExpires, sessionVars
  <1> QED
    BY <1>2, <1>3, <1>4, <1>5, <1>6, <1>7, <1>8, <1>9 DEF SessionNext

\* A call is sent at most twice and refreshes at most once between: whatever
\* other calls, tabs and sign-ins do, it never goes back, and each answer brings
\* it nearer its end, so that it takes three at most (useApi.ts:39-118).
THEOREM CallsOnlyAdvance == SessionSpec => [][AllAdvance]_sessionVars
  <1>1. SessionTypeOK /\ [SessionNext]_sessionVars => [AllAdvance]_sessionVars
    BY CallsKeepAdvancing
  <1> QED
    BY <1>1, SessionTypesStart, SessionTypesKept, PTL DEF SessionSpec

-------------------------------------------------------------------------------
(* Messages. *)

LEMMA MessageTypes ==
    /\ NoSelection \in MessagesDialog
    /\ \A m \in Mails, s \in MailSteps : mail \in [Mails -> Mail] =>
          [mail EXCEPT ![m].step = s] \in [Mails -> Mail]
  BY MessagesConstants DEF NoSelection, MessagesDialog, Mail

\* Saving waits for delivery, and what was not read came to the organizer.
MessagesInv ==
    /\ MessagesTypeOK
    /\ \A m \in Mails : mail[m].step = "save" => m \in delivered
    /\ ListedWasDelivered
    /\ \A r \in messages \cup dialog.shown : ~r.read => r.to = Organizer

LEMMA MessagesStart == MessagesInit => MessagesInv
  <1> SUFFICES ASSUME MessagesInit PROVE MessagesInv
    OBVIOUS
  <1>1. mail \in [Mails -> Mail] /\ \A m \in Mails : mail[m].step = "none"
    BY DEF MessagesInit, Mail, MailSteps
  <1> QED
    BY <1>1, MessageTypes
       DEF MessagesInit, MessagesInv, MessagesTypeOK, ListedWasDelivered,
           NoSelection

\* A row is added for a mail that was delivered.
LEMMA SaveKeeps ==
    ASSUME MessagesInv, NEW m \in Mails, NEW r \in Message, Save(m, r),
           r.id = m, ~r.read => r.to = Organizer
    PROVE  MessagesInv'
  <1>1. mail' \in [Mails -> Mail]
    BY MessageTypes DEF Save, MessagesInv, MessagesTypeOK, MailSteps
  <1>2. \A n \in Mails : mail'[n].step = "save" => mail[n].step = "save"
    BY DEF Save, MessagesInv, MessagesTypeOK, Mail
  <1> QED
    BY <1>1, <1>2 DEF Save, MessagesInv, MessagesTypeOK, ListedWasDelivered

LEMMA MessagesStep ==
    ASSUME MessagesInv, [MessagesNext]_messagesVars
    PROVE  MessagesInv'
  <1> USE DEF MessagesInv
  <1>1. ASSUME NEW m \in Mails, handleIncoming(m) PROVE MessagesInv'
    <2>0. PICK a \in Attendees \cup {NoAttendee} :
             mail' = [mail EXCEPT ![m].step = "deliver", ![m].attendee = a]
      BY <1>1 DEF handleIncoming
    <2>1. /\ mail' \in [Mails -> Mail]
          /\ \A n \in Mails : mail'[n].step = "save" => mail[n].step = "save"
      BY <2>0 DEF MessagesTypeOK, Mail, MailSteps
    <2> QED
      BY <1>1, <2>1 DEF handleIncoming, MessagesTypeOK, ListedWasDelivered
  <1>2. ASSUME NEW m \in Mails, NEW a \in Attendees, messageAttendees(m, a)
        PROVE  MessagesInv'
    <2>1. /\ mail' \in [Mails -> Mail]
          /\ \A n \in Mails : mail'[n].step = "save" => mail[n].step = "save"
      BY <1>2 DEF messageAttendees, MessagesTypeOK, Mail, MailSteps
    <2> QED
      BY <1>2, <2>1 DEF messageAttendees, MessagesTypeOK, ListedWasDelivered
  <1>3. ASSUME NEW m \in Mails, sendEmail(m) PROVE MessagesInv'
    <2>1. /\ mail' \in [Mails -> Mail]
          /\ \A n \in Mails : n # m => mail'[n] = mail[n]
      BY <1>3 DEF sendEmail, MessagesTypeOK, Mail, MailSteps
    <2> QED
      BY <1>3, <2>1 DEF sendEmail, MessagesTypeOK, ListedWasDelivered
  <1>4. ASSUME NEW m \in Mails, saveIncomingMessage(m) PROVE MessagesInv'
    <2> DEFINE added == [id |-> m, attendee |-> mail[m].attendee,
                         to |-> Organizer, read |-> FALSE]
    <2>1. added \in Message /\ added.id = m /\ added.to = Organizer
      BY MessagesConstants DEF Message, MessagesTypeOK, Mail
    <2>2. Save(m, added)
      BY <1>4 DEF saveIncomingMessage
    <2> HIDE DEF added
    <2> QED
      BY <2>1, <2>2, SaveKeeps
  <1>5. ASSUME NEW m \in Mails, saveMessage(m) PROVE MessagesInv'
    <2> DEFINE added == [id |-> m, attendee |-> mail[m].attendee,
                         to |-> mail[m].address, read |-> TRUE]
    <2>1. added \in Message /\ added.id = m /\ added.read
      BY DEF Message, MessagesTypeOK, Mail
    <2>2. Save(m, added)
      BY <1>5 DEF saveMessage
    <2> HIDE DEF added
    <2> QED
      BY <2>1, <2>2, SaveKeeps
  <1>6. ASSUME NEW m \in Mails, MailFails(m) PROVE MessagesInv'
    <2>1. /\ mail' \in [Mails -> Mail]
          /\ \A n \in Mails : mail'[n].step = "save" => mail[n].step = "save"
      BY <1>6 DEF MailFails, MessagesTypeOK, Mail, MailSteps
    <2>2. delivered \subseteq delivered' /\ delivered' \subseteq Mails
      BY <1>6 DEF MailFails, MessagesTypeOK
    <2> QED
      BY <1>6, <2>1, <2>2 DEF MailFails, MessagesTypeOK, ListedWasDelivered
  <1>7. ASSUME NEW m \in Mails, markAttendeeMessageRead(m) PROVE MessagesInv'
    <2>1. \A r \in messages' : \E s \in messages :
             r = s \/ r = [s EXCEPT !.read = TRUE]
      BY <1>7 DEF markAttendeeMessageRead
    <2>2. \A r \in messages' : /\ r \in Message
                               /\ r.id \in delivered
                               /\ ~r.read => r.to = Organizer
      BY <2>1 DEF MessagesTypeOK, Message, ListedWasDelivered
    <2>3. dialog' \in MessagesDialog /\ dialog'.shown = dialog.shown
      BY <1>7 DEF markAttendeeMessageRead, MessagesTypeOK, MessagesDialog
    <2> QED
      BY <1>7, <2>2, <2>3
         DEF markAttendeeMessageRead, MessagesTypeOK, ListedWasDelivered
  <1>8. ASSUME NEW a \in Attendees, setSelectedAttendeeId(a) PROVE MessagesInv'
    <2>1. /\ dialog' \in MessagesDialog
          /\ dialog'.shown \subseteq dialog.shown
      BY <1>8, MessageTypes
         DEF setSelectedAttendeeId, MessagesTypeOK, MessagesDialog, NoSelection
    <2> QED
      BY <1>8, <2>1
         DEF setSelectedAttendeeId, MessagesTypeOK, ListedWasDelivered
  <1>9. ASSUME NEW a \in Attendees, NEW e \in Addresses, updateAttendee(a, e)
        PROVE  MessagesInv'
    BY <1>9 DEF updateAttendee, MessagesTypeOK, ListedWasDelivered
  <1>10. CASE listAttendeeMessages
    <2>1. /\ dialog' \in MessagesDialog
          /\ dialog'.shown \subseteq messages
      BY <1>10 DEF listAttendeeMessages, MessagesTypeOK, MessagesDialog
    <2> QED
      BY <1>10, <2>1
      DEF listAttendeeMessages, MessagesTypeOK, ListedWasDelivered
  <1>11. ASSUME NEW r \in dialog.shown, markRead(r) PROVE MessagesInv'
    <2>1. dialog' \in MessagesDialog /\ dialog'.shown = dialog.shown
      BY <1>11 DEF markRead, MessagesTypeOK, MessagesDialog, Message
    <2> QED
      BY <1>11, <2>1 DEF markRead, MessagesTypeOK, ListedWasDelivered
  <1>12. CASE UNCHANGED messagesVars
    BY <1>12 DEF messagesVars, MessagesTypeOK, ListedWasDelivered
  <1> QED
    BY <1>1, <1>2, <1>3, <1>4, <1>5, <1>6, <1>7, <1>8, <1>9, <1>10, <1>11,
       <1>12 DEF MessagesNext

THEOREM MessagesInvHolds == MessagesSpec => []MessagesInv
  BY MessagesStart, MessagesStep, PTL DEF MessagesSpec

\* A message that is listed was delivered, whatever failed in between
\* (incoming-mail.controller.ts:147-160, meets.controller.ts:503-566).
THEOREM ListedWereDelivered == MessagesSpec => []ListedWasDelivered
  <1>1. MessagesInv => ListedWasDelivered
    BY DEF MessagesInv
  <1> QED
    BY <1>1, MessagesInvHolds, PTL

\* The dot of unread messages can be put out by clicks, for any addresses that
\* are not a part of the organizer's (ManageAttendeesModal.tsx:134-137).
THEOREM DotsGoOut == MessagesSpec => []DotGoesOut
  <1>1. MessagesInv => DotGoesOut
    BY DEF MessagesInv, DotGoesOut, direction
  <1> QED
    BY <1>1, MessagesInvHolds, PTL

-------------------------------------------------------------------------------
(* Workspace. *)

\* Of a user who is still being fetched no organization is known.
WorkspaceInv ==
    /\ WorkspaceTypeOK
    /\ me.status = "loading" => me.orgs = {}

LEMMA WorkspaceStart == WorkspaceInit => WorkspaceInv
  <1> SUFFICES ASSUME WorkspaceInit PROVE WorkspaceInv
    OBVIOUS
  <1>1. me \in Me /\ me.orgs = {} /\ chooser \in Dialog
    BY DEF WorkspaceInit, Nobody, Me, NoDialog, Dialog
  <1>2. mode \in Mode /\ kept \in [org : MaybeOrg, mode : Mode]
    BY DEF WorkspaceInit, Mode, Modes, MaybeOrg
  <1> QED
    BY <1>1, <1>2 DEF WorkspaceInit, WorkspaceInv, WorkspaceTypeOK, MaybeOrg

LEMMA EffectKeeps ==
    ASSUME WorkspaceInv, Effect
    PROVE  WorkspaceInv'
  <1> USE DEF WorkspaceInv, WorkspaceTypeOK
  <1>0. UNCHANGED <<orgsOf, me, frame, signedIn>>
    BY DEF Effect
  <1>1. CASE ClearOrganization
    BY <1>0, <1>1 DEF ClearOrganization, setCurrentOrganizationId, MaybeOrg
  <1>2. CASE OnlyOrganization
    BY <1>0, <1>2 DEF OnlyOrganization, setCurrentOrganizationId, MaybeOrg,
                      organizationIds, Me
  <1>3. CASE KeepOrganization
    BY <1>0, <1>3 DEF KeepOrganization
  <1>4. CASE AutoChoose
    BY <1>0, <1>4 DEF AutoChoose, setCurrentOrganizationId, MaybeOrg, Options,
                      Dialog
  <1>5. CASE ForgetAutoChoice
    BY <1>0, <1>5 DEF ForgetAutoChoice, Dialog
  <1>6. CASE AllowMode
    BY <1>0, <1>6 DEF AllowMode, FirstAllowed, Mode, Modes
  <1>7. CASE setBaseMode
    BY <1>0, <1>7 DEF setBaseMode, Mode, Modes
  <1>8. CASE KeepMode
    BY <1>0, <1>8 DEF KeepMode
  <1> QED
    BY <1>1, <1>2, <1>3, <1>4, <1>5, <1>6, <1>7, <1>8 DEF Effect

LEMMA EventKeeps ==
    ASSUME WorkspaceInv, Event
    PROVE  WorkspaceInv'
  <1> USE DEF WorkspaceInv, WorkspaceTypeOK
  <1>1. CASE LoadPage
    BY <1>1 DEF LoadPage, Loading, Nobody, Me, NoDialog, Dialog
  <1>2. CASE SignIn
    BY <1>2 DEF SignIn, Me
  <1>3. CASE handleLogout
    <2>1. me' = me \/ me' = Nobody
      BY <1>3 DEF handleLogout
    <2>2. me' \in Me /\ (me'.status = "loading" => me'.orgs = {})
      BY <2>1 DEF Nobody, Me
    <2> QED
      BY <1>3, <2>2 DEF handleLogout, NoDialog, Dialog
  <1>4. CASE useFetchMe
    BY <1>4 DEF useFetchMe, Nobody, Me
  <1>5. CASE useFetchOrganisations
    BY <1>5 DEF useFetchOrganisations, Dialog
  <1>6. CASE useFetchOrganization
    BY <1>6 DEF useFetchOrganization
  <1>7. CASE SwitchOrganization \/ CloseChoice
    BY <1>7 DEF SwitchOrganization, CloseChoice, Dialog
  <1>8. ASSUME NEW o \in Orgs, handleSave(o) PROVE WorkspaceInv'
    BY <1>8 DEF handleSave, setCurrentOrganizationId, MaybeOrg, Dialog
  <1>9. CASE handleToggleLightDark \/ handleToggleGlass
    BY <1>9 DEF handleToggleLightDark, handleToggleGlass, Toggled, Mode, Modes
  <1>10. CASE MembershipChanges
    BY <1>10 DEF MembershipChanges
  <1> QED
    BY <1>1, <1>2, <1>3, <1>4, <1>5, <1>6, <1>7, <1>8, <1>9, <1>10 DEF Event

LEMMA WorkspaceKept ==
    WorkspaceInv /\ [WorkspaceNext]_workspaceVars => WorkspaceInv'
  <1>1. CASE UNCHANGED workspaceVars
    BY <1>1 DEF workspaceVars, WorkspaceInv, WorkspaceTypeOK
  <1> QED
    BY <1>1, EffectKeeps, EventKeeps DEF WorkspaceNext

THEOREM WorkspaceInvHolds == WorkspaceSpec => []WorkspaceInv
  BY WorkspaceStart, WorkspaceKept, PTL DEF WorkspaceSpec

\* The action of OrganizationIsKept.
LeftForReason ==
    /\ current # NoOrg /\ current' # current
    =>
       \/ \E o \in Orgs : handleSave(o)
       \/ LoadPage
       \/ me.status = "none"
       \/ me.status = "known" /\ current \notin me.orgs
       \/ chooser.fetched /\ current \notin chooser.options

LEMMA EffectLeavesForReason ==
    ASSUME WorkspaceInv, Effect, current # NoOrg, current' # current
    PROVE  LeftForReason
  <1>0. me \in Me /\ chooser \in Dialog
    BY DEF WorkspaceInv, WorkspaceTypeOK
  <1>1. CASE ClearOrganization
    BY <1>0, <1>1 DEF ClearOrganization, organizationIds, Me, LeftForReason
  <1>2. CASE AutoChoose
    <2>1. IsFiniteSet(Options)
      BY <1>0, WorkspaceConstants, FS_Subset DEF Options, Dialog
    <2>2. PICK o : Options = {o}
      BY <1>2, <2>1, FS_Singleton DEF AutoChoose
    <2>3. current' = o
      BY <1>2, <2>2 DEF AutoChoose, setCurrentOrganizationId
    <2>4. current \notin chooser.options \/ current \notin me.orgs
      BY <2>2, <2>3 DEF Options, organizationIds
    <2>5. me.status # "loading"
      BY <2>2 DEF WorkspaceInv, Options, organizationIds
    <2> QED
      BY <1>0, <1>2, <2>4, <2>5 DEF AutoChoose, Me, LeftForReason
  <1> QED
    BY <1>1, <1>2 DEF Effect, OnlyOrganization, KeepOrganization,
       ForgetAutoChoice, AllowMode, setBaseMode, KeepMode

\* An organization is only left by choice, or because the tab has learnt that
\* the user is not in it, or knows no user (OrganizationProvider.tsx:39-62,
\* ChooseOrganizationModal.tsx:49-77).
THEOREM OrganizationsAreKept == WorkspaceSpec => OrganizationIsKept
  <1>1. ASSUME WorkspaceInv, [WorkspaceNext]_workspaceVars
        PROVE  [LeftForReason]_workspaceVars
    <2>1. CASE Effect
      BY <1>1, <2>1, EffectLeavesForReason DEF LeftForReason
    <2>2. CASE Event
      BY <2>2 DEF Event, LeftForReason, SignIn, handleLogout, useFetchMe,
         useFetchOrganisations, useFetchOrganization, SwitchOrganization,
         CloseChoice, handleToggleLightDark, handleToggleGlass,
         MembershipChanges
    <2> QED
      BY <1>1, <2>1, <2>2 DEF WorkspaceNext
  <1>2. WorkspaceSpec => [][LeftForReason]_workspaceVars
    BY <1>1, WorkspaceInvHolds, PTL DEF WorkspaceSpec
  <1> QED
    BY <1>2 DEF OrganizationIsKept, LeftForReason

-------------------------------------------------------------------------------
(* Effects come to rest. *)

\* Effects settle because each takes one from the number of those that can
\* still run.  In the dialog, with no organization:
Single == me.status # "loading" /\ Cardinality(organizationIds) = 1
Offered == chooser.fetched /\ Cardinality(Options) = 1

Unchosen(asked, handled) ==
    IF handled THEN IF ~Single THEN 0 ELSE IF asked THEN 2 ELSE 3
    ELSE IF Offered /\ Single /\ asked THEN 4
    ELSE IF Offered THEN 3
    ELSE IF Single THEN 2 ELSE 0

\* In every organization o, while org is kept:
Left(o) == me.status # "loading" /\ o # NoOrg /\ o \notin organizationIds

Unsettled(org, o, asked, handled) ==
    (IF org # o THEN 1 ELSE 0) +
    (IF o = NoOrg
     THEN IF frame = "app" THEN Unchosen(asked, handled)
          ELSE IF handled THEN IF Single THEN 3 ELSE 1
          ELSE IF Single THEN 2 ELSE 0
     ELSE IF Left(o)
     THEN IF frame # "app"
          THEN IF handled THEN IF Single THEN 5 ELSE 3
               ELSE IF Single THEN 4 ELSE 2
          ELSE IF handled /\ ~asked THEN 3 + Unchosen(FALSE, FALSE)
          ELSE 2 + Unchosen(asked, handled)
     ELSE IF frame = "app" /\ asked
     THEN IF ~Offered \/ handled THEN 0 ELSE IF o \in Options THEN 2 ELSE 3
     ELSE IF handled THEN 1 ELSE 0)

OrganizationRank ==
    Unsettled(kept.org, current, chooser.asked, chooser.handled)

\* Glass may end with the organization; a mode that is not allowed may first be
\* changed to glass.
Disallowed(m, base, allowed) ==
    IF frame # "app" THEN 0
    ELSE IF m = "glass" THEN 4
    ELSE (IF base # m THEN 2 ELSE 0)
         + (IF m \in allowed THEN 0
            ELSE IF "light" \in allowed \/ "dark" \in allowed THEN 4 ELSE 6)

ModeRank ==
    (IF kept.mode # mode THEN 1 ELSE 0)
    + Disallowed(mode.now, mode.base, getAllowedThemeModes)

EffectsInv == effects \in Nat /\ effects + OrganizationRank + ModeRank <= 16

LEMMA OrganizationRanks == OrganizationRank \in 0 .. 7
  BY DEF OrganizationRank, Unsettled, Unchosen

LEMMA ModeRanks == ModeRank \in 0 .. 9
  BY DEF ModeRank, Disallowed

\* While the offer of the dialog and the user stay, only the organization, what
\* is kept and two flags of the dialog count.
LEMMA NextOrganizationRank ==
    ASSUME UNCHANGED <<me, frame>>, chooser'.options = chooser.options,
           chooser'.fetched = chooser.fetched
    PROVE  OrganizationRank' =
               Unsettled(kept'.org, current', chooser'.asked, chooser'.handled)
  <1>1. Options' = Options /\ organizationIds' = organizationIds
    BY DEF Options, organizationIds
  <1>2. (Single' <=> Single) /\ (Offered' <=> Offered)
    BY <1>1 DEF Single, Offered
  <1>3. \A a, h : Unchosen(a, h)' = Unchosen(a, h)
    BY <1>2 DEF Unchosen
  <1> QED
    BY <1>1, <1>2, <1>3 DEF OrganizationRank, Unsettled, Left

LEMMA NextModeRank ==
    ASSUME UNCHANGED frame
    PROVE  ModeRank' =
               (IF kept'.mode # mode' THEN 1 ELSE 0)
               + Disallowed(mode'.now, mode'.base, getAllowedThemeModes')
  BY DEF ModeRank, Disallowed

\* The organization's effects leave the mode alone, and a mode that was glass,
\* or one of the default theme, is as near to rest as before.
LEMMA ModeStays ==
    ASSUME WorkspaceInv, NEW o \in MaybeOrg, setCurrentOrganizationId(o),
           UNCHANGED <<mode, frame>>, kept'.mode = kept.mode
    PROVE  ModeRank' <= ModeRank
  <1>1. mode.now \in Modes /\ themed \in BOOLEAN
    BY DEF WorkspaceInv, WorkspaceTypeOK, Mode
  <1>2. \/ getAllowedThemeModes' = getAllowedThemeModes
        \/ getAllowedThemeModes' = {"light", "dark"}
    BY <1>1 DEF getAllowedThemeModes, setCurrentOrganizationId
  <1>3. Disallowed(mode.now, mode.base, getAllowedThemeModes')
            <= Disallowed(mode.now, mode.base, getAllowedThemeModes)
    <2>1. CASE getAllowedThemeModes' = getAllowedThemeModes
      BY <2>1 DEF Disallowed
    <2>2. CASE getAllowedThemeModes' = {"light", "dark"}
      BY <1>1, <2>2 DEF Disallowed, Modes
    <2> QED
      BY <1>2, <2>1, <2>2
  <1>4. ModeRank' = (IF kept.mode # mode THEN 1 ELSE 0)
                    + Disallowed(mode.now, mode.base, getAllowedThemeModes')
    BY NextModeRank
  <1>5. \A allowed : Disallowed(mode.now, mode.base, allowed) \in Int
    BY DEF Disallowed
  <1> QED
    BY <1>3, <1>4, <1>5 DEF ModeRank

LEMMA OrganizationEffectSettles ==
    ASSUME WorkspaceInv, UNCHANGED <<me, frame>>,
           \/ ClearOrganization \/ OnlyOrganization \/ KeepOrganization
           \/ AutoChoose \/ ForgetAutoChoice
    PROVE  OrganizationRank' < OrganizationRank /\ ModeRank' <= ModeRank
  <1> DEFINE org == kept.org
             asked == chooser.asked
             handled == chooser.handled
  <1>1. /\ chooser \in Dialog /\ current \in MaybeOrg
        /\ kept \in [org : MaybeOrg, mode : Mode]
        /\ IsFiniteSet(Options) /\ IsFiniteSet(organizationIds)
        /\ NoOrg \notin organizationIds
        /\ Options \subseteq organizationIds /\ organizationIds \subseteq Orgs
    <2>1. /\ chooser \in Dialog /\ current \in MaybeOrg
          /\ kept \in [org : MaybeOrg, mode : Mode]
          /\ organizationIds \subseteq Orgs
      BY DEF WorkspaceInv, WorkspaceTypeOK, organizationIds, Me
    <2> QED
      BY <2>1, WorkspaceConstants, FS_Subset DEF Options
  <1>2. chooser'.options = chooser.options /\ chooser'.fetched = chooser.fetched
    BY <1>1 DEF Dialog, ClearOrganization, OnlyOrganization, KeepOrganization,
       AutoChoose, ForgetAutoChoice
  <1>3. OrganizationRank' =
            Unsettled(kept'.org, current', chooser'.asked, chooser'.handled)
    BY <1>2, NextOrganizationRank
  <1>4. CASE ClearOrganization
    <2>1. ModeRank' <= ModeRank
      BY <1>4, ModeStays DEF ClearOrganization, MaybeOrg
    <2>2. OrganizationRank' = Unsettled(org, NoOrg, asked, handled)
      BY <1>3, <1>4 DEF ClearOrganization, setCurrentOrganizationId
    <2>3. current # NoOrg /\ Left(current)
      BY <1>4 DEF ClearOrganization, Left
    <2>4. Unsettled(org, NoOrg, asked, handled)
              < Unsettled(org, current, asked, handled)
      BY <2>3 DEF Unsettled, Unchosen
    <2> QED
      BY <2>1, <2>2, <2>4 DEF OrganizationRank
  <1>5. CASE OnlyOrganization
    <2>1. PICK o \in organizationIds : setCurrentOrganizationId(o)
      BY <1>5 DEF OnlyOrganization
    <2>2. current = NoOrg /\ Single /\ organizationIds = {o} /\ o # NoOrg
      BY <1>1, <1>5, <2>1, FS_Singleton DEF OnlyOrganization, Single
    <2>3. Offered => o \in Options
      BY <1>1, <2>2, FS_Singleton DEF Offered
    <2>4. ModeRank' <= ModeRank
      BY <1>1, <1>5, <2>1, ModeStays DEF OnlyOrganization, MaybeOrg
    <2>5. OrganizationRank' = Unsettled(org, o, asked, handled)
      BY <1>3, <1>5, <2>1 DEF OnlyOrganization, setCurrentOrganizationId
    <2>6. ~Left(o)
      BY DEF Left
    <2>7. Unsettled(org, o, asked, handled)
              < Unsettled(org, NoOrg, asked, handled)
      BY <2>2, <2>3, <2>6 DEF Unsettled, Unchosen
    <2> QED
      BY <2>2, <2>4, <2>5, <2>7 DEF OrganizationRank
  <1>6. CASE KeepOrganization
    <2>1. kept'.org = current /\ kept'.mode = kept.mode
      BY <1>1, <1>6 DEF KeepOrganization
    <2>2. ModeRank' <= ModeRank
      <3>1. setCurrentOrganizationId(current) /\ UNCHANGED mode
        BY <1>6 DEF KeepOrganization, setCurrentOrganizationId, WorkspaceInv,
           WorkspaceTypeOK
      <3> QED
        BY <1>1, <2>1, <3>1, ModeStays
    <2>3. OrganizationRank' = Unsettled(current, current, asked, handled)
      BY <1>3, <1>6, <2>1 DEF KeepOrganization
    <2>4. Unsettled(current, current, asked, handled)
              < Unsettled(org, current, asked, handled)
      BY <1>6 DEF KeepOrganization, Unsettled, Unchosen
    <2> QED
      BY <2>2, <2>3, <2>4 DEF OrganizationRank
  <1>7. CASE AutoChoose
    <2>1. PICK o \in Options : setCurrentOrganizationId(o)
      BY <1>7 DEF AutoChoose
    <2>2. o # NoOrg /\ o \in organizationIds /\ Offered /\ ~handled
          /\ (current \in Options => current = o)
      BY <1>1, <1>7, <2>1, FS_Singleton DEF AutoChoose, Offered
    <2>3. me.status # "loading"
      BY <2>2 DEF WorkspaceInv, organizationIds
    <2>4. ModeRank' <= ModeRank
      BY <1>1, <1>7, <2>1, <2>2, ModeStays DEF AutoChoose, MaybeOrg
    <2>5. OrganizationRank' = Unsettled(org, o, FALSE, TRUE)
      BY <1>1, <1>3, <1>7, <2>1 DEF AutoChoose, setCurrentOrganizationId, Dialog
    <2>6. ~Left(o) /\ frame = "app" /\ (asked \/ current = NoOrg)
      BY <1>7, <2>2 DEF Left, AutoChoose, DialogOpen
    <2>7. Unsettled(org, o, FALSE, TRUE)
              < Unsettled(org, current, asked, handled)
      BY <2>1, <2>2, <2>3, <2>6 DEF Unsettled, Unchosen, Left
    <2> QED
      BY <2>4, <2>5, <2>7 DEF OrganizationRank
  <1>8. CASE ForgetAutoChoice
    <2>1. ModeRank' <= ModeRank
      <3>1. setCurrentOrganizationId(current) /\ UNCHANGED <<mode, kept>>
        BY <1>8 DEF ForgetAutoChoice, setCurrentOrganizationId, WorkspaceInv,
           WorkspaceTypeOK
      <3> QED
        BY <1>1, <3>1, ModeStays
    <2>2. OrganizationRank' = Unsettled(org, current, asked, FALSE)
      BY <1>1, <1>3, <1>8 DEF ForgetAutoChoice, Dialog
    <2>3. handled /\ (frame = "app" => ~asked /\ current # NoOrg)
      BY <1>8 DEF ForgetAutoChoice, DialogOpen
    <2>4. Unsettled(org, current, asked, FALSE)
              < Unsettled(org, current, asked, handled)
      BY <2>3 DEF Unsettled, Unchosen
    <2> QED
      BY <2>2, <2>1, <2>4 DEF OrganizationRank
  <1> QED
    BY <1>4, <1>5, <1>6, <1>7, <1>8

LEMMA ModeEffectSettles ==
    ASSUME WorkspaceInv, UNCHANGED <<me, frame>>,
           AllowMode \/ setBaseMode \/ KeepMode
    PROVE  ModeRank' < ModeRank /\ OrganizationRank' = OrganizationRank
  <1> DEFINE allowed == getAllowedThemeModes
             keep == IF kept.mode # mode THEN 1 ELSE 0
  <1>1. mode \in Mode /\ kept \in [org : MaybeOrg, mode : Mode]
    BY DEF WorkspaceInv, WorkspaceTypeOK
  <1>2. kept'.org = kept.org /\ UNCHANGED <<current, themed, chooser>>
    BY <1>1 DEF AllowMode, setBaseMode, KeepMode
  <1>3. OrganizationRank' = OrganizationRank
    BY <1>2, NextOrganizationRank DEF OrganizationRank
  <1>4. getAllowedThemeModes' = allowed
    BY <1>2 DEF getAllowedThemeModes
  <1>5. ModeRank' = (IF kept'.mode # mode' THEN 1 ELSE 0)
                    + Disallowed(mode'.now, mode'.base, allowed)
    BY <1>4, NextModeRank
  <1>6. /\ keep \in {0, 1} /\ (IF kept'.mode # mode' THEN 1 ELSE 0) \in {0, 1}
        /\ \A m, base : Disallowed(m, base, allowed) \in 0 .. 8
    BY DEF Disallowed
  <1>7. CASE AllowMode
    <2>1. mode'.now = FirstAllowed /\ mode'.base = mode.base
      BY <1>1, <1>7 DEF AllowMode, Mode
    <2>2. frame = "app" /\ mode.now \notin allowed
      BY <1>7 DEF AllowMode
    <2>3. allowed \subseteq Modes /\ allowed # {}
      BY WorkspaceConstants
      DEF getAllowedThemeModes, Modes, WorkspaceInv, WorkspaceTypeOK, MaybeOrg
    <2>4. FirstAllowed \in allowed
      BY <2>3 DEF FirstAllowed, Modes
    <2>5. mode.now = "glass" => FirstAllowed # "glass"
      BY <2>2, <2>4
    <2>6. Disallowed(FirstAllowed, mode.base, allowed) + 1
              < Disallowed(mode.now, mode.base, allowed)
      BY <2>2, <2>4, <2>5 DEF Disallowed, FirstAllowed
    <2>7. ModeRank' = (IF kept'.mode # mode' THEN 1 ELSE 0)
                      + Disallowed(FirstAllowed, mode.base, allowed)
      BY <1>5, <2>1
    <2> QED
      BY <1>3, <1>6, <2>6, <2>7 DEF ModeRank
  <1>8. CASE setBaseMode
    <2>1. mode'.now = mode.now /\ mode'.base = mode.now
      BY <1>1, <1>8 DEF setBaseMode, Mode
    <2>2. Disallowed(mode.now, mode.now, allowed) + 1
              < Disallowed(mode.now, mode.base, allowed)
      BY <1>8 DEF setBaseMode, Disallowed
    <2>3. ModeRank' = (IF kept'.mode # mode' THEN 1 ELSE 0)
                      + Disallowed(mode.now, mode.now, allowed)
      BY <1>5, <2>1
    <2> QED
      BY <1>3, <1>6, <2>2, <2>3 DEF ModeRank
  <1>9. CASE KeepMode
    <2>1. kept'.mode = mode /\ mode' = mode
      BY <1>1, <1>9 DEF KeepMode
    <2>2. ModeRank' = Disallowed(mode.now, mode.base, allowed)
      BY <1>5, <1>6, <2>1
    <2> QED
      BY <1>3, <1>6, <1>9, <2>2 DEF KeepMode, ModeRank
  <1> QED
    BY <1>7, <1>8, <1>9

LEMMA Sums ==
    /\ \A e \in Nat, o, p, m, n \in Int :
           e + o + m <= 16 /\ p < o /\ n <= m => e + 1 + p + n <= 16
    /\ \A e \in Nat, o, p, m, n \in Int :
           e + o + m <= 16 /\ p = o /\ n < m => e + 1 + p + n <= 16
    /\ \A p \in 0 .. 7, n \in 0 .. 9 : 0 + p + n <= 16
    /\ \A e \in Nat, p \in 0 .. 7, n \in 0 .. 9 : e + p + n <= 16 => e <= 16
  OBVIOUS

\* The effects of the provider, the dialog and the frame come to rest, for any
\* number of organizations and whatever modes their themes allow
\* (OrganizationProvider.tsx:39-68, ChooseOrganizationModal.tsx:49-77,
\* MainLayout.tsx:241-267).
THEOREM EffectsComeToRest == WorkspaceSpec => []EffectsSettle
  <1>1. WorkspaceInit => EffectsInv
    <2> SUFFICES ASSUME WorkspaceInit PROVE EffectsInv
      OBVIOUS
    <2>1. effects = 0
      BY DEF WorkspaceInit
    <2> QED
      BY <2>1, OrganizationRanks, ModeRanks, Sums DEF EffectsInv
  <1>2. WorkspaceInv /\ EffectsInv /\ [WorkspaceNext]_workspaceVars
        => EffectsInv'
    <2> SUFFICES ASSUME WorkspaceInv, EffectsInv, [WorkspaceNext]_workspaceVars
                 PROVE  EffectsInv'
      OBVIOUS
    <2>1. OrganizationRank \in Int /\ ModeRank \in Int
      BY OrganizationRanks, ModeRanks
    <2>2. OrganizationRank' \in 0 .. 7
      BY DEF OrganizationRank, Unsettled, Unchosen
    <2>3. ModeRank' \in 0 .. 9
      BY DEF ModeRank, Disallowed
    <2>4. OrganizationRank' \in Int /\ ModeRank' \in Int
      BY <2>2, <2>3
    <2>5. CASE Effect
      <3>1. \/ OrganizationRank' < OrganizationRank /\ ModeRank' <= ModeRank
            \/ OrganizationRank' = OrganizationRank /\ ModeRank' < ModeRank
        BY <2>5, OrganizationEffectSettles, ModeEffectSettles DEF Effect
      <3>2. effects \in Nat /\ effects' = effects + 1
        BY <2>5 DEF Effect, EffectsInv
      <3>3. effects + OrganizationRank + ModeRank <= 16
        BY DEF EffectsInv
      <3>4. effects + 1 + OrganizationRank' + ModeRank' <= 16
        BY <2>1, <2>4, <3>1, <3>2, <3>3, Sums
      <3> QED
        BY <3>2, <3>4 DEF EffectsInv
    <2>6. CASE Event
      <3>1. effects' = 0
        BY <2>6 DEF Event
      <3> QED
        BY <2>2, <2>3, <3>1, Sums DEF EffectsInv
    <2>7. CASE UNCHANGED workspaceVars
      <3>1. OrganizationRank' = OrganizationRank /\ ModeRank' = ModeRank
        <4>1. UNCHANGED getAllowedThemeModes
          BY <2>7 DEF workspaceVars, getAllowedThemeModes
        <4>2. OrganizationRank' = OrganizationRank
          BY <2>7, NextOrganizationRank DEF workspaceVars, OrganizationRank
        <4>3. ModeRank' = ModeRank
          BY <2>7, <4>1, NextModeRank DEF workspaceVars, ModeRank
        <4> QED
          BY <4>2, <4>3
      <3> QED
        BY <2>7, <3>1 DEF workspaceVars, EffectsInv
    <2> QED
      BY <2>5, <2>6, <2>7 DEF WorkspaceNext
  <1>3. EffectsInv => EffectsSettle
    BY OrganizationRanks, ModeRanks, Sums DEF EffectsInv, EffectsSettle
  <1> QED
    BY <1>1, <1>2, <1>3, WorkspaceInvHolds, PTL DEF WorkspaceSpec

-------------------------------------------------------------------------------
(* Calendar. *)

(* Types of Calendar. *)

LEMMA MonthsHaveDays ==
    /\ 1 \in Months
    /\ \A m \in Months : startOfMonth(m) \in Int /\ endOfMonth(m) \in Int
  <1>1. DOMAIN FirstDay = 1 .. Len(FirstDay) /\ Len(FirstDay) \in Nat
    BY CalendarConstants
  <1>2. Cardinality(DOMAIN FirstDay) = Len(FirstDay)
    BY <1>1, CalendarConstants, FS_Interval
  <1>3. Months = 1 .. Len(FirstDay) - 1
    BY <1>2 DEF Months
  <1>4. \A i \in 1 .. Len(FirstDay) : FirstDay[i] \in Int
    BY CalendarConstants
  <1>5. \A m \in Months : m \in 1 .. Len(FirstDay) /\ m + 1 \in 1 .. Len(FirstDay)
    BY <1>1, <1>3
  <1>6. 1 \in Months
    BY <1>1, <1>3, CalendarConstants
  <1>7. \A m \in Months : FirstDay[m] \in Int /\ FirstDay[m + 1] \in Int
    BY <1>4, <1>5
  <1> QED
    BY <1>6, <1>7 DEF startOfMonth, endOfMonth

LEMMA GridStarts ==
    \A m \in Months : GridStart(m) \in Int /\ GridStart(m) % 7 = 0
  <1>1. \A d \in Int : d - (d % 7) \in Int /\ (d - (d % 7)) % 7 = 0
    OBVIOUS
  <1> QED
    BY <1>1, MonthsHaveDays DEF GridStart, Weekday

LEMMA CalendarTypesKept ==
    CalendarTypeOK /\ [CalendarNext]_calendarVars => CalendarTypeOK'
  <1> SUFFICES ASSUME CalendarTypeOK, [CalendarNext]_calendarVars
               PROVE  CalendarTypeOK'
    OBVIOUS
  <1> USE DEF CalendarTypeOK
  <1>1. ASSUME NEW m \in Months, addMonths(m) PROVE CalendarTypeOK'
    BY <1>1 DEF addMonths
  <1>2. ASSUME NEW v \in {"agenda", "month"}, setMobileView(v)
        PROVE  CalendarTypeOK'
    BY <1>2 DEF setMobileView
  <1>3. ASSUME NEW d \in getMonthGrid(month), openDayDrawer(d)
        PROVE  CalendarTypeOK'
    BY <1>3, GridStarts DEF openDayDrawer, getMonthGrid
  <1>4. ASSUME NEW m \in CalendarMeets, renderOccurrenceCard(m)
        PROVE  CalendarTypeOK'
    BY <1>4 DEF renderOccurrenceCard
  <1>5. ASSUME NEW m \in CalendarMeets, setSelectedMeet(m)
        PROVE  CalendarTypeOK'
    BY <1>5 DEF setSelectedMeet
  <1>6. CASE closeDrawer \/ closeInfo \/ Resize
    BY <1>6 DEF closeDrawer, closeInfo, Resize
  <1>7. CASE UNCHANGED calendarVars
    BY <1>7 DEF calendarVars
  <1> QED
    BY <1>1, <1>2, <1>3, <1>4, <1>5, <1>6, <1>7 DEF CalendarNext

LEMMA CalendarTypesStart == CalendarInit => CalendarTypeOK
  BY MonthsHaveDays DEF CalendarInit, CalendarTypeOK

\* The calendar keeps showing a month that it knows, whichever way its pages are
\* turned, and dialogs about meets that there are (CalendarPage.tsx:201-257).
THEOREM CalendarTypesHold == CalendarSpec => []CalendarTypeOK
  BY CalendarTypesStart, CalendarTypesKept, PTL DEF CalendarSpec

-------------------------------------------------------------------------------
(* The bars of the desktop. *)

LEMMA EndsOfInterval ==
    ASSUME NEW a \in Int, NEW b \in Int, a <= b
    PROVE  Min(a .. b) = a /\ Max(a .. b) = b
  <1>1. a \in a .. b /\ \A y \in a .. b : a <= y
    OBVIOUS
  <1>2. \A x \in a .. b : (\A y \in a .. b : x <= y) => x = a
    BY <1>1
  <1>3. b \in a .. b /\ \A y \in a .. b : b >= y
    OBVIOUS
  <1>4. \A x \in a .. b : (\A y \in a .. b : x >= y) => x = b
    BY <1>3
  <1> QED
    BY <1>1, <1>2, <1>3, <1>4 DEF Min, Max

\* The days of a week have one Sunday.
LEMMA SundayOfWeek ==
    ASSUME NEW g \in Int, g % 7 = 0, NEW d \in g .. g + 6
    PROVE  d - Weekday(d) = g
  BY DEF Weekday

\* Two intervals have an interval in common.
LEMMA CommonDays ==
    ASSUME NEW a \in Int, NEW b \in Int, NEW c \in Int, NEW e \in Int,
           NEW W, W = (a .. b) \cap (c .. e), W # {}
    PROVE  Min(W) .. Max(W) = W
  <1> DEFINE x == IF a <= c THEN c ELSE a
             y == IF b <= e THEN b ELSE e
  <1>1. W = x .. y
    OBVIOUS
  <1>2. x \in Int /\ y \in Int
    OBVIOUS
  <1> HIDE DEF x, y
  <1>3. x <= y
    BY <1>1, <1>2
  <1> QED
    BY <1>1, <1>2, <1>3, EndsOfInterval

\* The days from the start of a meet to its end.
Span(t) == t.start .. t.end

\* The bars of a meet in a week.
BarsOf(m, week) ==
    IF LaterEnd(meet[m]) /\ week \cap Span(meet[m]) # {}
    THEN {[meet |-> m, days |-> week \cap Span(meet[m])]} ELSE {}

LEMMA BarsOfWeek ==
    ASSUME CalendarTypeOK, NEW m \in CalendarMeets, NEW g \in Int, g % 7 = 0
    PROVE  {bar \in weekGroups(g .. g + 6) : bar.meet = m} = BarsOf(m, g .. g + 6)
  <1> DEFINE week == g .. g + 6
             t == meet[m]
             items == {i \in CalendarMeets \X week :
                         i[1] \in multiDayMeetsByDay(i[2])}
             Sunday(d) == d - Weekday(d)
             Group(i) == {d \in week : /\ <<i[1], d>> \in items
                                       /\ Sunday(d) = Sunday(i[2])}
             Bar(i) == [meet |-> i[1], days |-> Min(Group(i)) .. Max(Group(i))]
             bar == [meet |-> m, days |-> week \cap Span(t)]
  <1>1. weekGroups(week) = {Bar(i) : i \in items}
    BY DEF weekGroups
  <1>2. \A d \in week : <<m, d>> \in items <=> LaterEnd(t) /\ d \in Span(t)
    BY DEF multiDayMeetsByDay, Span
  <1>3. \A d \in week : Sunday(d) = g
    BY SundayOfWeek
  <1>4. \A i \in items : i[1] \in CalendarMeets /\ i[2] \in week /\ i = <<i[1], i[2]>>
    OBVIOUS
  <1>5. ASSUME NEW i \in items, i[1] = m
        PROVE  Bar(i) = bar
    <2>1. LaterEnd(t) /\ i[2] \in Span(t) /\ i[2] \in week
      BY <1>2, <1>4, <1>5
    <2>2. Group(i) = week \cap Span(t)
      <3>1. \A d \in week : d \in Group(i) <=> d \in Span(t)
        BY <1>2, <1>3, <1>4, <1>5, <2>1
      <3> QED
        BY <3>1
    <2>3. t.start \in Int /\ t.end \in Int
      BY <2>1, CalendarConstants DEF LaterEnd, CalendarTypeOK, Times
    <2>4. Min(week \cap Span(t)) .. Max(week \cap Span(t)) = week \cap Span(t)
      <3>1. PICK a \in Int, b \in Int : a = t.start /\ b = t.end
        BY <2>3
      <3>2. week \cap Span(t) = (g .. g + 6) \cap (a .. b)
        BY <3>1 DEF Span
      <3>3. (g .. g + 6) \cap (a .. b) # {} /\ g + 6 \in Int
        BY <2>1, <3>2
      <3> DEFINE W == (g .. g + 6) \cap (a .. b)
                 h == g + 6
      <3>4. W = (g .. h) \cap (a .. b) /\ W # {} /\ h \in Int
        BY <3>3
      <3> HIDE DEF W, h
      <3>5. Min(W) .. Max(W) = W
        BY <3>4, CommonDays
      <3> QED
        BY <3>2, <3>5 DEF W
    <2> QED
      BY <1>5, <2>2, <2>4
  <1> HIDE DEF items, Bar, bar, week, t
  <1>6. ASSUME NEW b \in weekGroups(week), b.meet = m
        PROVE  b = bar /\ LaterEnd(t) /\ week \cap Span(t) # {}
    <2>1. PICK i \in items : b = Bar(i)
      BY <1>1
    <2>2. i[1] = m
      BY <1>6, <2>1 DEF Bar
    <2>3. LaterEnd(t) /\ i[2] \in week /\ i[2] \in Span(t)
      BY <1>2, <1>4, <2>2
    <2> QED
      BY <1>5, <2>1, <2>2, <2>3
  <1>7. ASSUME LaterEnd(t), NEW d \in week \cap Span(t)
        PROVE  bar \in weekGroups(week) /\ bar.meet = m
    <2>1. <<m, d>> \in items
      BY <1>2, <1>7
    <2>2. Bar(<<m, d>>) = bar
      BY <1>5, <2>1
    <2> QED
      BY <1>1, <2>1, <2>2 DEF bar
  <1>8. BarsOf(m, week) =
          IF LaterEnd(t) /\ week \cap Span(t) # {} THEN {bar} ELSE {}
    BY DEF BarsOf, bar, t
  <1>9. {b \in weekGroups(week) : b.meet = m} = BarsOf(m, week)
    BY <1>6, <1>7, <1>8
  <1> QED
    BY <1>9 DEF week

\* The grid is six weeks.
LEMMA WeeksOfGrid ==
    ASSUME NEW m \in Months
    PROVE  /\ getMonthGrid(m) = UNION chunkWeeks(m)
           /\ \A week \in chunkWeeks(m) :
                 \E g \in Int : g % 7 = 0 /\ week = g .. g + 6
  <1> DEFINE G == GridStart(m)
  <1>1. G \in Int /\ G % 7 = 0
    BY GridStarts
  <1> HIDE DEF G
  <1>2. \A d \in G .. G + 41 : \E i \in 0 .. 5 : d \in G + 7 * i .. G + 7 * i + 6
    <2> TAKE d \in G .. G + 41
    <2>1. (d - G) \div 7 \in 0 .. 5
      BY <1>1
    <2>2. d \in G + 7 * ((d - G) \div 7) .. G + 7 * ((d - G) \div 7) + 6
      BY <1>1
    <2> QED
      BY <2>1, <2>2
  <1>3. \A i \in 0 .. 5 : /\ G + 7 * i .. G + 7 * i + 6 \subseteq G .. G + 41
                         /\ G + 7 * i \in Int /\ (G + 7 * i) % 7 = 0
    BY <1>1
  <1>4. chunkWeeks(m) = {G + 7 * i .. G + 7 * i + 6 : i \in 0 .. 5}
    BY DEF chunkWeeks, G
  <1>5. getMonthGrid(m) = G .. G + 41
    BY DEF getMonthGrid, G
  <1>6. \A d : d \in UNION chunkWeeks(m) <=>
                \E i \in 0 .. 5 : d \in G + 7 * i .. G + 7 * i + 6
    BY <1>4
  <1>7. getMonthGrid(m) = UNION chunkWeeks(m)
    BY <1>2, <1>3, <1>5, <1>6
  <1> QED
    BY <1>3, <1>4, <1>7

\* The days of a meet that has a start.
LEMMA StartOfDated ==
    ASSUME CalendarTypeOK, NEW m \in Dated
    PROVE  /\ m \in CalendarMeets /\ meet[m] \in Times
           /\ meet[m].start \in Days /\ meet[m].start \in Int
           /\ meet[m].end # NoDay => meet[m].end \in Days /\ meet[m].end \in Int
           /\ meet[m].midnight \in BOOLEAN
  BY CalendarConstants DEF CalendarTypeOK, Dated, Times

LEMMA DesktopShows ==
    ASSUME CalendarTypeOK, NEW m \in Dated
    PROVE  DesktopDays(m) = DaysOf(meet[m]) \cap getMonthGrid(month)
  <1> DEFINE t == meet[m]
             grid == getMonthGrid(month)
             weeks == chunkWeeks(month)
             single == {d \in grid : m \in singleDayMeetsByDay(d)}
             bars(week) == {b \in weekGroups(week) : b.meet = m}
  <1>1. m \in CalendarMeets /\ t.start \in Int /\ (t.end # NoDay => t.end \in Int)
    BY StartOfDated
  <1>2. /\ grid = UNION weeks
        /\ \A week \in weeks : \E g \in Int : g % 7 = 0 /\ week = g .. g + 6
    BY WeeksOfGrid DEF CalendarTypeOK
  <1>3. \A week \in weeks :
           bars(week) = BarsOf(m, week)
    BY <1>1, <1>2, BarsOfWeek
  <1>4. DesktopDays(m) = single \cup UNION {UNION {b.days : b \in bars(week)} :
                                              week \in weeks}
    BY DEF DesktopDays, Bars
  <1> HIDE DEF t, grid, weeks, bars
  <1>5. \A d : d \in UNION {UNION {b.days : b \in bars(week)} : week \in weeks} <=>
                \E week \in weeks : \E b \in bars(week) : d \in b.days
    OBVIOUS
  <1>6. ASSUME NEW week \in weeks, NEW d
        PROVE  (\E b \in bars(week) : d \in b.days) <=>
                  LaterEnd(t) /\ d \in week /\ d \in Span(t)
    <2>1. CASE LaterEnd(t) /\ week \cap Span(t) # {}
      <3>1. bars(week) = {[meet |-> m, days |-> week \cap Span(t)]}
        BY <1>3, <2>1 DEF BarsOf, t
      <3> QED
        BY <2>1, <3>1
    <2>2. CASE ~(LaterEnd(t) /\ week \cap Span(t) # {})
      <3>1. bars(week) = {}
        BY <1>3, <2>2 DEF BarsOf, t
      <3> QED
        BY <2>2, <3>1
    <2> QED
      BY <2>1, <2>2
  <1>7. \A d : d \in UNION {UNION {b.days : b \in bars(week)} : week \in weeks} <=>
                LaterEnd(t) /\ d \in grid /\ d \in Span(t)
    BY <1>2, <1>5, <1>6
  <1>8. \A d : d \in single <=> ~LaterEnd(t) /\ d \in grid /\ d = t.start
    BY <1>1 DEF singleDayMeetsByDay, t
  <1>9. CASE LaterEnd(t)
    <2>1. DaysOf(t) = Span(t)
      BY <1>1, <1>9 DEF LaterEnd, DaysOf, Span
    <2> QED
      BY <1>4, <1>7, <1>8, <1>9, <2>1 DEF t, grid
  <1>10. CASE ~LaterEnd(t)
    <2>1. t.end = NoDay \/ t.end <= t.start
      BY <1>1, <1>10, CalendarConstants DEF LaterEnd
    <2>2. DaysOf(t) = {t.start}
      BY <1>1, <2>1 DEF DaysOf
    <2> QED
      BY <1>4, <1>7, <1>8, <1>10, <2>2 DEF t, grid
  <1> QED
    BY <1>9, <1>10

\* One bar at most in a week.
LEMMA OneBarPerWeek ==
    ASSUME CalendarTypeOK, NEW m \in Dated, NEW week \in chunkWeeks(month)
    PROVE  Cardinality({bar \in weekGroups(week) : bar.meet = m}) <= 1
  <1>1. PICK g \in Int : g % 7 = 0 /\ week = g .. g + 6
    BY WeeksOfGrid DEF CalendarTypeOK
  <1>2. {bar \in weekGroups(week) : bar.meet = m} = BarsOf(m, week)
    BY <1>1, StartOfDated, BarsOfWeek
  <1>3. BarsOf(m, week) = {} \/ \E b : BarsOf(m, week) = {b}
    BY DEF BarsOf
  <1>4. Cardinality({}) = 0 /\ \A b : Cardinality({b}) = 1
    BY FS_EmptySet, FS_Singleton
  <1>5. Cardinality(BarsOf(m, week)) \in {0, 1}
    BY <1>3, <1>4
  <1> QED
    BY <1>2, <1>5

-------------------------------------------------------------------------------
(* The occurrences of the phone. *)

\* Days of 24 hours but for fewer than 24 hours that were left out.
LEMMA HoursToDays ==
    ASSUME NEW n \in Nat, NEW c \in 0 .. 23
    PROVE  (24 * n - c) \div 24 = IF c = 0 THEN n ELSE n - 1
  OBVIOUS

LEMMA PhoneShows ==
    ASSUME CalendarTypeOK, NEW m \in Dated
    PROVE  LET t == meet[m]
               last == IF ClocksForward(t) THEN EndDay(t) - 1 ELSE EndDay(t)
           IN  /\ EndDay(t) \in Int /\ t.start <= last
               /\ PhoneDays(m) = t.start .. last
  <1> DEFINE t == meet[m]
             a == t.start
             e == EndDay(t)
             short == ShortDays \cap (a .. e - 1)
             c == Cardinality(short)
             last == IF ClocksForward(t) THEN e - 1 ELSE e
             total == differenceInDaysInclusive(a, e)
  <1>1. /\ m \in CalendarMeets /\ a \in Days /\ a \in Int
        /\ t.end # NoDay => t.end \in Days /\ t.end \in Int
    BY StartOfDated
  <1>2. e \in Int /\ a <= e /\ (e = a \/ (t.end # NoDay /\ e <= t.end))
    <2>1. CASE t.end = NoDay \/ t.end <= a
      <3>1. e = a
        BY <2>1 DEF EndDay
      <3> HIDE DEF a, e, t
      <3> QED
        BY <1>1, <3>1
    <2>2. CASE ~(t.end = NoDay \/ t.end <= a)
      <3>1. e = IF t.midnight THEN t.end - 1 ELSE t.end
        BY <2>2 DEF EndDay
      <3> HIDE DEF a, e, t
      <3> QED
        BY <1>1, <2>2, <3>1
    <2> QED
      BY <2>1, <2>2
  <1>3. IsFiniteSet(short) /\ c \in 0 .. 23
    <2>1. IsFiniteSet(a .. e - 1)
      BY <1>1, <1>2, FS_Interval
    <2>2. IsFiniteSet(short) /\ c \in Nat
      BY <2>1, FS_Intersection, FS_CardinalityType
    <2>3. CASE e = a
      <3>1. short = {}
        BY <1>1, <2>3
      <3> QED
        BY <2>2, <3>1, FS_EmptySet
    <2>4. CASE t.end # NoDay /\ e <= t.end
      <3> DEFINE all == ShortDays \cap (a .. t.end - 1)
      <3>1. IsFiniteSet(a .. t.end - 1)
        BY <1>1, <2>4, FS_Interval
      <3>2. IsFiniteSet(all) /\ Cardinality(all) \in Nat
        BY <3>1, FS_Intersection, FS_CardinalityType
      <3>3. short \in SUBSET all
        BY <1>1, <1>2, <2>4
      <3>4. Cardinality(all) < 24
        BY <1>1, <2>4, CalendarConstants
      <3> HIDE DEF all, short
      <3>5. c <= Cardinality(all)
        BY <3>2, <3>3, FS_Subset
      <3> QED
        BY <2>2, <3>2, <3>4, <3>5
    <2> QED
      BY <1>2, <2>3, <2>4
  <1>4. ClocksForward(t) <=> c # 0
    <2>1. ClocksForward(t) <=> short # {}
      BY DEF ClocksForward
    <2> QED
      BY <1>3, <2>1, FS_EmptySet
  <1>5. c # 0 => a < e
    <2>1. e = a => short = {}
      BY <1>1
    <2> HIDE DEF a, e, short
    <2>2. short = {} => c = 0
      BY FS_EmptySet
    <2> QED
      BY <1>1, <1>2, <2>1, <2>2
  <1>6. Hours(a, e) = 24 * (e - a) - c
    BY DEF Hours
  <1> HIDE DEF a, e, c, t, short
  <1>7. Hours(a, e) \div 24 = IF c = 0 THEN e - a ELSE e - a - 1
    <2>1. e - a \in Nat
      BY <1>1, <1>2
    <2> QED
      BY <1>3, <1>6, <2>1, HoursToDays
  <1>8. total = IF c = 0 THEN e - a + 1 ELSE e - a
    BY <1>1, <1>2, <1>5, <1>7 DEF differenceInDaysInclusive
  <1>9. a + total - 1 = last /\ total \in Nat /\ total >= 1
    BY <1>1, <1>2, <1>4, <1>5, <1>8
  <1>10. PhoneDays(m) = {a + i : i \in 0 .. total - 1}
    <2>1. a # NoDay
      BY <1>1, CalendarConstants
    <2>2. Occurrences(m) =
            {[meet |-> m, day |-> a + i, index |-> i + 1, total |-> total,
              isStart |-> i = 0, isEnd |-> i = total - 1] : i \in 0 .. total - 1}
      BY <2>1 DEF Occurrences, a, e, t
    <2> HIDE DEF total
    <2>3. ASSUME NEW o \in Occurrences(m)
          PROVE  o.day \in {a + i : i \in 0 .. total - 1}
      BY <2>2
    <2>4. ASSUME NEW i \in 0 .. total - 1
          PROVE  \E o \in Occurrences(m) : o.day = a + i
      <3> DEFINE o == [meet |-> m, day |-> a + i, index |-> i + 1,
                       total |-> total, isStart |-> i = 0,
                       isEnd |-> i = total - 1]
      <3>1. o \in Occurrences(m)
        BY <2>2
      <3>2. o.day = a + i
        OBVIOUS
      <3> QED
        BY <3>1, <3>2
    <2> QED
      BY <2>3, <2>4 DEF PhoneDays
  <1> HIDE DEF total, last
  <1>11. {a + i : i \in 0 .. total - 1} = a .. a + total - 1
    <2>1. \A d \in a .. a + total - 1 : d - a \in 0 .. total - 1 /\ a + (d - a) = d
      BY <1>1, <1>9
    <2>2. \A i \in 0 .. total - 1 : a + i \in a .. a + total - 1
      BY <1>1, <1>9
    <2> QED
      BY <2>1, <2>2
  <1> QED
    BY <1>1, <1>2, <1>9, <1>10, <1>11 DEF a, e, t, last

LEMMA TypesShowDays == CalendarTypeOK => ShownOnItsDays
  <1> SUFFICES ASSUME CalendarTypeOK, NEW m \in Dated
               PROVE  LET t == meet[m]
                          missing ==
                            (IF t.midnight THEN {t.end} ELSE {})
                               \cup (IF ClocksForward(t) THEN {EndDay(t)} ELSE {})
                      IN  /\ PhoneDays(m) \subseteq DaysOf(t)
                          /\ DaysOf(t) \subseteq
                                PhoneDays(m) \cup (missing \ {t.start})
    BY DesktopShows, OneBarPerWeek DEF ShownOnItsDays
  <1> DEFINE t == meet[m]
             last == IF ClocksForward(t) THEN EndDay(t) - 1 ELSE EndDay(t)
  <1>1. t.start \in Int /\ (t.end # NoDay => t.end \in Int)
    BY StartOfDated
  <1>2. /\ EndDay(t) \in Int /\ t.start <= last
        /\ PhoneDays(m) = t.start .. last
    BY PhoneShows
  <1> HIDE DEF t
  <1>3. CASE t.end = NoDay \/ t.end <= t.start
    <2>1. EndDay(t) = t.start /\ DaysOf(t) = {t.start}
      BY <1>1, <1>3 DEF EndDay, DaysOf
    <2> QED
      BY <1>1, <1>2, <2>1 DEF t
  <1>4. CASE ~(t.end = NoDay \/ t.end <= t.start)
    <2>1. DaysOf(t) = t.start .. t.end /\ t.start < t.end
      BY <1>1, <1>4 DEF DaysOf
    <2>2. EndDay(t) = IF t.midnight THEN t.end - 1 ELSE t.end
      BY <1>4 DEF EndDay
    <2>3. \A d \in t.start .. t.end :
             \/ d \in t.start .. last
             \/ t.midnight /\ d = t.end
             \/ ClocksForward(t) /\ d = EndDay(t) /\ d # t.start
      BY <1>1, <1>2, <1>4, <2>2
    <2> QED
      BY <1>1, <1>2, <1>4, <2>1, <2>2, <2>3 DEF t
  <1> QED
    BY <1>3, <1>4

\* A meet is shown on the days from its start to its end and on no other, with at
\* most one bar in a week, whatever the calendar and wherever the meet lies in
\* it; the phone may leave out its last day when it ends at midnight or the
\* clocks go forward meanwhile (CalendarPage.tsx:55-59, 122-183, 650-684).
THEOREM MeetsAreShownOnTheirDays == CalendarSpec => []ShownOnItsDays
  BY CalendarTypesHold, TypesShowDays, PTL

-------------------------------------------------------------------------------
(* Listing. *)

(* Sorting. *)

\* The sequence that SetToSeqs and InOrder describe, by an integer key.
Sorted(S, k) ==
    {s \in SetToSeqs(S) :
        \A i, j \in 1 .. Cardinality(S) : i < j => k[s[i]] <= k[s[j]]}

\* A sequence without repetitions, as long as a set, holds every element of it.
LEMMA SeqHoldsAll ==
    ASSUME NEW S, IsFiniteSet(S), NEW s \in SetToSeqs(S)
    PROVE  /\ Cardinality(S) \in Nat
           /\ s \in [1 .. Cardinality(S) -> S]
           /\ \A i, j \in 1 .. Cardinality(S) : s[i] = s[j] => i = j
           /\ \A x \in S : \E i \in 1 .. Cardinality(S) : s[i] = x
  <1> DEFINE N == Cardinality(S)
  <1>1. N \in Nat
    BY FS_CardinalityType
  <1>2. s \in [1 .. N -> S] /\ \A i, j \in 1 .. N : s[i] = s[j] => i = j
    BY DEF SetToSeqs
  <1>3. s \in Injection(1 .. N, S)
    BY <1>2 DEF Injection, IsInjective
  <1>4. IsFiniteSet(1 .. N) /\ Cardinality(1 .. N) = N
    BY <1>1, FS_Interval
  <1>5. s \in Surjection(1 .. N, S)
    BY <1>3, <1>4, FS_Injection
  <1> QED
    BY <1>1, <1>2, <1>5 DEF Surjection

\* Every finite set can be sorted: the place of an element is the number of
\* those that are not after it.
LEMMA CanBeSorted ==
    ASSUME NEW S, IsFiniteSet(S), NEW k \in [S -> Int]
    PROVE  Sorted(S, k) # {}
  <1> DEFINE N == Cardinality(S)
  <1>1. N \in Nat
    BY FS_CardinalityType
  <1>2. PICK b : b \in Bijection(1 .. N, S)
    BY FS_CardinalityType DEF ExistsBijection
  <1>3. PICK n \in [S -> 1 .. N] : \A x \in S : b[n[x]] = x
    <2>1. \A x \in S : \E i \in 1 .. N : b[i] = x
      BY <1>2 DEF Bijection, Surjection
    <2>2. [x \in S |-> CHOOSE i \in 1 .. N : b[i] = x] \in [S -> 1 .. N]
      BY <2>1
    <2> QED
      BY <2>1, <2>2
  <1>4. \A x, y \in S : n[x] = n[y] => x = y
    BY <1>3
  <1> DEFINE Before(x, y) == k[x] < k[y] \/ (k[x] = k[y] /\ n[x] <= n[y])
             UpTo(y) == {x \in S : Before(x, y)}
             rank == [y \in S |-> Cardinality(UpTo(y))]
  <1>5. \A y \in S : /\ IsFiniteSet(UpTo(y)) /\ rank[y] \in 1 .. N
    <2> TAKE y \in S
    <2>1. UpTo(y) \in SUBSET S /\ y \in UpTo(y)
      BY <1>3
    <2>2. IsFiniteSet(UpTo(y)) /\ Cardinality(UpTo(y)) <= N
      BY <2>1, FS_Subset
    <2>3. Cardinality(UpTo(y)) \in Nat /\ Cardinality(UpTo(y)) # 0
      BY <2>1, <2>2, FS_CardinalityType, FS_EmptySet
    <2> QED
      BY <1>1, <2>2, <2>3
  <1>6. \A x, y \in S : x # y => Before(x, y) \/ Before(y, x)
    BY <1>3
  <1>7. \A x, y \in S : x # y /\ Before(x, y) => rank[x] < rank[y]
    <2> SUFFICES ASSUME NEW x \in S, NEW y \in S, x # y, Before(x, y)
                 PROVE  rank[x] < rank[y]
      OBVIOUS
    <2>1. ~Before(y, x)
      BY <1>3, <1>4
    <2>2. \A z \in S : Before(z, x) => Before(z, y)
      BY <1>3
    <2>3. UpTo(x) \in SUBSET UpTo(y) /\ UpTo(x) # UpTo(y)
      BY <1>3, <2>1, <2>2
    <2>4. /\ Cardinality(UpTo(x)) <= Cardinality(UpTo(y))
          /\ Cardinality(UpTo(x)) # Cardinality(UpTo(y))
      BY <1>5, <2>3, FS_Subset
    <2> QED
      BY <1>5, <2>4
  <1>8. rank \in [S -> 1 .. N]
    BY <1>5
  <1> HIDE DEF Before, UpTo, rank
  <1>9. \A x, y \in S : rank[x] = rank[y] => x = y
    BY <1>1, <1>5, <1>6, <1>7, <1>8
  <1>10. rank \in Surjection(S, 1 .. N)
    <2>1. rank \in Injection(S, 1 .. N)
      BY <1>8, <1>9 DEF Injection, IsInjective
    <2>2. IsFiniteSet(1 .. N) /\ Cardinality(1 .. N) = N
      BY <1>1, FS_Interval
    <2> QED
      BY <2>1, <2>2, FS_Injection
  <1> DEFINE s == [i \in 1 .. N |-> CHOOSE x \in S : rank[x] = i]
  <1>11. \A i \in 1 .. N : s[i] \in S /\ rank[s[i]] = i
    BY <1>10 DEF Surjection
  <1> HIDE DEF s
  <1>12. s \in SetToSeqs(S)
    <2>1. s \in [1 .. N -> S]
      BY <1>11 DEF s
    <2> QED
      BY <1>11, <2>1 DEF SetToSeqs
  <1>13. \A i, j \in 1 .. N : i < j => k[s[i]] <= k[s[j]]
    <2> SUFFICES ASSUME NEW i \in 1 .. N, NEW j \in 1 .. N, i < j
                 PROVE  k[s[i]] <= k[s[j]]
      OBVIOUS
    <2>1. s[i] # s[j] /\ ~Before(s[j], s[i])
      BY <1>1, <1>7, <1>11
    <2> QED
      BY <1>6, <1>11, <2>1 DEF Before
  <1> QED
    BY <1>12, <1>13 DEF Sorted

\* When no two keys are the same the place of an element is determined.
LEMMA PlaceIsDetermined ==
    ASSUME NEW S, IsFiniteSet(S), NEW k \in [S -> Int],
           \A x, y \in S : k[x] = k[y] => x = y,
           NEW s \in Sorted(S, k), NEW i \in 1 .. Cardinality(S)
    PROVE  i = Cardinality({x \in S : k[x] <= k[s[i]]})
  <1> DEFINE N == Cardinality(S)
             T == {x \in S : k[x] <= k[s[i]]}
  <1>0. s \in SetToSeqs(S)
    BY DEF Sorted
  <1>1. /\ N \in Nat /\ s \in [1 .. N -> S]
        /\ \A j, l \in 1 .. N : s[j] = s[l] => j = l
        /\ \A x \in S : \E j \in 1 .. N : s[j] = x
    BY <1>0, SeqHoldsAll
  <1>2. \A j, l \in 1 .. N : j < l => k[s[j]] <= k[s[l]]
    BY DEF Sorted
  <1>3. \A j, l \in 1 .. N : j < l => k[s[j]] < k[s[l]]
    BY <1>1, <1>2
  <1>4. \A j \in 1 .. N : s[j] \in T <=> j <= i
    BY <1>1, <1>3
  <1> DEFINE f == [j \in 1 .. i |-> s[j]]
  <1>5. f \in Bijection(1 .. i, T)
    <2>1. f \in [1 .. i -> T]
      BY <1>1, <1>4
    <2>2. f \in Injection(1 .. i, T)
      BY <1>1, <2>1 DEF Injection, IsInjective
    <2>3. \A x \in T : \E j \in 1 .. i : f[j] = x
      BY <1>1, <1>4
    <2> QED
      BY <2>1, <2>2, <2>3 DEF Bijection, Surjection
  <1>6. IsFiniteSet(1 .. i) /\ Cardinality(1 .. i) = i
    BY FS_Interval
  <1> QED
    BY <1>5, <1>6, FS_Bijection DEF ExistsBijection

\* A set of naturals has a least element.
LEMMA LeastOfNaturals ==
    ASSUME NEW S \in SUBSET Nat, S # {}
    PROVE  Min(S) \in S /\ \A x \in S : Min(S) <= x
  <1>1. PICK n \in S : TRUE
    OBVIOUS
  <1> DEFINE T == {x \in S : x <= n}
             k == [x \in T |-> x]
  <1>2. IsFiniteSet(T) /\ T # {}
    <2>1. n \in Nat /\ \A x \in S : x <= n => x \in 0 .. n
      OBVIOUS
    <2>2. n \in T /\ \A x \in T : x \in 0 .. n
      BY <2>1
    <2>3. IsFiniteSet(0 .. n)
      BY FS_Interval
    <2> HIDE DEF T
    <2>4. T \in SUBSET (0 .. n)
      BY <2>2
    <2>5. IsFiniteSet(T)
      BY <2>3, <2>4, FS_Subset
    <2> QED
      BY <2>2, <2>5

  <1>3. /\ k \in [T -> Int]
        /\ \A x \in T : k[x] = x /\ x \in S /\ x <= n
        /\ \A x \in S : x <= n => x \in T
    <2>1. \A x \in T : x \in S /\ x <= n /\ x \in Int
      OBVIOUS
    <2>2. \A x \in S : x <= n => x \in T
      OBVIOUS
    <2> HIDE DEF T
    <2>3. k \in [T -> Int] /\ \A x \in T : k[x] = x
      BY <2>1
    <2> QED
      BY <2>1, <2>2, <2>3
  <1> HIDE DEF T, k
  <1>5. PICK s : s \in Sorted(T, k)
    BY <1>2, <1>3, CanBeSorted
  <1>6. /\ Cardinality(T) \in Nat /\ s \in [1 .. Cardinality(T) -> T]
        /\ \A x \in T : \E i \in 1 .. Cardinality(T) : s[i] = x
    BY <1>2, <1>5, SeqHoldsAll DEF Sorted
  <1>7. Cardinality(T) # 0
    BY <1>2, FS_EmptySet
  <1>8. 1 \in 1 .. Cardinality(T) /\ s[1] \in T
    BY <1>6, <1>7
  <1>9. \A x \in T : s[1] <= x
    <2> TAKE x \in T
    <2>1. PICK i \in 1 .. Cardinality(T) : s[i] = x
      BY <1>6
    <2>2. i = 1 \/ 1 < i
      BY <1>6
    <2>3. 1 < i => k[s[1]] <= k[s[i]]
      BY <1>5, <1>8 DEF Sorted
    <2> QED
      BY <1>3, <1>8, <2>1, <2>2, <2>3
  <1>10. \A x \in S : s[1] <= x
    BY <1>1, <1>3, <1>8, <1>9
  <1> QED
    BY <1>3, <1>8, <1>10 DEF Min

LEMMA LesserOfTwo ==
    ASSUME NEW a \in Int, NEW b \in Int
    PROVE  Min({a, b}) = IF a <= b THEN a ELSE b
  <1> DEFINE m == IF a <= b THEN a ELSE b
  <1>1. m \in {a, b} /\ \A y \in {a, b} : m <= y
    OBVIOUS
  <1>2. \A x \in {a, b} : (\A y \in {a, b} : x <= y) => x = m
    OBVIOUS
  <1> QED
    BY <1>1, <1>2 DEF Min

-------------------------------------------------------------------------------
(* Pages. *)

\* How many pages of L there are, when there is always one.
PageCount(n, L) ==
    IF (n + L - 1) \div L < 1 THEN 1 ELSE (n + L - 1) \div L

LEMMA Division ==
    ASSUME NEW a \in Nat, NEW L \in Nat \ {0}
    PROVE  /\ a \div L \in Nat
           /\ L * (a \div L) <= a /\ a < L * (a \div L) + L
  OBVIOUS

\* Some page holds the i-th row.
LEMMA SomePageHolds ==
    ASSUME NEW n \in Nat, NEW L \in Nat \ {0}, NEW i \in 1 .. n
    PROVE  \E p \in 1 .. PageCount(n, L) : (p - 1) * L + 1 <= i /\ i <= p * L
  <1> DEFINE q == (i - 1) \div L
             Q == (n + L - 1) \div L
  <1>1. q \in Nat /\ L * q <= i - 1 /\ i - 1 < L * q + L
    BY Division
  <1>2. Q \in Nat /\ n + L - 1 < L * Q + L
    <2>1. n + L - 1 \in Nat
      OBVIOUS
    <2> QED
      BY <2>1, Division
  <1> HIDE DEF q, Q
  <1>3. q < Q
    <2>1. L * q < L * Q
      BY <1>1, <1>2
    <2> QED
      BY <1>1, <1>2, <2>1
  <1>4. q + 1 \in 1 .. PageCount(n, L)
    BY <1>1, <1>2, <1>3 DEF PageCount, Q
  <1>5. ((q + 1) - 1) * L + 1 <= i /\ i <= (q + 1) * L
    BY <1>1
  <1> QED
    BY <1>4, <1>5

LEMMA MorePages ==
    ASSUME NEW m \in Nat, NEW n \in Nat, m <= n, NEW L \in Nat \ {0}
    PROVE  PageCount(m, L) <= PageCount(n, L) /\ PageCount(n, L) \in Nat
  <1> DEFINE q == (m + L - 1) \div L
             Q == (n + L - 1) \div L
  <1>1. m + L - 1 \in Nat /\ n + L - 1 \in Nat
    OBVIOUS
  <1>2. /\ q \in Nat /\ L * q <= m + L - 1
        /\ Q \in Nat /\ n + L - 1 < L * Q + L
    BY <1>1, Division
  <1> HIDE DEF q, Q
  <1>3. L * q < L * (Q + 1)
    BY <1>2
  <1>4. q <= Q
    BY <1>2, <1>3
  <1> QED
    BY <1>2, <1>4 DEF PageCount, q, Q

\* No row is on two pages.
LEMMA PagesAreApart ==
    ASSUME NEW p \in Nat, NEW q \in Nat, p # q, NEW L \in Nat \ {0},
           NEW i \in Nat, (p - 1) * L + 1 <= i, i <= p * L,
           (q - 1) * L + 1 <= i, i <= q * L
    PROVE  FALSE
  <1>1. \A a, b \in Nat : a < b => a * L <= (b - 1) * L
    OBVIOUS
  <1>2. p < q => p * L <= (q - 1) * L
    BY <1>1
  <1>3. q < p => q * L <= (p - 1) * L
    BY <1>1
  <1> QED
    BY <1>2, <1>3

-------------------------------------------------------------------------------
(* What a request answers. *)

AllViews == Views \cup {"all"}

\* What a view is ordered by.
Key(v, search) ==
    [m \in Found(v, search) |->
        IF v = "upcoming" THEN row[m].start
        ELSE IF v = "past" THEN 0 - row[m].start ELSE 0]

\* The total counts at least the meets that are found.
LEMMA TotalIsEnough ==
    ASSUME NEW v, NEW search
    PROVE  /\ IsFiniteSet(Found(v, search)) /\ Found(v, search) \subseteq Meets
           /\ Total(v, search) \in Nat
           /\ Cardinality(Found(v, search)) \in Nat
           /\ Cardinality(Found(v, search)) <= Total(v, search)
  <1> DEFINE F == Found(v, search)
             C == {m \in Meets : /\ MayCount(row[m]) /\ InView(row[m], v)
                                 /\ (search => row[m].matches)}
  <1>1. \A m \in Meets : MaySee(row[m]) => MayCount(row[m])
    BY DEF MaySee, MayCount
  <1>2. F \in SUBSET C
    BY <1>1 DEF Found
  <1>3. F \subseteq Meets /\ C \in SUBSET Meets
    BY DEF Found
  <1>4. Total(v, search) = Cardinality(C)
    BY DEF Total
  <1> HIDE DEF F, C
  <1>5. IsFiniteSet(C) /\ Cardinality(C) \in Nat
    BY <1>3, ListingConstants, FS_Subset, FS_CardinalityType
  <1>6. IsFiniteSet(F) /\ Cardinality(F) <= Cardinality(C)
    BY <1>2, <1>5, FS_Subset
  <1>7. Cardinality(F) \in Nat
    BY <1>6, FS_CardinalityType
  <1> QED
    BY <1>3, <1>4, <1>5, <1>6, <1>7 DEF F

LEMMA KeysAreIntegers ==
    ASSUME row \in [Meets -> Rows], NEW v \in AllViews, NEW search
    PROVE  /\ Key(v, search) \in [Found(v, search) -> Int]
           /\ \A m \in Found(v, search) :
                 v \in {"upcoming", "past"} => row[m].start \in Nat
  <1>1. \A m \in Found(v, search) :
           v \in {"upcoming", "past"} => row[m].start \in Nat
    <2> SUFFICES ASSUME NEW m \in Found(v, search),
                        v \in {"upcoming", "past"}
                 PROVE  row[m].start \in Nat
      OBVIOUS
    <2>1. m \in Meets /\ InView(row[m], v)
      BY DEF Found
    <2>2. row[m].start # NoTime
      BY <2>1 DEF InView
    <2>3. row[m].start \in Nat \cup {NoTime}
      BY <2>1, ListingConstants
    <2> QED
      BY <2>2, <2>3
  <1> QED
    BY <1>1 DEF Key

\* The orders in which a request may find a view are its sorted sequences.
LEMMA OrdersAreSorted ==
    ASSUME row \in [Meets -> Rows], NEW v \in AllViews, NEW search
    PROVE  Orders(v, search) = Sorted(Found(v, search), Key(v, search))
  <1> DEFINE F == Found(v, search)
             N == Cardinality(F)
             k == Key(v, search)
  <1>1. N \in Nat /\ IsFiniteSet(F)
    BY TotalIsEnough
  <1>2. \A m \in F : v \in {"upcoming", "past"} => row[m].start \in Nat
    BY KeysAreIntegers
  <1>3. \A m \in F : k[m] = IF v = "upcoming" THEN row[m].start
                          ELSE IF v = "past" THEN 0 - row[m].start ELSE 0
    BY DEF Key
  <1> HIDE DEF F, N, k
  <1>4. ASSUME NEW s \in SetToSeqs(F)
        PROVE  InOrder(s, v) <=>
                  \A i, j \in 1 .. N : i < j => k[s[i]] <= k[s[j]]
    <2>1. s \in [1 .. N -> F] /\ Len(s) = N
      BY <1>1, SeqHoldsAll DEF N
    <2>2. \A i, j \in 1 .. N :
             k[s[i]] <= k[s[j]] <=>
               /\ v = "upcoming" => row[s[i]].start <= row[s[j]].start
               /\ v = "past" => row[s[i]].start >= row[s[j]].start
      <3> TAKE i, j \in 1 .. N
      <3>1. s[i] \in F /\ s[j] \in F
        BY <2>1
      <3>2. CASE v = "upcoming"
        BY <1>3, <3>1, <3>2
      <3>3. CASE v = "past"
        BY <1>2, <1>3, <3>1, <3>3
      <3>4. CASE v \notin {"upcoming", "past"}
        BY <1>3, <3>1, <3>4
      <3> QED
        BY <3>2, <3>3, <3>4
    <2> QED
      BY <2>1, <2>2 DEF InOrder
  <1> QED
    BY <1>4 DEF Orders, Sorted, F, N, k

\* The indices of a page of L rows of N.
Places(N, p, L) == {i \in 1 .. N : (p - 1) * L + 1 <= i /\ i <= p * L}

\* What is at those places.
RowsOf(s, N, p, L) == {s[i] : i \in Places(N, p, L)}

LEMMA PageIsSequence ==
    ASSUME NEW S, NEW N \in Nat, NEW s \in [1 .. N -> S],
           NEW p \in Nat \ {0}, NEW L \in Nat \ {0}
    PROVE  PageOf(s, p, L) \in Seq(S)
  <1> DEFINE a == (p - 1) * L + 1
             b == p * L
             z == IF b <= N THEN b ELSE N
  <1>1. s \in Seq(S) /\ Len(s) = N
    OBVIOUS
  <1>2. a \in Nat \ {0} /\ b \in Int
    OBVIOUS
  <1>3. PageOf(s, p, L) = SubSeq(s, a, z) /\ z \in Int /\ z <= N
    BY <1>1, <1>2, LesserOfTwo DEF PageOf
  <1> HIDE DEF a, z
  <1> QED
    BY <1>1, <1>2, <1>3

LEMMA PageElements ==
    ASSUME NEW S, NEW N \in Nat, NEW s \in [1 .. N -> S],
           NEW p \in Nat \ {0}, NEW L \in Nat \ {0}
    PROVE  ToSet(PageOf(s, p, L)) = RowsOf(s, N, p, L)
  <1> DEFINE a == (p - 1) * L + 1
             b == p * L
             z == IF b <= N THEN b ELSE N
  <1>1. s \in Seq(S) /\ Len(s) = N
    OBVIOUS
  <1>2. a \in Nat \ {0} /\ b \in Int
    OBVIOUS
  <1>3. PageOf(s, p, L) = SubSeq(s, a, z) /\ z \in Int /\ z <= N
    BY <1>1, <1>2, LesserOfTwo DEF PageOf
  <1>4. Places(N, p, L) = {i \in 1 .. N : a <= i /\ i <= b}
    BY DEF Places
  <1> HIDE DEF a, b
  <1> DEFINE t == SubSeq(s, a, z)
  <1>5. t \in Seq(S) /\ DOMAIN t = 1 .. z - a + 1
    BY <1>1, <1>2, <1>3
  <1>6. \A i \in 1 .. z - a + 1 : t[i] = s[i + a - 1]
    BY <1>1, <1>2, <1>3
  <1>7. \A i \in 1 .. z - a + 1 : i + a - 1 \in Places(N, p, L)
    BY <1>2, <1>3, <1>4
  <1>8. \A i \in Places(N, p, L) :
           i - a + 1 \in 1 .. z - a + 1 /\ (i - a + 1) + a - 1 = i
    BY <1>2, <1>3, <1>4
  <1> HIDE DEF t, z
  <1>9. ToSet(t) = {s[i] : i \in Places(N, p, L)}
    <2>1. ToSet(t) = {t[i] : i \in 1 .. z - a + 1}
      BY <1>5 DEF ToSet
    <2>2. ASSUME NEW i \in 1 .. z - a + 1
          PROVE  t[i] \in {s[j] : j \in Places(N, p, L)}
      BY <1>6, <1>7
    <2>3. ASSUME NEW i \in Places(N, p, L)
          PROVE  s[i] \in {t[j] : j \in 1 .. z - a + 1}
      <3>1. t[i - a + 1] = s[i]
        BY <1>6, <1>8
      <3> QED
        BY <1>8, <3>1
    <2> QED
      BY <2>1, <2>2, <2>3
  <1> QED
    BY <1>3, <1>5, <1>9 DEF t, RowsOf

\* What a request answers are meets, and a number.
LEMMA AnswersAreMeets ==
    ASSUME row \in [Meets -> Rows], NEW v \in AllViews, NEW search,
           NEW p \in Nat \ {0}, NEW L \in Nat \ {0},
           NEW a \in findAll(v, search, p, L)
    PROVE  a.meets \in Seq(Meets) /\ a.total \in Nat
  <1> DEFINE F == Found(v, search)
             N == Cardinality(F)
  <1>1. /\ N \in Nat /\ IsFiniteSet(F) /\ F \subseteq Meets
        /\ Total(v, search) \in Nat
    BY TotalIsEnough
  <1>2. PICK s \in Orders(v, search) :
           a = [meets |-> PageOf(s, p, L), total |-> Total(v, search)]
    BY DEF findAll
  <1>3. s \in [1 .. N -> F]
    BY <1>1, <1>2, SeqHoldsAll DEF Orders
  <1>4. s \in [1 .. N -> Meets]
    BY <1>1, <1>3
  <1>5. PageOf(s, p, L) \in Seq(Meets)
    BY <1>1, <1>4, PageIsSequence
  <1> QED
    BY <1>1, <1>2, <1>5

LEMMA ListingTypesStart == ListingInit => ListingTypeOK
  <1> SUFFICES ASSUME ListingInit PROVE ListingTypeOK
    OBVIOUS
  <1>1. Min(PageSizes) \in PageSizes
    BY ListingConstants, LeastOfNaturals
  <1>2. FirstList \in List
    BY <1>1 DEF FirstList, List, Views
  <1> QED
    BY <1>2, ListingConstants DEF ListingInit, ListingTypeOK, NoRows

LEMMA ShowTypes ==
    ASSUME ListingTypeOK, NEW l \in List, Show(l)
    PROVE  ListingTypeOK'
  BY DEF ListingTypeOK, Show, NoRows

LEMMA ListingTypesKept ==
    ListingTypeOK /\ [ListingNext]_listingVars => ListingTypeOK'
  <1> SUFFICES ASSUME ListingTypeOK, [ListingNext]_listingVars
               PROVE  ListingTypeOK'
    OBVIOUS
  <1>0. /\ list \in List /\ list.view \in Views /\ list.page \in Nat
        /\ list.size \in PageSizes /\ list.size \in Nat \ {0}
        /\ list.query \in BOOLEAN /\ list.search \in BOOLEAN
    BY ListingConstants DEF ListingTypeOK, List
  <1>1. CASE useFetchMeets
    <2>1. CASE page = "dashboard"
      <3>1. shown' \in findAll("all", FALSE, 1, DashboardLimit)
        BY <1>1, <2>1 DEF useFetchMeets
      <3>2. DashboardLimit \in Nat \ {0} /\ 1 \in Nat \ {0} /\ "all" \in AllViews
        BY ListingConstants DEF AllViews
      <3>3. shown'.meets \in Seq(Meets) /\ shown'.total \in Nat
        BY <3>1, <3>2, AnswersAreMeets DEF ListingTypeOK
      <3> QED
        BY <1>1, <3>3 DEF useFetchMeets, ListingTypeOK
    <2>2. CASE page # "dashboard"
      <3>1. shown' \in findAll(list.view, list.search, list.page + 1, list.size)
        BY <1>1, <2>2 DEF useFetchMeets
      <3>2. list.page + 1 \in Nat \ {0}
        BY <1>0
      <3>3. shown'.meets \in Seq(Meets) /\ shown'.total \in Nat
        BY <1>0, <3>1, <3>2, AnswersAreMeets DEF ListingTypeOK, AllViews
      <3> QED
        BY <1>1, <3>3 DEF useFetchMeets, ListingTypeOK
    <2> QED
      BY <2>1, <2>2
  <1>2. ASSUME NEW v \in Views, setView(v) PROVE ListingTypeOK'
    <2>1. [list EXCEPT !.view = v, !.page = 0] \in List
      BY <1>0 DEF List
    <2> QED
      BY <1>2, <2>1, ShowTypes DEF setView
  <1>3. CASE TypeSearch
    <2>1. [list EXCEPT !.query = ~@] \in List
      BY <1>0 DEF List
    <2> QED
      BY <1>3, <2>1, ShowTypes DEF TypeSearch
  <1>4. CASE DebounceSearch
    <2>1. [list EXCEPT !.search = list.query, !.page = 0] \in List
      BY <1>0 DEF List
    <2> QED
      BY <1>4, <2>1, ShowTypes DEF DebounceSearch
  <1>5. CASE PreviousPage
    <2>1. list.page > 0
      BY <1>5 DEF PreviousPage
    <2>2. list.page - 1 \in Nat
      BY <1>0, <2>1
    <2>3. [list EXCEPT !.page = @ - 1] \in List
      BY <1>0, <2>2 DEF List
    <2> QED
      BY <1>5, <2>3, ShowTypes DEF PreviousPage
  <1>6. CASE NextPage
    <2>1. [list EXCEPT !.page = @ + 1] \in List
      BY <1>0 DEF List
    <2> QED
      BY <1>6, <2>1, ShowTypes DEF NextPage
  <1>7. ASSUME NEW n \in PageSizes, setPageSize(n) PROVE ListingTypeOK'
    <2>1. [list EXCEPT !.size = n, !.page = 0] \in List
      BY <1>0 DEF List
    <2> QED
      BY <1>7, <2>1, ShowTypes DEF setPageSize
  <1>8. ASSUME NEW m \in Meets, MeetChanges(m) PROVE ListingTypeOK'
    BY <1>8 DEF MeetChanges, ListingTypeOK
  <1>9. CASE Navigate
    <2>1. FirstList \in List
      BY ListingConstants, LeastOfNaturals DEF FirstList, List, Views
    <2> QED
      BY <1>9, <2>1 DEF Navigate, ListingTypeOK, NoRows
  <1>10. CASE Tick
    BY <1>10, ListingConstants DEF Tick, ListingTypeOK
  <1>11. CASE UNCHANGED listingVars
    BY <1>11 DEF listingVars, ListingTypeOK
  <1> QED
    BY <1>1, <1>2, <1>3, <1>4, <1>5, <1>6, <1>7, <1>8, <1>9, <1>10, <1>11
    DEF ListingNext

\* A list asks for a page, a size and a view that there are, and what it shows
\* are rows and a total (ListPage.tsx:191-192, meets.service.ts:114-180).
THEOREM ListingTypesHold == ListingSpec => []ListingTypeOK
  BY ListingTypesStart, ListingTypesKept, PTL DEF ListingSpec

-------------------------------------------------------------------------------
(* PagesHoldAll *)

\* The meets of an answer are those of a page of a sorted sequence.
LEMMA AnswerIsPage ==
    ASSUME row \in [Meets -> Rows], NEW v \in AllViews, NEW search,
           NEW p \in Nat \ {0}, NEW L \in Nat \ {0},
           NEW a \in findAll(v, search, p, L)
    PROVE  \E s \in Sorted(Found(v, search), Key(v, search)) :
              ToSet(a.meets) =
                RowsOf(s, Cardinality(Found(v, search)), p, L)
  <1> DEFINE F == Found(v, search)
             N == Cardinality(F)
  <1>1. N \in Nat /\ IsFiniteSet(F)
    BY TotalIsEnough
  <1>2. PICK s \in Orders(v, search) :
           a = [meets |-> PageOf(s, p, L), total |-> Total(v, search)]
    BY DEF findAll
  <1>3. s \in Sorted(F, Key(v, search))
    BY <1>2, OrdersAreSorted
  <1>4. s \in [1 .. N -> F]
    BY <1>1, <1>3, SeqHoldsAll DEF Sorted
  <1> HIDE DEF F, N
  <1>5. N \in Nat
    BY <1>1
  <1>6. ToSet(PageOf(s, p, L)) = RowsOf(s, N, p, L)
    BY <1>4, <1>5, PageElements, Zenon
  <1> QED
    BY <1>2, <1>3, <1>6 DEF F, N

LEMMA PageIsAnswer ==
    ASSUME row \in [Meets -> Rows], NEW v \in AllViews, NEW search,
           NEW p \in Nat \ {0}, NEW L \in Nat \ {0},
           NEW s \in Sorted(Found(v, search), Key(v, search))
    PROVE  \E a \in findAll(v, search, p, L) :
              ToSet(a.meets) =
                RowsOf(s, Cardinality(Found(v, search)), p, L)
  <1> DEFINE F == Found(v, search)
             N == Cardinality(F)
             a == [meets |-> PageOf(s, p, L), total |-> Total(v, search)]
  <1>1. N \in Nat /\ IsFiniteSet(F)
    BY TotalIsEnough
  <1>2. a \in findAll(v, search, p, L)
    BY OrdersAreSorted DEF findAll
  <1>3. s \in [1 .. N -> F]
    BY <1>1, SeqHoldsAll DEF Sorted
  <1> HIDE DEF F, N
  <1>4. N \in Nat
    BY <1>1
  <1>5. ToSet(PageOf(s, p, L)) = RowsOf(s, N, p, L)
    BY <1>3, <1>4, PageElements, Zenon
  <1> QED
    BY <1>2, <1>5 DEF F, N

LEMMA TypesMakePages == ListingTypeOK => PagesHoldAll
  <1> SUFFICES ASSUME ListingTypeOK PROVE PagesHoldAll
    OBVIOUS
  <1> DEFINE v == list.view
             q == list.search
             L == list.size
             F == Found(v, q)
             N == Cardinality(F)
             k == Key(v, q)
             Pages == 1 .. totalPages(Total(v, q))
             On(n) == {ToSet(a.meets) : a \in findAll(v, q, n, L)}
             determined ==
               \/ N <= L
               \/ /\ v # "draft"
                  /\ \A m, n \in F : row[m].start = row[n].start => m = n
  <1>1. /\ v \in Views /\ v \in AllViews /\ L \in Nat \ {0}
        /\ row \in [Meets -> Rows]
    BY ListingConstants DEF ListingTypeOK, List, AllViews
  <1>2. /\ IsFiniteSet(F) /\ N \in Nat /\ Total(v, q) \in Nat
        /\ N <= Total(v, q)
    BY TotalIsEnough
  <1>3. k \in [F -> Int]
    BY <1>1, KeysAreIntegers
  <1>4. /\ totalPages(Total(v, q)) \in Nat
        /\ PageCount(N, L) <= totalPages(Total(v, q))
        /\ PageCount(N, L) \in Nat
    <2>1. totalPages(Total(v, q)) = PageCount(Total(v, q), L)
      BY DEF totalPages, PageCount
    <2>2. /\ PageCount(N, L) <= PageCount(Total(v, q), L)
          /\ PageCount(Total(v, q), L) \in Nat
      BY <1>1, <1>2, MorePages
    <2>3. PageCount(N, L) \in Nat
      BY <1>1, <1>2, MorePages
    <2> QED
      BY <2>1, <2>2, <2>3
  <1>5. \A n \in Pages : n \in Nat \ {0}
    BY <1>4
  <1>6. \A n \in Pages : \A A \in On(n) : \E s \in Sorted(F, k) :
           A = RowsOf(s, N, n, L)
    <2> TAKE n \in Pages
    <2> TAKE A \in On(n)
    <2>1. PICK a \in findAll(v, q, n, L) : A = ToSet(a.meets)
      OBVIOUS
    <2> HIDE DEF v, q, L
    <2> QED
      BY <1>1, <1>5, <2>1, AnswerIsPage
  <1>7. \A n \in Pages : \A s \in Sorted(F, k) :
           RowsOf(s, N, n, L) \in On(n)
    BY <1>1, <1>5, PageIsAnswer
  <1>8. \A s \in Sorted(F, k) :
           /\ s \in [1 .. N -> F]
           /\ \A x \in F : \E i \in 1 .. N : s[i] = x
    BY <1>2, SeqHoldsAll DEF Sorted
  <1>9. PICK t : t \in Sorted(F, k)
    BY <1>2, <1>3, CanBeSorted
  <1> HIDE DEF v, q, L, F, N, k, Pages, On
  <1>10. F = UNION {UNION On(n) : n \in Pages}
    <2>1. ASSUME NEW x \in F PROVE \E n \in Pages : \E A \in On(n) : x \in A
      <3>1. PICK i \in 1 .. N : t[i] = x
        BY <1>8, <1>9
      <3>2. PICK n \in 1 .. PageCount(N, L) : (n - 1) * L + 1 <= i /\ i <= n * L
        BY <1>1, <1>2, SomePageHolds
      <3>3. n \in Pages
        BY <1>4, <3>2 DEF Pages, v, q
      <3>4. x \in RowsOf(t, N, n, L)
        BY <3>1, <3>2 DEF RowsOf, Places
      <3> QED
        BY <1>7, <1>9, <3>3, <3>4
    <2>2. ASSUME NEW n \in Pages, NEW A \in On(n), NEW x \in A PROVE x \in F
      <3>1. PICK s \in Sorted(F, k) : A = RowsOf(s, N, n, L)
        BY <1>6
      <3>2. PICK i \in 1 .. N : s[i] = x
        BY <3>1 DEF RowsOf, Places
      <3> QED
        BY <1>8, <3>2
    <2> QED
      BY <2>1, <2>2
  <1>11. ASSUME determined, NEW m \in Pages, NEW n \in Pages, m # n,
                NEW A \in On(m), NEW B \in On(n)
         PROVE  A \cap B = {}
    <2> SUFFICES ASSUME NEW x \in A, x \in B PROVE FALSE
      OBVIOUS
    <2>1. PICK s \in Sorted(F, k) : A = RowsOf(s, N, m, L)
      BY <1>6
    <2>2. PICK r \in Sorted(F, k) : B = RowsOf(r, N, n, L)
      BY <1>6
    <2>3. PICK i \in Places(N, m, L) : s[i] = x
      BY <2>1 DEF RowsOf
    <2>4. PICK j \in Places(N, n, L) : r[j] = x
      BY <2>2 DEF RowsOf
    <2>5. /\ i \in 1 .. N /\ (m - 1) * L + 1 <= i /\ i <= m * L
          /\ j \in 1 .. N /\ (n - 1) * L + 1 <= j /\ j <= n * L
      BY DEF Places
    <2>6. m \in Nat \ {0} /\ n \in Nat \ {0}
      BY <1>5
    <2>7. CASE N <= L
      <3>1. \A p \in Nat \ {0}, l \in 1 .. N : (p - 1) * L + 1 <= l => p = 1
        <4>1. \A p \in Nat \ {0} : p # 1 => L <= (p - 1) * L
          BY <1>1
        <4> QED
          BY <1>1, <1>2, <2>7, <4>1
      <3>2. m = 1 /\ n = 1
        BY <2>5, <2>6, <3>1
      <3> QED
        BY <1>11, <3>2
    <2>8. CASE /\ v # "draft"
               /\ \A y, z \in F : row[y].start = row[z].start => y = z
      <3>1. v \in {"upcoming", "past"}
        BY <1>1, <2>8 DEF Views
      <3>2. \A y \in F : /\ row[y].start \in Nat
                        /\ k[y] = IF v = "upcoming" THEN row[y].start
                                  ELSE 0 - row[y].start
        BY <1>1, <3>1, KeysAreIntegers DEF Key, F, k, v, q
      <3>3. \A y, z \in F : k[y] = k[z] => y = z
        BY <2>8, <3>1, <3>2
      <3>4. i = Cardinality({y \in F : k[y] <= k[s[i]]})
        BY <1>2, <1>3, <2>5, <3>3, PlaceIsDetermined DEF N
      <3>5. j = Cardinality({y \in F : k[y] <= k[r[j]]})
        BY <1>2, <1>3, <2>5, <3>3, PlaceIsDetermined DEF N
      <3>6. i = j
        BY <2>3, <2>4, <3>4, <3>5
      <3> QED
        BY <1>1, <1>11, <2>5, <2>6, <3>6, PagesAreApart
    <2> QED
      BY <1>11, <2>7, <2>8 DEF determined
  <1> QED
    BY <1>10, <1>11
    DEF PagesHoldAll, v, q, L, F, N, Pages, On, determined

\* Turning the pages of a list that does not change shows every meet that was
\* found, and once, as long as the order is determined: for any rows and any
\* length of a page (meets.service.ts:114-180, ListPage.tsx:191-192).
THEOREM PagesHoldEverything == ListingSpec => []PagesHoldAll
  BY ListingTypesHold, TypesMakePages, PTL

-------------------------------------------------------------------------------
(* The modules together. *)

\* In the run of the browser's modules each of them does what its own
\* specification says, fairness included, so that whatever is proved of one
\* holds in the run.
THEOREM BrowserRunsModules ==
    BrowserSpec => /\ SessionSpec /\ WorkspaceSpec /\ CalendarSpec
                   /\ MessagesSpec /\ ListingSpec
  <1>1. BrowserInit => /\ SessionInit /\ WorkspaceInit /\ CalendarInit
                       /\ MessagesInit /\ ListingInit
    BY DEF BrowserInit
  <1>2. [BrowserNext]_browserVars =>
           /\ [SessionNext]_sessionVars /\ [WorkspaceNext]_workspaceVars
           /\ [CalendarNext]_calendarVars /\ [MessagesNext]_messagesVars
           /\ [ListingNext]_listingVars
    BY DEF BrowserNext, browserVars
  <1> QED
    BY <1>1, <1>2, PTL
    DEF BrowserSpec, SessionSpec, WorkspaceSpec, CalendarSpec, MessagesSpec,
        ListingSpec

\* Whichever of the browser's modules moves, its variables keep their types.
THEOREM BrowserTypesHold == BrowserSpec => []BrowserTypeOK
  <1>1. BrowserSpec => [](which \in Which)
    <2>1. BrowserInit => which \in Which
      BY DEF BrowserInit
    <2>2. which \in Which /\ [BrowserNext]_browserVars => (which \in Which)'
      BY DEF BrowserNext, browserVars
    <2> QED
      BY <2>1, <2>2, PTL DEF BrowserSpec
  <1>2. /\ which \in Which
        /\ SessionTypeOK /\ WorkspaceInv /\ CalendarTypeOK /\ MessagesInv
        /\ ListingTypeOK
        => BrowserTypeOK
    BY DEF BrowserTypeOK, WorkspaceInv, MessagesInv
  <1> QED
    BY <1>1, <1>2, BrowserRunsModules, SessionTypesHold, WorkspaceInvHolds,
       CalendarTypesHold, MessagesInvHolds, ListingTypesHold, PTL
===============================================================================
