------------------------------ MODULE AuthProofs ------------------------------
(***************************************************************************)
(* Proofs about the authentication service: EmailVerification,             *)
(* PasswordReset and Registration, for any number of pages, addresses,     *)
(* codes, links and users; and about MCRecords, in which one of the        *)
(* modules about records moves.                                            *)
(***************************************************************************)
EXTENDS MCRecords, FormProofs, QuestionsProofs, FiniteSetTheorems, TLAPS

-------------------------------------------------------------------------------
(* Types of EmailVerification. *)

RequestTable == [Pages -> [Buttons -> Request]]

\* Only the request that is put changes.
LEMMA PutEffect ==
    ASSUME request \in RequestTable, NEW p \in Pages, NEW b \in Buttons,
           NEW r \in Request, PutRequest(p, b, r)
    PROVE  /\ request' \in RequestTable
           /\ request'[p][b] = r
           /\ \A q \in Pages, c \in Buttons :
                 q # p \/ c # b => request'[q][c] = request[q][c]
  BY DEF PutRequest, RequestTable

LEMMA IdleTypes ==
    /\ Idle \in Request
    /\ \A s \in {"storing", "clearing", "counting", "locking", "marking",
                 "fetching", "saved"},
          e \in Mailboxes, c \in Codes \cup {NoCode}, n \in Nat :
          /\ [Idle EXCEPT !.step = s] \in Request
          /\ [Idle EXCEPT !.step = s, !.email = e] \in Request
          /\ [Idle EXCEPT !.step = s, !.code = c] \in Request
          /\ [Idle EXCEPT !.step = s, !.code = c, !.attempts = n] \in Request
  BY DEF Idle, Request

LEMMA GotoTypes ==
    ASSUME NEW r \in Request, NEW s \in {"locking", "fetching"}
    PROVE  [r EXCEPT !.step = s] \in Request
  BY DEF Request

\* What the address a page saves, and the codes and addresses that requests
\* hold, have to do with the row.
Held ==
    /\ \A p \in Pages :
          /\ request[p]["save"].step = "saved"
                => request[p]["save"].email \in Mailboxes
          /\ request[p]["send"].step = "storing"
                => request[p]["send"].email \in Mailboxes
          /\ request[p]["confirm"].step = "clearing"
                => /\ request[p]["confirm"].code \in Codes
                   /\ mailbox[request[p]["confirm"].code] # NoMailbox
                   /\ user.fresh => request[p]["confirm"].code # user.code
          /\ request[p]["confirm"].step = "marking"
                => request[p]["confirm"].code \in Codes
    /\ user.fresh => user.code # NoCode
    /\ user.code # NoCode => mailbox[user.code] # NoMailbox
    /\ \E k \in 0 .. MaxCodes :
          \A d \in Codes : mailbox[d] # NoMailbox <=> d <= k

\* As long as no address was changed under a request, everything that is on
\* its way to the row is about the address the row has.
SameMailbox ==
    ~crossed =>
       /\ user.verified => verifiedBy \in Codes /\ mailbox[verifiedBy] = user.email
       /\ user.code # NoCode => mailbox[user.code] = user.email
       /\ \A p \in Pages :
             /\ request[p]["send"].step = "storing"
                   => request[p]["send"].email = user.email
             /\ request[p]["confirm"].step = "marking"
                   => mailbox[request[p]["confirm"].code] = user.email

VerificationInv == VerificationTypeOK /\ Held /\ SameMailbox

LEMMA VerificationStarts == VerificationInit => VerificationInv
  <1> SUFFICES ASSUME VerificationInit PROVE VerificationInv
    OBVIOUS
  <1> USE DEF VerificationInit
  <1>1. PICK e \in Mailboxes :
           user = [email |-> e, verified |-> FALSE, code |-> NoCode,
                   fresh |-> FALSE, attempts |-> 0, locked |-> FALSE]
    OBVIOUS
  <1>2. VerificationTypeOK
    <2>1. user \in User /\ KnownOf(user) \in Known
      BY <1>1 DEF User, KnownOf, Known
    <2> QED
      BY <2>1, IdleTypes DEF VerificationTypeOK
  <1>3. \A p \in Pages : /\ request[p]["save"].step = "idle"
                         /\ request[p]["send"].step = "idle"
                         /\ request[p]["confirm"].step = "idle"
    BY DEF Idle, Buttons
  <1>4. \E k \in 0 .. MaxCodes :
           \A d \in Codes : mailbox[d] # NoMailbox <=> d <= k
    <2>1. 0 \in 0 .. MaxCodes
      BY EmailVerificationConstants
    <2>2. \A d \in Codes : mailbox[d] # NoMailbox <=> d <= 0
      BY EmailVerificationConstants DEF Codes
    <2> QED
      BY <2>1, <2>2
  <1>5. Held
    BY <1>1, <1>3, <1>4 DEF Held
  <1>6. SameMailbox
    BY <1>1, <1>3 DEF SameMailbox
  <1> QED
    BY <1>2, <1>5, <1>6 DEF VerificationInv

-------------------------------------------------------------------------------
(* Each step keeps VerificationInv. *)

LEMMA InvTypes ==
    ASSUME VerificationTypeOK
    PROVE  /\ request \in RequestTable
           /\ \A q \in Pages, b \in Buttons : request[q][b] \in Request
           /\ "save" \in Buttons /\ "send" \in Buttons /\ "confirm" \in Buttons
           /\ user \in User /\ user.email \in Mailboxes
           /\ user.code \in Codes \cup {NoCode} /\ user.attempts \in Nat
  BY DEF VerificationTypeOK, RequestTable, Buttons, User

LEMMA ChangeEmailKeeps ==
    ASSUME VerificationInv, NEW p \in Pages, ChangeEmail(p)
    PROVE  VerificationInv'
  <1> USE DEF VerificationInv
  <1>1. PICK e \in Mailboxes :
           /\ user' = [user EXCEPT !.email = e, !.verified = FALSE,
                                   !.code = NoCode, !.fresh = FALSE]
           /\ PutRequest(p, "save", [Idle EXCEPT !.step = "saved", !.email = e])
    BY DEF ChangeEmail
  <1> DEFINE r == [Idle EXCEPT !.step = "saved", !.email = e]
  <1>2. r \in Request /\ r.email = e
    BY IdleTypes, NoCode \in Codes \cup {NoCode} DEF Idle
  <1>3. /\ request' \in RequestTable
        /\ request'[p]["save"] = r
        /\ \A q \in Pages, c \in Buttons :
              q # p \/ c # "save" => request'[q][c] = request[q][c]
    BY <1>1, <1>2, InvTypes, PutEffect
  <1>4. /\ user' \in User
        /\ user'.code = NoCode /\ ~user'.verified /\ ~user'.fresh
    BY <1>1, InvTypes DEF User
  <1>5. VerificationTypeOK'
    <2>1. crossed' \in BOOLEAN
      BY DEF ChangeEmail, VerificationTypeOK
    <2> QED
      BY <1>3, <1>4, <2>1 DEF ChangeEmail, VerificationTypeOK, RequestTable
  <1>6. Held'
    <2> HIDE DEF r
    <2>1. mailbox' = mailbox
      BY DEF ChangeEmail
    <2>2. \A q \in Pages :
             /\ request'[q]["send"] = request[q]["send"]
             /\ request'[q]["confirm"] = request[q]["confirm"]
             /\ request'[q]["save"] = request[q]["save"]
                \/ request'[q]["save"].email \in Mailboxes
      BY <1>2, <1>3, InvTypes
    <2> QED
      BY <1>4, <2>1, <2>2 DEF Held
  <1>7. ASSUME ~crossed', NEW q \in Pages
        PROVE  /\ request[q]["send"].step # "storing"
               /\ request[q]["confirm"].step # "marking"
    <2>1. \A u \in UnderWay :
             request[u[1]][u[2]].step \notin {"storing", "marking"}
      BY <1>7 DEF ChangeEmail
    <2>2. \A b \in Buttons : <<q, b>> \in UnderWay \/ request[q][b].step = "idle"
      BY DEF UnderWay
    <2> QED
      BY <2>1, <2>2, InvTypes
  <1>8. SameMailbox'
    BY <1>3, <1>4, <1>7, InvTypes DEF SameMailbox
  <1> QED
    BY <1>5, <1>6, <1>8

LEMMA EmailChangedKeeps ==
    ASSUME VerificationInv, NEW p \in Pages, EmailChanged(p)
    PROVE  VerificationInv'
  <1> USE DEF VerificationInv
  <1>1. /\ request' \in RequestTable
        /\ request'[p]["save"] = Idle
        /\ \A q \in Pages, c \in Buttons :
              q # p \/ c # "save" => request'[q][c] = request[q][c]
    BY InvTypes, IdleTypes, PutEffect DEF EmailChanged, Answered
  <1>2. page' \in [Pages -> Known]
    BY DEF EmailChanged, VerificationTypeOK, Held, Known
  <1>3. VerificationTypeOK'
    BY <1>1, <1>2 DEF EmailChanged, VerificationTypeOK, RequestTable
  <1>4. Held' /\ SameMailbox'
    BY <1>1, InvTypes DEF EmailChanged, Held, SameMailbox, Idle
  <1> QED
    BY <1>3, <1>4

LEMMA AskForCodeKeeps ==
    ASSUME VerificationInv, NEW p \in Pages, AskForCode(p)
    PROVE  VerificationInv'
  <1> USE DEF VerificationInv
  <1> DEFINE r == [Idle EXCEPT !.step = "storing", !.email = user.email]
  <1>1. r \in Request /\ r.email = user.email
    BY IdleTypes, InvTypes, NoCode \in Codes \cup {NoCode} DEF Idle
  <1>2. /\ request' \in RequestTable
        /\ request'[p]["send"] = r
        /\ \A q \in Pages, c \in Buttons :
              q # p \/ c # "send" => request'[q][c] = request[q][c]
    BY <1>1, InvTypes, PutEffect DEF AskForCode
  <1>3. VerificationTypeOK'
    BY <1>2 DEF AskForCode, VerificationTypeOK, RequestTable
  <1>4. Held'
    <2> HIDE DEF r
    <2>1. mailbox' = mailbox /\ user' = user
      BY DEF AskForCode
    <2>2. \A q \in Pages :
             /\ request'[q]["save"] = request[q]["save"]
             /\ request'[q]["confirm"] = request[q]["confirm"]
             /\ request'[q]["send"] = request[q]["send"]
                \/ request'[q]["send"].email \in Mailboxes
      BY <1>1, <1>2, InvTypes
    <2> QED
      BY <2>1, <2>2 DEF Held
  <1>5. SameMailbox'
    BY <1>1, <1>2, InvTypes DEF AskForCode, SameMailbox
  <1> QED
    BY <1>3, <1>4, <1>5

LEMMA StoreKeeps ==
    ASSUME VerificationInv, NEW p \in Pages, setEmailVerificationToken(p)
    PROVE  VerificationInv'
  <1> USE DEF VerificationInv
  <1> DEFINE mailed == {d \in Codes : mailbox[d] # NoMailbox}
  <1>1. PICK c \in Codes :
           /\ c = 1 + Cardinality(mailed)
           /\ user' = [user EXCEPT !.code = c, !.fresh = TRUE,
                                   !.attempts = 0, !.locked = FALSE]
           /\ mailbox' = [mailbox EXCEPT ![c] = request[p]["send"].email]
    BY DEF setEmailVerificationToken
  <1>2. PICK k \in 0 .. MaxCodes :
           \A d \in Codes : mailbox[d] # NoMailbox <=> d <= k
    BY DEF Held
  <1>3. c = k + 1 /\ k + 1 \in 0 .. MaxCodes /\ mailbox[c] = NoMailbox
    <2> HIDE DEF mailed
    <2>1. mailed = 1 .. k
      BY <1>2, EmailVerificationConstants DEF Codes, mailed
    <2>2. Cardinality(1 .. k) = k
      BY <1>2, FS_Interval, EmailVerificationConstants
    <2>3. c = k + 1
      BY <1>1, <2>1, <2>2
    <2> QED
      BY <1>2, <2>3, EmailVerificationConstants DEF Codes
  <1>4. /\ request[p]["send"].email \in Mailboxes
        /\ request[p]["send"].step = "storing"
        /\ request[p]["send"].email # NoMailbox
    BY EmailVerificationConstants DEF setEmailVerificationToken, Held
  <1>5. /\ mailbox' \in [Codes -> Mailboxes \cup {NoMailbox}]
        /\ mailbox'[c] = request[p]["send"].email
        /\ \A d \in Codes \ {c} : mailbox'[d] = mailbox[d]
    BY <1>1, <1>4 DEF VerificationTypeOK
  <1>6. user' \in User /\ user'.code = c /\ user'.email = user.email
        /\ user'.verified = user.verified
    BY <1>1, InvTypes DEF User
  <1>7. /\ request' \in RequestTable
        /\ request'[p]["send"] = Idle
        /\ \A q \in Pages, b \in Buttons :
              q # p \/ b # "send" => request'[q][b] = request[q][b]
    <2>1. PutRequest(p, "send", Idle)
      BY DEF setEmailVerificationToken, Answered
    <2> QED
      BY <2>1, InvTypes, IdleTypes, PutEffect
  <1>8. VerificationTypeOK'
    BY <1>5, <1>6, <1>7
    DEF setEmailVerificationToken, VerificationTypeOK, RequestTable
  <1>9. Held'
    <2>1. \A d \in Codes : mailbox'[d] # NoMailbox <=> d <= k + 1
      BY <1>2, <1>3, <1>4, <1>5, EmailVerificationConstants DEF Codes
    <2>2. c # NoCode
      BY DEF Codes, NoCode
    <2>3. \A q \in Pages :
             /\ request'[q]["save"].step = "saved"
                   => request'[q]["save"].email \in Mailboxes
             /\ request'[q]["send"].step = "storing"
                   => request'[q]["send"].email \in Mailboxes
      BY <1>7, InvTypes DEF Held, Idle
    <2>4. ASSUME NEW q \in Pages, request'[q]["confirm"].step = "clearing"
          PROVE  /\ request'[q]["confirm"].code \in Codes
                 /\ mailbox'[request'[q]["confirm"].code] # NoMailbox
                 /\ request'[q]["confirm"].code # c
      BY <1>3, <1>5, <1>7, <2>4, InvTypes DEF Held
    <2>5. ASSUME NEW q \in Pages, request'[q]["confirm"].step = "marking"
          PROVE  request'[q]["confirm"].code \in Codes
      BY <1>7, <2>5, InvTypes DEF Held
    <2> QED
      BY <1>3, <1>4, <1>5, <1>6, <2>1, <2>2, <2>3, <2>4, <2>5 DEF Held
  <1>10. SameMailbox'
    <2>1. \A d \in Codes : ~crossed /\ mailbox[d] = user.email
             => mailbox'[d] = user'.email
      BY <1>4, <1>5, <1>6 DEF SameMailbox
    <2> QED
      BY <1>4, <1>5, <1>6, <1>7, <2>1, InvTypes
      DEF setEmailVerificationToken, SameMailbox, Idle
  <1> QED
    BY <1>8, <1>9, <1>10

\* What the other steps have in common: they leave the address and the mails
\* alone, store no code, and change at most one confirmation.
LEMMA RestKeeps ==
    ASSUME VerificationInv,
           mailbox' = mailbox, crossed' = crossed,
           page' \in [Pages -> Known], tries' \in Nat,
           user' \in User, user'.email = user.email,
           user'.code \in {user.code, NoCode},
           user'.fresh => user.fresh /\ user'.code = user.code,
           \/ verifiedBy' = verifiedBy /\ user'.verified = user.verified
           \/ /\ verifiedBy' \in Codes
              /\ ~crossed => mailbox[verifiedBy'] = user.email,
           request' \in RequestTable,
           \A q \in Pages :
              /\ request'[q]["save"] = request[q]["save"]
              /\ request'[q]["send"] = request[q]["send"]
              /\ LET r == request'[q]["confirm"] IN
                 \/ r = request[q]["confirm"]
                 \/ /\ r.step = "clearing"
                          => /\ r.code \in Codes /\ mailbox[r.code] # NoMailbox
                             /\ ~user'.fresh
                    /\ r.step = "marking"
                          => /\ r.code \in Codes
                             /\ ~crossed => mailbox[r.code] = user.email
    PROVE  VerificationInv'
  <1> USE DEF VerificationInv
  <1>1. VerificationTypeOK'
    BY DEF VerificationTypeOK, RequestTable
  <1>2. Held'
    <2>1. ASSUME NEW q \in Pages, request'[q]["confirm"].step = "clearing"
          PROVE  /\ request'[q]["confirm"].code \in Codes
                 /\ mailbox[request'[q]["confirm"].code] # NoMailbox
                 /\ user'.fresh => request'[q]["confirm"].code # user'.code
      BY <2>1 DEF Held
    <2>2. ASSUME NEW q \in Pages, request'[q]["confirm"].step = "marking"
          PROVE  request'[q]["confirm"].code \in Codes
      BY <2>2 DEF Held
    <2> QED
      BY <2>1, <2>2 DEF Held
  <1>3. SameMailbox'
    <2>1. ASSUME ~crossed, NEW q \in Pages,
                 request'[q]["confirm"].step = "marking"
          PROVE  mailbox[request'[q]["confirm"].code] = user.email
      BY <2>1 DEF SameMailbox
    <2> QED
      BY <2>1 DEF SameMailbox
  <1> QED
    BY <1>1, <1>2, <1>3

LEMMA EnteringKeeps ==
    ASSUME VerificationInv, NEW p \in Pages,
           \/ EnterAnyway(p) \/ EnterExpired(p) \/ EnterWrong(p) \/ EnterRight(p)
    PROVE  VerificationInv'
  <1> USE DEF VerificationInv
  <1>1. UNCHANGED <<user, page, mailbox, verifiedBy, crossed>>
    BY DEF EnterAnyway, EnterExpired, EnterWrong, EnterRight, Entering
  <1>2. user.code # NoCode => user.code \in Codes
    BY InvTypes
  <1>3. PICK r \in Request :
           /\ PutRequest(p, "confirm", r)
           /\ r.step = "clearing"
                 => r.code = user.code /\ user.code # NoCode /\ ~user.fresh
           /\ r.step = "marking" => r.code = user.code /\ user.code # NoCode
    <2>1. CASE EnterAnyway(p)
      <3>1. [request[p]["confirm"] EXCEPT !.step = "fetching"] \in Request
        BY InvTypes, GotoTypes
      <3> QED
        BY <2>1, <3>1 DEF EnterAnyway, GotoStep, Request
    <2>2. CASE EnterExpired(p)
      <3>1. [Idle EXCEPT !.step = "clearing", !.code = user.code] \in Request
        BY InvTypes DEF Idle, Request
      <3> QED
        BY <2>2, <3>1 DEF EnterExpired, Idle
    <2>3. CASE EnterWrong(p)
      <3>1. [Idle EXCEPT !.step = "counting", !.code = user.code,
                         !.attempts = user.attempts] \in Request
        BY InvTypes DEF Idle, Request
      <3> QED
        BY <2>3, <3>1 DEF EnterWrong, Idle
    <2>4. CASE EnterRight(p)
      <3>1. [Idle EXCEPT !.step = "marking", !.code = user.code] \in Request
        BY InvTypes DEF Idle, Request
      <3> QED
        BY <2>4, <3>1 DEF EnterRight, Comparable, Idle
    <2> QED
      BY <2>1, <2>2, <2>3, <2>4
  <1>4. /\ request' \in RequestTable
        /\ request'[p]["confirm"] = r
        /\ \A q \in Pages, c \in Buttons :
              q # p \/ c # "confirm" => request'[q][c] = request[q][c]
    BY <1>3, InvTypes, PutEffect
  <1>5. tries' \in Nat
    BY DEF EnterAnyway, EnterExpired, EnterWrong, EnterRight, VerificationTypeOK
  <1>6. \A q \in Pages :
           /\ request'[q]["save"] = request[q]["save"]
           /\ request'[q]["send"] = request[q]["send"]
           /\ LET s == request'[q]["confirm"] IN
              \/ s = request[q]["confirm"]
              \/ /\ s.step = "clearing"
                       => /\ s.code \in Codes /\ mailbox[s.code] # NoMailbox
                          /\ ~user'.fresh
                 /\ s.step = "marking"
                       => /\ s.code \in Codes
                          /\ ~crossed => mailbox[s.code] = user.email
    BY <1>1, <1>2, <1>3, <1>4, InvTypes DEF Held, SameMailbox
  <1> QED
    BY <1>1, <1>4, <1>5, <1>6, RestKeeps, InvTypes DEF VerificationTypeOK

LEMMA AnsweringKeeps ==
    ASSUME VerificationInv, NEW p \in Pages,
           \/ clearEmailVerificationToken(p)
           \/ incrementEmailVerificationAttempts(p)
           \/ lockEmailVerification(p)
           \/ markEmailVerified(p)
           \/ Fetched(p)
    PROVE  VerificationInv'
  <1> USE DEF VerificationInv
  <1>1. mailbox' = mailbox /\ crossed' = crossed /\ tries' \in Nat
    BY DEF clearEmailVerificationToken, incrementEmailVerificationAttempts,
           lockEmailVerification, markEmailVerified, Fetched, VerificationTypeOK
  <1>2. page' \in [Pages -> Known]
    <2>1. KnownOf(user) \in Known
      BY InvTypes DEF KnownOf, Known, User
    <2>2. page' = page \/ page' = [page EXCEPT ![p] = KnownOf(user)]
      BY DEF clearEmailVerificationToken, incrementEmailVerificationAttempts,
             lockEmailVerification, markEmailVerified, Fetched
    <2> QED
      BY <2>1, <2>2 DEF VerificationTypeOK
  <1>3. /\ user' \in User /\ user'.email = user.email
        /\ user'.code \in {user.code, NoCode}
        /\ user'.fresh => user.fresh /\ user'.code = user.code
        /\ markEmailVerified(p) \/ user'.verified = user.verified
    <2>1. CASE clearEmailVerificationToken(p)
      BY <2>1, InvTypes DEF clearEmailVerificationToken, User
    <2>2. CASE incrementEmailVerificationAttempts(p)
      <3>1. user' = [user EXCEPT !.attempts = @ + 1]
        BY <2>2 DEF incrementEmailVerificationAttempts
      <3> QED
        BY <3>1, InvTypes DEF User
    <2>3. CASE lockEmailVerification(p)
      BY <2>3, InvTypes DEF lockEmailVerification, User
    <2>4. CASE markEmailVerified(p)
      BY <2>4, InvTypes DEF markEmailVerified, User
    <2>5. CASE Fetched(p)
      BY <2>5, InvTypes DEF Fetched, User
    <2> QED
      BY <2>1, <2>2, <2>3, <2>4, <2>5
  <1>4. \/ verifiedBy' = verifiedBy /\ user'.verified = user.verified
        \/ /\ verifiedBy' \in Codes
           /\ ~crossed => mailbox[verifiedBy'] = user.email
    <2>1. CASE markEmailVerified(p)
      <3>1. /\ request[p]["confirm"].step = "marking"
            /\ verifiedBy' = request[p]["confirm"].code
        BY <2>1 DEF markEmailVerified
      <3>2. verifiedBy' \in Codes
        BY <3>1 DEF Held
      <3> QED
        BY <3>1, <3>2 DEF SameMailbox
    <2>2. CASE ~markEmailVerified(p)
      <3>1. verifiedBy' = verifiedBy
        BY <2>2
        DEF clearEmailVerificationToken, incrementEmailVerificationAttempts,
            lockEmailVerification, Fetched
      <3> QED
        BY <1>3, <2>2, <3>1
    <2> QED
      BY <2>1, <2>2
  <1>5. PICK r \in Request :
           /\ PutRequest(p, "confirm", r)
           /\ r.step \in {"idle", "locking", "fetching"}
    <2>1. /\ [request[p]["confirm"] EXCEPT !.step = "fetching"] \in Request
          /\ [request[p]["confirm"] EXCEPT !.step = "locking"] \in Request
      BY InvTypes, GotoTypes
    <2>2. /\ [request[p]["confirm"] EXCEPT !.step = "fetching"].step = "fetching"
          /\ [request[p]["confirm"] EXCEPT !.step = "locking"].step = "locking"
      BY InvTypes DEF Request
    <2>3. Idle \in Request /\ Idle.step = "idle"
      BY IdleTypes DEF Idle
    <2>4. \/ PutRequest(p, "confirm", Idle)
          \/ PutRequest(p, "confirm",
                        [request[p]["confirm"] EXCEPT !.step = "fetching"])
          \/ PutRequest(p, "confirm",
                        [request[p]["confirm"] EXCEPT !.step = "locking"])
      BY DEF clearEmailVerificationToken, incrementEmailVerificationAttempts,
             lockEmailVerification, markEmailVerified, Fetched, Answered, GotoStep
    <2> QED
      BY <2>1, <2>2, <2>3, <2>4
  <1>6. /\ request' \in RequestTable
        /\ request'[p]["confirm"] = r
        /\ \A q \in Pages, c \in Buttons :
              q # p \/ c # "confirm" => request'[q][c] = request[q][c]
    BY <1>5, InvTypes, PutEffect
  <1>7. \A q \in Pages :
           /\ request'[q]["save"] = request[q]["save"]
           /\ request'[q]["send"] = request[q]["send"]
           /\ LET s == request'[q]["confirm"] IN
              s = request[q]["confirm"] \/ s.step \notin {"clearing", "marking"}
    BY <1>5, <1>6, InvTypes
  <1> QED
    BY <1>1, <1>2, <1>3, <1>4, <1>6, <1>7, RestKeeps

LEMMA TimeKeeps ==
    ASSUME VerificationInv,
           \/ CodeExpires \/ LockEnds \/ \E p \in Pages : OpenProfile(p)
           \/ UNCHANGED verificationVars
    PROVE  VerificationInv'
  <1> USE DEF VerificationInv
  <1>1. CASE CodeExpires
    BY <1>1, InvTypes DEF CodeExpires, User, VerificationTypeOK, Held, SameMailbox
  <1>2. CASE LockEnds
    BY <1>2, InvTypes DEF LockEnds, User, VerificationTypeOK, Held, SameMailbox
  <1>3. ASSUME NEW p \in Pages, OpenProfile(p) PROVE VerificationInv'
    <2>1. KnownOf(user) \in Known
      BY InvTypes DEF KnownOf, Known, User
    <2> QED
      BY <1>3, <2>1 DEF OpenProfile, VerificationTypeOK, Held, SameMailbox
  <1>4. CASE UNCHANGED verificationVars
    BY <1>4 DEF verificationVars, VerificationTypeOK, Held, SameMailbox
  <1> QED
    BY <1>1, <1>2, <1>3, <1>4

LEMMA VerificationKept ==
    VerificationInv /\ [VerificationNext]_verificationVars => VerificationInv'
  BY ChangeEmailKeeps, EmailChangedKeeps, AskForCodeKeeps, StoreKeeps,
     EnteringKeeps, AnsweringKeeps, TimeKeeps DEF VerificationNext

THEOREM VerificationInvHolds == VerificationSpec => []VerificationInv
  BY VerificationStarts, VerificationKept, PTL DEF VerificationSpec

\* Every variable of the verification of an address keeps its type.
THEOREM VerificationTypesHold == VerificationSpec => []VerificationTypeOK
  BY VerificationInvHolds, PTL DEF VerificationInv

\* An address counts as verified only because a code was read in its own
\* mailbox, unless it was changed under a request (auth.service.ts:365-436).
THEOREM VerifiedByItsOwnMailbox == VerificationSpec => []VerifiedByItsMailbox
  <1>1. VerificationInv => VerifiedByItsMailbox
    BY DEF VerificationInv, SameMailbox, VerifiedByItsMailbox
  <1> QED
    BY <1>1, VerificationInvHolds, PTL

\* Only a verification, a saved address, or an attempt that found an older code
\* expired takes a fresh code from the row (auth.service.ts:417-419).
THEOREM FreshCodesAreKept == VerificationSpec => FreshCodeKept
  <1>1. ASSUME VerificationInv, VerificationNext, user.fresh, user'.code = NoCode
        PROVE  \/ user'.verified
               \/ \E p \in Pages : request'[p]["save"] # request[p]["save"]
               \/ \E p \in Pages :
                     /\ request[p]["confirm"].step = "clearing"
                     /\ request[p]["confirm"].code # user.code
    <2> USE DEF VerificationInv
    <2>1. user.code # NoCode
      BY <1>1 DEF Held
    <2>2. ASSUME NEW p \in Pages, ChangeEmail(p)
          PROVE  request'[p]["save"] # request[p]["save"]
      <3>1. PICK e \in Mailboxes :
               PutRequest(p, "save", [Idle EXCEPT !.step = "saved", !.email = e])
        BY <2>2 DEF ChangeEmail
      <3> DEFINE r == [Idle EXCEPT !.step = "saved", !.email = e]
      <3>2. r \in Request /\ r.step = "saved"
        BY IdleTypes, NoCode \in Codes \cup {NoCode} DEF Idle
      <3>3. request'[p]["save"] = r
        BY <1>1, <3>1, <3>2, InvTypes, PutEffect
      <3> QED
        BY <2>2, <3>2, <3>3 DEF ChangeEmail, Pressable
    <2>3. ASSUME NEW p \in Pages, clearEmailVerificationToken(p)
          PROVE  /\ request[p]["confirm"].step = "clearing"
                 /\ request[p]["confirm"].code # user.code
      BY <1>1, <2>3 DEF clearEmailVerificationToken, Held
    <2>4. ASSUME NEW p \in Pages, markEmailVerified(p) PROVE user'.verified
      BY <1>1, <2>4, InvTypes DEF markEmailVerified, User
    <2>5. ASSUME NEW p \in Pages, setEmailVerificationToken(p) PROVE FALSE
      <3>1. PICK c \in Codes : user' = [user EXCEPT !.code = c, !.fresh = TRUE,
                                          !.attempts = 0, !.locked = FALSE]
        BY <2>5 DEF setEmailVerificationToken
      <3>2. c # NoCode
        BY DEF Codes, NoCode
      <3> QED
        BY <1>1, <3>1, <3>2, InvTypes DEF User
    <2>6. ASSUME NEW p \in Pages,
                 \/ EmailChanged(p) \/ AskForCode(p) \/ EnterAnyway(p)
                 \/ EnterExpired(p) \/ EnterWrong(p) \/ EnterRight(p)
                 \/ Fetched(p) \/ OpenProfile(p)
          PROVE  user' = user
      BY <2>6 DEF EmailChanged, AskForCode, EnterAnyway, EnterExpired,
                  EnterWrong, EnterRight, Entering, Fetched, OpenProfile
    <2>7. ASSUME NEW p \in Pages,
                 \/ incrementEmailVerificationAttempts(p)
                 \/ lockEmailVerification(p)
          PROVE  user'.code = user.code
      <3>1. \/ user' = [user EXCEPT !.attempts = @ + 1]
            \/ user' = [user EXCEPT !.locked = TRUE]
        BY <2>7 DEF incrementEmailVerificationAttempts, lockEmailVerification
      <3> QED
        BY <1>1, <3>1, InvTypes DEF User
    <2>8. CodeExpires \/ LockEnds => user'.code = user.code
      BY <1>1, InvTypes DEF CodeExpires, LockEnds, User
    <2> QED
      BY <1>1, <2>1, <2>2, <2>3, <2>4, <2>5, <2>6, <2>7, <2>8
      DEF VerificationNext
  <1>2. ASSUME VerificationInv, UNCHANGED verificationVars, user.fresh
        PROVE  user'.code # NoCode
    BY <1>2 DEF verificationVars, VerificationInv, Held
  <1>3. VerificationInv /\ [VerificationNext]_verificationVars =>
           [user.fresh /\ user'.code = NoCode =>
              \/ user'.verified
              \/ \E p \in Pages : request'[p]["save"] # request[p]["save"]
              \/ \E p \in Pages :
                    /\ request[p]["confirm"].step = "clearing"
                    /\ request[p]["confirm"].code # user.code]_verificationVars
    BY <1>1, <1>2
  <1> QED
    BY <1>3, VerificationInvHolds, PTL DEF VerificationSpec, FreshCodeKept

-------------------------------------------------------------------------------
(* How many wrong codes are compared before a lock. *)

\* The pages whose wrong code is compared and not counted yet, and those that
\* will lock, or are about to.
Counting == {q \in Pages : request[q]["confirm"].step = "counting"}
Locking ==
    {q \in Pages :
        \/ request[q]["confirm"].step = "locking"
        \/ /\ request[q]["confirm"].step = "counting"
           /\ request[q]["confirm"].attempts + 1 >= MaxAttempts}

\* Below the limit every wrong code is counted or about to be; from there on
\* every one comes from a page that will lock.
TriesInv ==
    /\ user.code # NoCode /\ user.attempts + 1 < MaxAttempts
          => tries <= user.attempts + Cardinality(Counting)
    /\ user.code # NoCode /\ ~user.locked /\ user.attempts + 1 >= MaxAttempts
          => tries + 2 <= MaxAttempts + Cardinality(Pages) + Cardinality(Locking)
    /\ FewTries

LEMMA PageCounts ==
    /\ Cardinality(Pages) \in Nat \ {0}
    /\ \A S \in SUBSET Pages :
          /\ IsFiniteSet(S)
          /\ Cardinality(S) \in Nat /\ Cardinality(S) <= Cardinality(Pages)
  BY EmailVerificationConstants, FS_EmptySet, FS_CardinalityType, FS_Subset

\* A confirmation that is neither counting nor locking, before or after, leaves
\* both sets as they are, and so does any other button.
LEMMA SameCounts ==
    ASSUME VerificationTypeOK, NEW p \in Pages, NEW b \in Buttons,
           NEW r \in Request, PutRequest(p, b, r),
           \/ b # "confirm"
           \/ /\ request[p][b].step \notin {"counting", "locking"}
              /\ r.step \notin {"counting", "locking"}
    PROVE  Counting' = Counting /\ Locking' = Locking
  <1>1. /\ request'[p][b] = r
        /\ \A q \in Pages, c \in Buttons :
              q # p \/ c # b => request'[q][c] = request[q][c]
    BY InvTypes, PutEffect
  <1>2. \A q \in Pages :
           \/ request'[q]["confirm"] = request[q]["confirm"]
           \/ /\ request[q]["confirm"].step \notin {"counting", "locking"}
              /\ request'[q]["confirm"].step \notin {"counting", "locking"}
    BY <1>1, InvTypes
  <1> QED
    BY <1>2 DEF Counting, Locking

\* Steps that compare and count no wrong code.
LEMMA UncountedStep ==
    ASSUME VerificationTypeOK, VerificationTypeOK', TriesInv,
           Counting' = Counting, Locking' = Locking,
           \/ tries' = 0
           \/ tries' = tries /\ user'.code = NoCode
           \/ /\ tries' = tries /\ user'.code = user.code
              /\ user'.attempts = user.attempts /\ user'.locked = user.locked
    PROVE  TriesInv'
  <1>1. Counting \in SUBSET Pages /\ Locking \in SUBSET Pages
    BY DEF Counting, Locking
  <1>2. PICK n, c, h \in Nat :
           /\ n = Cardinality(Pages) /\ c = Cardinality(Counting)
           /\ h = Cardinality(Locking) /\ n > 0
    BY <1>1, PageCounts
  <1>3. user'.attempts \in Nat /\ tries \in Nat /\ tries' \in Nat
    BY DEF VerificationTypeOK, User
  <1>4. FewTries'
    BY <1>2, <1>3, EmailVerificationConstants DEF TriesInv, FewTries
  <1> QED
    BY <1>2, <1>3, <1>4, EmailVerificationConstants DEF TriesInv

\* One more page is counting; at the limit it is one that will lock.
LEMMA WrongCodeStep ==
    ASSUME VerificationTypeOK, TriesInv, NEW p \in Pages, EnterWrong(p)
    PROVE  TriesInv'
  <1> DEFINE r == [Idle EXCEPT !.step = "counting", !.code = user.code,
                               !.attempts = user.attempts]
  <1>1. r \in Request /\ r.step = "counting" /\ r.attempts = user.attempts
    BY InvTypes DEF Idle, Request
  <1>2. /\ request'[p]["confirm"].step = "counting"
        /\ request'[p]["confirm"].attempts = user.attempts
        /\ \A q \in Pages :
              q # p => request'[q]["confirm"] = request[q]["confirm"]
    <2>1. PutRequest(p, "confirm", r) /\ "confirm" \in Buttons
      BY InvTypes DEF EnterWrong
    <2>2. /\ request'[p]["confirm"] = r
          /\ \A q \in Pages, c \in Buttons :
                q # p \/ c # "confirm" => request'[q][c] = request[q][c]
      BY <1>1, <2>1, InvTypes, PutEffect
    <2> QED
      BY <1>1, <2>1, <2>2
  <1>3. /\ request[p]["confirm"].step = "idle"
        /\ user' = user /\ tries' = tries + 1
        /\ user.code # NoCode /\ ~user.locked
    BY DEF EnterWrong, Entering, Pressable, Comparable
  <1>4. /\ Counting \in SUBSET Pages /\ p \notin Counting
        /\ Counting' = Counting \cup {p}
    BY <1>2, <1>3 DEF Counting
  <1>5. /\ Locking \in SUBSET Pages /\ p \notin Locking
        /\ Locking' = IF user.attempts + 1 >= MaxAttempts
                         THEN Locking \cup {p} ELSE Locking
    BY <1>2, <1>3 DEF Locking
  <1>6. PICK n, c, h, c1, h1 \in Nat :
           /\ n = Cardinality(Pages) /\ c = Cardinality(Counting)
           /\ h = Cardinality(Locking)
           /\ c1 = Cardinality(Counting') /\ c1 = c + 1 /\ c1 <= n
           /\ h1 = Cardinality(Locking') /\ h1 <= n
           /\ h1 = IF user.attempts + 1 >= MaxAttempts THEN h + 1 ELSE h
    <2>1. Counting' \in SUBSET Pages /\ Locking' \in SUBSET Pages
      BY <1>4, <1>5
    <2>2. Cardinality(Counting') = Cardinality(Counting) + 1
      BY <1>4, PageCounts, FS_AddElement
    <2>3. Cardinality(Locking') = IF user.attempts + 1 >= MaxAttempts
                                     THEN Cardinality(Locking) + 1
                                     ELSE Cardinality(Locking)
      BY <1>5, PageCounts, FS_AddElement
    <2> QED
      BY <1>4, <1>5, <2>1, <2>2, <2>3, PageCounts
  <1>7. user.attempts \in Nat /\ tries \in Nat
    BY DEF VerificationTypeOK, User
  <1>8. tries' + 2 <= MaxAttempts + n + n
    BY <1>3, <1>6, <1>7, EmailVerificationConstants DEF TriesInv
  <1>9. FewTries'
    BY <1>3, <1>6, <1>7, <1>8, EmailVerificationConstants DEF FewTries
  <1> QED
    BY <1>3, <1>6, <1>7, <1>9, EmailVerificationConstants DEF TriesInv

\* The page that was counting is not any more, and the row counts one more; it
\* locks if it read the limit.
LEMMA CountStep ==
    ASSUME VerificationTypeOK, TriesInv, NEW p \in Pages,
           incrementEmailVerificationAttempts(p)
    PROVE  TriesInv'
  <1>1. PICK r \in Request :
           /\ PutRequest(p, "confirm", r)
           /\ r.step = IF request[p]["confirm"].attempts + 1 >= MaxAttempts
                          THEN "locking" ELSE "idle"
    <2>1. /\ [request[p]["confirm"] EXCEPT !.step = "locking"] \in Request
          /\ Idle \in Request /\ Idle.step = "idle"
      BY InvTypes, GotoTypes, IdleTypes DEF Idle
    <2>2. [request[p]["confirm"] EXCEPT !.step = "locking"].step = "locking"
      BY InvTypes DEF Request
    <2> QED
      BY <2>1, <2>2 DEF incrementEmailVerificationAttempts, GotoStep, Answered
  <1>2. /\ request'[p]["confirm"] = r
        /\ \A q \in Pages, c \in Buttons :
              q # p \/ c # "confirm" => request'[q][c] = request[q][c]
    BY <1>1, InvTypes, PutEffect
  <1>3. /\ request[p]["confirm"].step = "counting"
        /\ tries' = tries /\ user' = [user EXCEPT !.attempts = @ + 1]
    BY DEF incrementEmailVerificationAttempts
  <1>4. /\ user'.attempts = user.attempts + 1 /\ user'.code = user.code
        /\ user'.locked = user.locked
    BY <1>3, InvTypes DEF User
  <1>5. /\ Counting \in SUBSET Pages /\ p \in Counting
        /\ Counting' = Counting \ {p}
    BY <1>1, <1>2, <1>3, InvTypes DEF Counting
  <1>6. Locking \in SUBSET Pages /\ Locking' = Locking
    BY <1>1, <1>2, <1>3, InvTypes DEF Locking
  <1>7. PICK n, c, h, c1 \in Nat :
           /\ n = Cardinality(Pages) /\ c = Cardinality(Counting) /\ c <= n
           /\ h = Cardinality(Locking) /\ h = Cardinality(Locking')
           /\ c1 = Cardinality(Counting') /\ c1 + 1 = c
    <2>1. Cardinality(Counting') = Cardinality(Counting) - 1
      BY <1>5, PageCounts, FS_RemoveElement
    <2>2. Counting' \in SUBSET Pages
      BY <1>5
    <2> QED
      BY <1>5, <1>6, <2>1, <2>2, PageCounts
  <1>8. user.attempts \in Nat /\ tries \in Nat
    BY DEF VerificationTypeOK, User
  <1>9. FewTries'
    BY <1>3 DEF TriesInv, FewTries
  <1> QED
    BY <1>3, <1>4, <1>7, <1>8, <1>9, EmailVerificationConstants DEF TriesInv

\* The lock is on, and no page that was counting has gone.
LEMMA LockStep ==
    ASSUME VerificationTypeOK, TriesInv, NEW p \in Pages,
           lockEmailVerification(p)
    PROVE  TriesInv'
  <1>1. /\ request[p]["confirm"].step = "locking"
        /\ PutRequest(p, "confirm", Idle) /\ tries' = tries
        /\ user' = [user EXCEPT !.locked = TRUE]
    BY DEF lockEmailVerification, Answered
  <1>2. Idle \in Request /\ Idle.step = "idle"
    BY IdleTypes DEF Idle
  <1>3. /\ request'[p]["confirm"] = Idle
        /\ \A q \in Pages, c \in Buttons :
              q # p \/ c # "confirm" => request'[q][c] = request[q][c]
    BY <1>1, <1>2, InvTypes, PutEffect
  <1>4. Counting' = Counting
    BY <1>1, <1>2, <1>3, InvTypes DEF Counting
  <1>5. /\ user'.locked /\ user'.code = user.code
        /\ user'.attempts = user.attempts
    BY <1>1, InvTypes DEF User
  <1>6. FewTries'
    BY <1>1 DEF TriesInv, FewTries
  <1> QED
    BY <1>1, <1>4, <1>5, <1>6 DEF TriesInv

\* The other requests.
LEMMA OtherRequestStep ==
    ASSUME VerificationTypeOK, VerificationTypeOK', TriesInv, NEW p \in Pages,
           \/ ChangeEmail(p) \/ EmailChanged(p) \/ AskForCode(p)
           \/ setEmailVerificationToken(p) \/ EnterAnyway(p) \/ EnterExpired(p)
           \/ EnterRight(p) \/ clearEmailVerificationToken(p)
           \/ markEmailVerified(p) \/ Fetched(p)
    PROVE  TriesInv'
  <1>1. CASE ChangeEmail(p)
    <2>1. PICK e \in Mailboxes :
             /\ user' = [user EXCEPT !.email = e, !.verified = FALSE,
                                     !.code = NoCode, !.fresh = FALSE]
             /\ PutRequest(p, "save", [Idle EXCEPT !.step = "saved", !.email = e])
      BY <1>1 DEF ChangeEmail
    <2>2. [Idle EXCEPT !.step = "saved", !.email = e] \in Request
      BY IdleTypes, NoCode \in Codes \cup {NoCode}
    <2>3. user'.code = NoCode /\ tries' = tries
      BY <1>1, <2>1, InvTypes DEF ChangeEmail, User
    <2> QED
      BY <2>1, <2>2, <2>3, SameCounts, UncountedStep, InvTypes
  <1>2. CASE EmailChanged(p)
    <2>1. PutRequest(p, "save", Idle) /\ user' = user /\ tries' = tries
      BY <1>2 DEF EmailChanged, Answered
    <2> QED
      BY <2>1, IdleTypes, SameCounts, UncountedStep, InvTypes
  <1>3. CASE AskForCode(p)
    <2>1. /\ PutRequest(p, "send",
                        [Idle EXCEPT !.step = "storing", !.email = user.email])
          /\ user' = user /\ tries' = tries
      BY <1>3 DEF AskForCode
    <2>2. [Idle EXCEPT !.step = "storing", !.email = user.email] \in Request
      BY InvTypes, IdleTypes, NoCode \in Codes \cup {NoCode}
    <2> QED
      BY <2>1, <2>2, SameCounts, UncountedStep, InvTypes
  <1>4. CASE setEmailVerificationToken(p)
    <2>1. PutRequest(p, "send", Idle) /\ tries' = 0
      BY <1>4 DEF setEmailVerificationToken, Answered
    <2> QED
      BY <2>1, IdleTypes, SameCounts, UncountedStep, InvTypes
  <1>5. CASE EnterAnyway(p)
    <2> DEFINE r == [request[p]["confirm"] EXCEPT !.step = "fetching"]
    <2>1. /\ PutRequest(p, "confirm", r) /\ user' = user /\ tries' = tries
          /\ request[p]["confirm"].step = "idle"
      BY <1>5 DEF EnterAnyway, Entering, GotoStep, Pressable
    <2>2. r \in Request /\ r.step = "fetching"
      BY InvTypes, GotoTypes DEF Request
    <2> QED
      BY <2>1, <2>2, SameCounts, UncountedStep, InvTypes
  <1>6. CASE EnterExpired(p)
    <2> DEFINE r == [Idle EXCEPT !.step = "clearing", !.code = user.code]
    <2>1. /\ PutRequest(p, "confirm", r) /\ user' = user /\ tries' = tries
          /\ request[p]["confirm"].step = "idle"
      BY <1>6 DEF EnterExpired, Entering, Pressable
    <2>2. r \in Request /\ r.step = "clearing"
      BY InvTypes DEF Idle, Request
    <2> QED
      BY <2>1, <2>2, SameCounts, UncountedStep, InvTypes
  <1>7. CASE EnterRight(p)
    <2> DEFINE r == [Idle EXCEPT !.step = "marking", !.code = user.code]
    <2>1. /\ PutRequest(p, "confirm", r) /\ user' = user /\ tries' = tries
          /\ request[p]["confirm"].step = "idle"
      BY <1>7 DEF EnterRight, Entering, Pressable
    <2>2. r \in Request /\ r.step = "marking"
      BY InvTypes DEF Idle, Request
    <2> QED
      BY <2>1, <2>2, SameCounts, UncountedStep, InvTypes
  <1>8. CASE clearEmailVerificationToken(p)
    <2>1. /\ PutRequest(p, "confirm", Idle) /\ tries' = tries
          /\ request[p]["confirm"].step = "clearing"
      BY <1>8 DEF clearEmailVerificationToken, Answered
    <2>2. user'.code = NoCode /\ Idle \in Request /\ Idle.step = "idle"
      BY <1>8, InvTypes, IdleTypes DEF clearEmailVerificationToken, User, Idle
    <2> QED
      BY <2>1, <2>2, SameCounts, UncountedStep, InvTypes
  <1>9. CASE markEmailVerified(p)
    <2> DEFINE r == [request[p]["confirm"] EXCEPT !.step = "fetching"]
    <2>1. /\ PutRequest(p, "confirm", r) /\ tries' = tries
          /\ request[p]["confirm"].step = "marking"
      BY <1>9 DEF markEmailVerified, GotoStep
    <2>2. user'.code = NoCode /\ r \in Request /\ r.step = "fetching"
      BY <1>9, InvTypes, GotoTypes DEF markEmailVerified, User, Request
    <2> QED
      BY <2>1, <2>2, SameCounts, UncountedStep, InvTypes
  <1>10. CASE Fetched(p)
    <2>1. /\ PutRequest(p, "confirm", Idle) /\ user' = user /\ tries' = tries
          /\ request[p]["confirm"].step = "fetching"
      BY <1>10 DEF Fetched, Answered
    <2>2. Idle \in Request /\ Idle.step = "idle"
      BY IdleTypes DEF Idle
    <2> QED
      BY <2>1, <2>2, SameCounts, UncountedStep, InvTypes
  <1> QED
    BY <1>1, <1>2, <1>3, <1>4, <1>5, <1>6, <1>7, <1>8, <1>9, <1>10

\* Time, and a page that is loaded again.
LEMMA NoRequestStep ==
    ASSUME VerificationTypeOK, VerificationTypeOK', TriesInv,
           \/ CodeExpires \/ LockEnds \/ \E p \in Pages : OpenProfile(p)
           \/ UNCHANGED verificationVars
    PROVE  TriesInv'
  <1>1. request' = request
    BY DEF CodeExpires, LockEnds, OpenProfile, verificationVars
  <1>2. Counting' = Counting /\ Locking' = Locking
    BY <1>1 DEF Counting, Locking
  <1>3. \/ tries' = 0
        \/ /\ tries' = tries /\ user'.code = user.code
           /\ user'.attempts = user.attempts /\ user'.locked = user.locked
    BY InvTypes DEF CodeExpires, LockEnds, OpenProfile, verificationVars, User
  <1> QED
    BY <1>2, <1>3, UncountedStep

\* With n pages, a code is compared with fewer than MaxAttempts - 1 + 2n wrong
\* ones before the lock (auth.service.ts:424-431).
THEOREM TriesAreFew == VerificationSpec => []FewTries
  <1>1. VerificationInv /\ VerificationInit => TriesInv
    <2> SUFFICES ASSUME VerificationInv, VerificationInit PROVE TriesInv
      OBVIOUS
    <2>1. user.code = NoCode /\ tries = 0
      BY DEF VerificationInit
    <2>2. PICK n \in Nat : n = Cardinality(Pages) /\ n > 0
      BY PageCounts
    <2> QED
      BY <2>1, <2>2, EmailVerificationConstants DEF TriesInv, FewTries
  <1>2. /\ VerificationInv /\ VerificationInv' /\ TriesInv
        /\ [VerificationNext]_verificationVars
        => TriesInv'
    <2> SUFFICES ASSUME VerificationInv, VerificationInv', TriesInv,
                        [VerificationNext]_verificationVars
                 PROVE  TriesInv'
      OBVIOUS
    <2>1. VerificationTypeOK /\ VerificationTypeOK'
      BY DEF VerificationInv
    <2> QED
      BY <2>1, WrongCodeStep, CountStep, LockStep, OtherRequestStep,
         NoRequestStep DEF VerificationNext
  <1>3. TriesInv => FewTries
    BY DEF TriesInv
  <1> QED
    BY <1>1, <1>2, <1>3, VerificationInvHolds, PTL DEF VerificationSpec

-------------------------------------------------------------------------------
(* PasswordReset. *)

\* Links are numbered as they are made, and the stored one was not used.
ResetInv ==
    /\ ResetTypeOK
    /\ stored.link <= links
    /\ \A p \in ResetPages : resetPage[p].link <= links
    /\ \A l \in Links : l > links => uses[l] = 0
    /\ \A p \in ResetPages :
          resetPage[p].step \in {"form", "updating", "success", "failed"}
             => resetPage[p].link # NoLink
    /\ SpentLinkIsDead

LEMMA ResetStart == ResetInit => ResetInv
  BY PasswordResetConstants
  DEF ResetInit, ResetInv, ResetTypeOK, ResetSteps, Links, NoLink,
      SpentLinkIsDead

LEMMA ResetKept == ResetInv /\ [ResetNext]_resetVars => ResetInv'
  <1> SUFFICES ASSUME ResetInv, [ResetNext]_resetVars PROVE ResetInv'
    OBVIOUS
  <1> USE PasswordResetConstants DEF Links, NoLink, SpentLinkIsDead
  <1> USE DEF ResetInv, ResetTypeOK, ResetSteps
  <1>1. CASE requestPasswordReset
    BY <1>1 DEF requestPasswordReset
  <1>2. CASE LinkExpires
    BY <1>2 DEF LinkExpires
  <1>3. ASSUME NEW p \in ResetPages, NEW l \in Links, OpenLink(p, l)
        PROVE  ResetInv'
    BY <1>3 DEF OpenLink
  <1>4. ASSUME NEW p \in ResetPages,
               findByPasswordResetToken(p) \/ ResetRefused(p)
        PROVE  ResetInv'
    <2>1. CASE findByPasswordResetToken(p)
      BY <2>1 DEF findByPasswordResetToken, Submitting, Show
    <2>2. CASE ResetRefused(p)
      BY <2>2 DEF ResetRefused, Submitting, Show
    <2> QED
      BY <1>4, <2>1, <2>2
  <1>5. ASSUME NEW p \in ResetPages, updatePasswordFromReset(p)
        PROVE  ResetInv'
    BY <1>5 DEF updatePasswordFromReset, Show
  <1>6. CASE UNCHANGED resetVars
    BY <1>6 DEF resetVars
  <1> QED
    BY <1>1, <1>2, <1>3, <1>4, <1>5, <1>6 DEF ResetNext

THEOREM ResetInvHolds == ResetSpec => []ResetInv
  BY ResetStart, ResetKept, PTL DEF ResetSpec

\* A link that has set a password is never found again, for any number of
\* pages and links (auth.service.ts:337-348).
THEOREM SpentLinksAreDead == ResetSpec => []SpentLinkIsDead
  <1>1. ResetInv => SpentLinkIsDead
    BY DEF ResetInv
  <1> QED
    BY <1>1, ResetInvHolds, PTL

-------------------------------------------------------------------------------
(* Registration. *)

\* At most one request links the applications of a user, who exists and whose
\* applications were not linked before; a linked one is its email's user's.
RegistrationInv ==
    /\ RegistrationTypeOK
    /\ \A g \in Forms : form[g].step # "closed" => form[g].email \in Emails
    /\ \A g \in Forms : form[g].step = "linking" =>
          /\ account[form[g].email].exists
          /\ account[form[g].email].link = "no"
    /\ \A g, h \in Forms :
          /\ form[g].step = "linking" /\ form[h].step = "linking"
          /\ form[g].email = form[h].email
          => g = h
    /\ \A l \in Logins : login[l].step # "idle" => login[l].email \in Emails
    /\ \A e \in Emails : ~account[e].exists => account[e].link = "no"
    /\ \A r \in Rows : row[r].user # None => row[r].user = row[r].email
    /\ RegisteredIsLinked

\* The action of LinkedOnce.
LinkOnce ==
    /\ \A e \in Emails : account[e].link # "no" => account'[e].link = account[e].link
    /\ \A r \in Rows : row[r].user # None => row'[r].user = row[r].user

LEMMA RegistrationStart == RegistrationInit => RegistrationInv
  <1> SUFFICES ASSUME RegistrationInit PROVE RegistrationInv
    OBVIOUS
  <1>1. RegistrationTypeOK
    BY DEF RegistrationInit, RegistrationTypeOK, NoAccount, Account,
           NoApplication, Application, NoForm, Form, NoLogin, Login
  <1> QED
    BY <1>1, RegistrationConstants
       DEF RegistrationInit, RegistrationInv, RegisteredIsLinked, With,
           NoAccount, NoApplication, NoForm, NoLogin

\* A step of a page that does not begin to link.
LEMMA PageKeeps ==
    ASSUME RegistrationInv, NEW g \in Forms, NEW f \in Form, Put(g, f),
           f.step # "linking", f.step # "closed" => f.email \in Emails, PageOnly
    PROVE  RegistrationInv' /\ LinkOnce
  <1>1. /\ form' \in [Forms -> Form]
        /\ form'[g] = f
        /\ \A h \in Forms : h # g => form'[h] = form[h]
    BY DEF Put, RegistrationInv, RegistrationTypeOK
  <1> QED
    BY <1>1 DEF PageOnly, RegistrationInv, RegistrationTypeOK, LinkOnce,
                RegisteredIsLinked, With, TwiceInOneMeet

LEMMA InviteTypes ==
    ASSUME NEW f \in Form, NEW b \in BOOLEAN
    PROVE  LET h == [f EXCEPT !.checking = FALSE, !.inviteError = b]
           IN  h \in Form /\ h.step = f.step /\ h.email = f.email
  BY DEF Form

LEMMA PageStep ==
    ASSUME RegistrationInv, NEW g \in Forms,
           \/ \E e \in Emails, o \in Orgs \cup {None} : OpenRegister(g, e, o)
           \/ \E e \in Emails : TypeEmail(g, e)
           \/ checkOrganizationInvite(g)
           \/ checkEmail(g)
           \/ handleSubmit(g)
           \/ ensureOrganizationJoinable(g)
           \/ Registered(g)
    PROVE  RegistrationInv' /\ LinkOnce
  <1>0. /\ form[g] \in Form
        /\ form[g].step # "closed" => form[g].email \in Emails
        /\ private \subseteq Orgs /\ account \in [Emails -> Account]
    BY DEF RegistrationInv, RegistrationTypeOK
  <1>1. ASSUME NEW e \in Emails, NEW o \in Orgs \cup {None}, OpenRegister(g, e, o)
        PROVE  RegistrationInv' /\ LinkOnce
    <2> DEFINE f == [NoForm EXCEPT !.step = "form", !.email = e, !.org = o,
                                   !.checking = (o # None)]
    <2>1. f \in Form /\ f.step = "form" /\ f.email = e
      BY DEF NoForm, Form
    <2>2. Put(g, f) /\ PageOnly
      BY <1>1 DEF OpenRegister
    <2> HIDE DEF f
    <2> QED
      BY <2>1, <2>2, PageKeeps
  <1>2. ASSUME NEW e \in Emails, TypeEmail(g, e)
        PROVE  RegistrationInv' /\ LinkOnce
    <2> DEFINE f == [form[g] EXCEPT !.email = e, !.emailError = FALSE]
    <2>1. f \in Form /\ f.step = "form" /\ f.email = e
      BY <1>0, <1>2 DEF Form, TypeEmail
    <2>2. Put(g, f) /\ PageOnly
      BY <1>2 DEF TypeEmail
    <2> HIDE DEF f
    <2> QED
      BY <2>1, <2>2, PageKeeps
  <1>3. CASE checkOrganizationInvite(g)
    <2> DEFINE f == [form[g] EXCEPT !.checking = FALSE,
                                    !.inviteError = form[g].org \in private]
    <2>0. (form[g].org \in private) \in BOOLEAN
      OBVIOUS
    <2>1. f \in Form /\ f.step = form[g].step /\ f.email = form[g].email
      BY <1>0, <2>0, InviteTypes, Zenon
    <2>2. Put(g, f) /\ PageOnly /\ form[g].step = "form"
      BY <1>3 DEF checkOrganizationInvite
    <2> HIDE DEF f
    <2> QED
      BY <1>0, <2>1, <2>2, PageKeeps
  <1>4. CASE checkEmail(g)
    <2> DEFINE f == [form[g] EXCEPT !.emailError = account[form[g].email].exists]
    <2>1. form[g].step = "form" /\ Put(g, f) /\ PageOnly
      BY <1>4 DEF checkEmail
    <2>2. account[form[g].email].exists \in BOOLEAN
      BY <1>0, <2>1 DEF Account
    <2>3. f \in Form /\ f.step = "form" /\ f.email = form[g].email
      BY <1>0, <2>1, <2>2 DEF Form
    <2> HIDE DEF f
    <2> QED
      BY <1>0, <2>1, <2>3, PageKeeps
  <1>5. ASSUME NEW s \in {"form", "joining", "creating"}, Goto(g, s),
               PageOnly, form[g].step # "closed"
        PROVE  RegistrationInv' /\ LinkOnce
    <2> DEFINE f == [form[g] EXCEPT !.step = s]
    <2>1. f \in Form /\ f.step = s /\ f.email = form[g].email
      BY <1>0 DEF Form
    <2>2. Put(g, f)
      BY <1>5 DEF Goto
    <2> HIDE DEF f
    <2> QED
      BY <1>0, <1>5, <2>1, <2>2, PageKeeps
  <1>6. CASE handleSubmit(g)
    BY <1>5, <1>6 DEF handleSubmit, Goto
  <1>7. CASE ensureOrganizationJoinable(g)
    BY <1>5, <1>7 DEF ensureOrganizationJoinable
  <1>8. CASE Registered(g)
    <2>1. NoForm \in Form /\ NoForm.step = "closed"
      BY DEF NoForm, Form
    <2> QED
      BY <1>8, <2>1, PageKeeps DEF Registered
  <1> QED
    BY <1>1, <1>2, <1>3, <1>4, <1>6, <1>7, <1>8

\* A step after which each application belongs where it did, and no link is
\* redone.
LEMMA CreateStep ==
    ASSUME RegistrationInv, NEW g \in Forms, create(g)
    PROVE  RegistrationInv' /\ LinkOnce
  <1> DEFINE e == form[g].email
             a == [NoAccount EXCEPT !.exists = TRUE]
             org == IF form[g].org = None THEN Own ELSE form[g].org
  <1>0. /\ form \in [Forms -> Form] /\ e \in Emails /\ form[g].step = "creating"
        /\ account \in [Emails -> Account] /\ a \in Account
        /\ joined \in [Emails -> Orgs \cup {Own, None}]
        /\ org \in Orgs \cup {Own, None}
        /\ UNCHANGED <<private, row, login>>
    BY DEF RegistrationInv, RegistrationTypeOK, create, Form, Account, NoAccount
  <1>1. CASE account[e].exists
    <2>1. PageOnly /\ Put(g, [form[g] EXCEPT !.step = "form"])
      BY <1>1 DEF create, PageOnly, Goto
    <2>2. [form[g] EXCEPT !.step = "form"] \in Form
      BY <1>0 DEF Form
    <2> QED
      BY <1>0, <2>1, <2>2, PageKeeps DEF Form
  <1>2. CASE ~account[e].exists
    <2>1. /\ account' = [account EXCEPT ![e] = a]
          /\ joined' = [joined EXCEPT ![e] = org]
          /\ form' = [form EXCEPT ![g] = [form[g] EXCEPT !.step = "linking"]]
      BY <1>2 DEF create, Insert, Goto, Put
    <2>2. account[e].link = "no" /\ a.exists /\ a.link = "no"
      BY <1>0, <1>2 DEF RegistrationInv, NoAccount
    <2>3. \A d \in Emails : account'[d].link = account[d].link
      BY <1>0, <2>1, <2>2
    <2>4. \A h \in Forms : form'[h].email = form[h].email
      BY <1>0, <2>1 DEF Form
    <2>5. form' \in [Forms -> Form] /\ form'[g].step = "linking"
      BY <1>0, <2>1 DEF Form
    <2>6. \A h \in Forms : h # g => form'[h] = form[h]
      BY <1>0, <2>1
    <2>7. \A h \in Forms : form[h].step = "linking" => form[h].email # e
      BY <1>2 DEF RegistrationInv
    <2>8. \A d \in Emails : d # e => account'[d] = account[d]
      BY <1>0, <2>1
    <2>9. account'[e] = a /\ account' \in [Emails -> Account]
          /\ joined' \in [Emails -> Orgs \cup {Own, None}]
      BY <1>0, <2>1
    <2>10. RegistrationTypeOK'
      BY <1>0, <2>5, <2>9 DEF RegistrationInv, RegistrationTypeOK
    <2>11. RegisteredIsLinked'
      BY <1>0, <2>3 DEF RegistrationInv, RegisteredIsLinked, With, TwiceInOneMeet
    <2>12. LinkOnce
      BY <1>0, <2>3 DEF LinkOnce
    <2>13. \A h \in Forms : form'[h].step # "closed" => form'[h].email \in Emails
      BY <1>0, <2>4, <2>6 DEF RegistrationInv
    <2>14. \A h \in Forms : form'[h].step = "linking" =>
             /\ account'[form'[h].email].exists
             /\ account'[form'[h].email].link = "no"
      <3>1. form'[g].email = e
        BY <2>4
      <3>2. ASSUME NEW h \in Forms, h # g, form'[h].step = "linking"
            PROVE  /\ account'[form'[h].email].exists
                   /\ account'[form'[h].email].link = "no"
        <4>1. form'[h] = form[h] /\ form[h].email # e /\ form[h].email \in Emails
          BY <2>6, <2>7, <3>2 DEF RegistrationInv
        <4> QED
          BY <2>8, <3>2, <4>1 DEF RegistrationInv
      <3> QED
        BY <2>2, <2>9, <3>1, <3>2
    <2>15. ASSUME NEW h \in Forms, NEW i \in Forms,
                  form'[h].step = "linking", form'[i].step = "linking",
                  form'[h].email = form'[i].email
           PROVE  h = i
      <3>1. h # g => form[h].step = "linking" /\ form[h].email # e
        BY <2>6, <2>7, <2>15
      <3>2. i # g => form[i].step = "linking" /\ form[i].email # e
        BY <2>6, <2>7, <2>15
      <3>3. form[h].email = form[i].email
        BY <2>4, <2>15
      <3> QED
        BY <3>1, <3>2, <3>3 DEF RegistrationInv
    <2> HIDE DEF a, e, org
    <2> QED
      BY <1>0, <2>2, <2>8, <2>9, <2>10, <2>11, <2>12, <2>13, <2>14, <2>15
         DEF RegistrationInv
  <1> QED
    BY <1>1, <1>2

\* Applications keep their meets and emails; those of other emails stay.
LEMMA LinkStep ==
    ASSUME RegistrationInv, NEW g \in Forms, linkByEmail(g)
    PROVE  RegistrationInv' /\ LinkOnce
  <1>1. PICK e \in Emails : e = form[g].email
    BY DEF RegistrationInv, linkByEmail
  <1>2. /\ form \in [Forms -> Form] /\ form[g].step = "linking"
        /\ account[e].link = "no" /\ account[e].exists
        /\ account \in [Emails -> Account] /\ row \in [Rows -> Application]
        /\ UNCHANGED <<joined, private, login>>
    BY <1>1 DEF RegistrationInv, RegistrationTypeOK, linkByEmail
  <1>3. PICK link \in {"done", "failed"}, next \in {"form", "verifying"} :
           /\ account' = [account EXCEPT ![e].link = link]
           /\ form' = [form EXCEPT ![g] = [form[g] EXCEPT !.step = next]]
           /\ \/ link = "failed" /\ TwiceInOneMeet(e) /\ row' = row
              \/ /\ link = "done"
                 /\ row' = [r \in Rows |-> IF r \in With(e)
                                              THEN [row[r] EXCEPT !.user = e]
                                              ELSE row[r]]
    BY <1>1 DEF linkByEmail, Goto, Put
  <1>4. link = "done" \/ (link = "failed" /\ TwiceInOneMeet(e))
    BY <1>3
  <1>5. row' \in [Rows -> Application]
    BY <1>2, <1>3 DEF Application
  <1>6. ASSUME NEW r \in Rows
        PROVE  /\ row'[r].meet = row[r].meet
               /\ row'[r].email = row[r].email
               /\ r \notin With(e) => row'[r] = row[r]
               /\ r \in With(e) => (link = "done" => row'[r].user = e)
               /\ link = "failed" => row'[r] = row[r]
    BY <1>2, <1>3 DEF Application
  <1>7. With(e) \subseteq Rows /\ \A r \in With(e) : row[r].email = e
    BY DEF With
  <1>8. /\ account' \in [Emails -> Account]
        /\ account'[e].link = link /\ account'[e].exists
        /\ \A d \in Emails : d # e => account'[d] = account[d]
    BY <1>2, <1>3 DEF Account
  <1>9. /\ form' \in [Forms -> Form]
        /\ form'[g].step = next /\ form'[g].email = e
        /\ \A h \in Forms : h # g => form'[h] = form[h]
    BY <1>2, <1>3, <1>1 DEF Form
  <1>10. ASSUME NEW d \in Emails
        PROVE  With(d)' = With(d) /\ (TwiceInOneMeet(d) => TwiceInOneMeet(d)')
    <2>1. With(d)' = {r \in Rows : row'[r].email = d}
      BY DEF With
    <2>2. With(d)' = With(d)
      BY <1>6, <2>1 DEF With
    <2>3. \A r, s \in With(d) :
             row[r].meet = row[s].meet => row'[r].meet = row'[s].meet
      BY <1>6 DEF With
    <2> QED
      BY <2>2, <2>3 DEF TwiceInOneMeet
  <1>11. \A h \in Forms : h # g /\ form[h].step = "linking" => form[h].email # e
    BY <1>2, <1>1 DEF RegistrationInv
  <1>12. \A r \in Rows : row'[r].user # None => row'[r].user = row'[r].email
    BY <1>7, <1>4, <1>6 DEF RegistrationInv
  <1>13. RegisteredIsLinked'
    <2>1. ASSUME NEW d \in Emails, d # e
          PROVE  /\ account'[d].link = "done" =>
                        \A r \in With(d)' : row'[r].early => row'[r].user = d
                 /\ account'[d].link = "failed" => TwiceInOneMeet(d)'
      <3>1. \A r \in With(d) : r \in Rows /\ row'[r] = row[r]
        BY <1>6, <2>1 DEF With
      <3>2. account'[d] = account[d]
        BY <1>8, <2>1
      <3>3. With(d)' = With(d) /\ (TwiceInOneMeet(d) => TwiceInOneMeet(d)')
        BY <1>10
      <3>4. /\ account[d].link = "done" =>
                  \A r \in With(d) : row[r].early => row[r].user = d
            /\ account[d].link = "failed" => TwiceInOneMeet(d)
        BY DEF RegistrationInv, RegisteredIsLinked
      <3> QED
        BY <3>1, <3>2, <3>3, <3>4
    <2>2. /\ link = "done" => \A r \in With(e)' : row'[r].user = e
          /\ link = "failed" => TwiceInOneMeet(e)'
      <3>1. With(e)' = With(e) /\ (TwiceInOneMeet(e) => TwiceInOneMeet(e)')
        BY <1>10
      <3> QED
        BY <1>7, <1>4, <1>6, <3>1
    <2>3. ASSUME NEW d \in Emails
          PROVE  /\ account'[d].link = "done" =>
                        \A r \in With(d)' : row'[r].early => row'[r].user = d
                 /\ account'[d].link = "failed" => TwiceInOneMeet(d)'
      BY <1>8, <2>1, <2>2
    <2> QED
      BY <2>3 DEF RegisteredIsLinked
  <1>14. LinkOnce
    <2>1. ASSUME NEW r \in Rows, row[r].user # None
          PROVE  row'[r].user = row[r].user
      BY <1>7, <1>4, <1>6, <2>1 DEF RegistrationInv
    <2>2. \A d \in Emails : account[d].link # "no" => d # e
      BY <1>2
    <2> QED
      BY <1>8, <2>1, <2>2 DEF LinkOnce
  <1>15. RegistrationTypeOK'
    BY <1>2, <1>5, <1>8, <1>9 DEF RegistrationInv, RegistrationTypeOK
  <1> QED
    BY <1>2, <1>8, <1>9, <1>11, <1>12, <1>13, <1>14, <1>15 DEF RegistrationInv

LEMMA RestartStep ==
    ASSUME RegistrationInv, ApiRestarts
    PROVE  RegistrationInv' /\ LinkOnce
  <1>0. /\ form \in [Forms -> Form] /\ account \in [Emails -> Account]
        /\ login' = [l \in Logins |-> NoLogin]
        /\ UNCHANGED <<joined, private, row>>
    BY DEF RegistrationInv, RegistrationTypeOK, ApiRestarts
  <1>1. ASSUME NEW g \in Forms
        PROVE  /\ form'[g] \in Form /\ form'[g].email = form[g].email
               /\ form'[g].step # "linking"
               /\ form'[g].step # "closed" => form[g].step # "closed"
    <2>1. form'[g] = IF form[g].step = "closed" THEN form[g]
                     ELSE [form[g] EXCEPT !.step = "form"]
      BY DEF ApiRestarts
    <2> QED
      BY <1>0, <2>1 DEF Form
  <1>2. ASSUME NEW e \in Emails
        PROVE  /\ account'[e] \in Account
               /\ account'[e].exists = account[e].exists
               /\ account'[e] # account[e] =>
                     /\ account[e].exists /\ account[e].link = "no"
                     /\ account'[e].link = "cut"
    <2>1. \/ account'[e] = account[e]
          \/ /\ account'[e] = [account[e] EXCEPT !.link = "cut"]
             /\ \E g \in Forms : form[g].step = "linking" /\ form[g].email = e
      BY DEF ApiRestarts
    <2> QED
      BY <1>0, <2>1 DEF Account, RegistrationInv
  <1>3. form' \in [Forms -> Form] /\ account' \in [Emails -> Account]
    BY <1>1, <1>2 DEF ApiRestarts
  <1>4. RegistrationTypeOK'
    BY <1>0, <1>3 DEF RegistrationInv, RegistrationTypeOK, NoLogin, Login
  <1>5. RegisteredIsLinked' /\ LinkOnce
    BY <1>0, <1>2 DEF RegistrationInv, RegisteredIsLinked, With, TwiceInOneMeet,
                      LinkOnce
  <1> QED
    BY <1>0, <1>1, <1>2, <1>4, <1>5 DEF RegistrationInv, NoLogin

LEMMA GoogleStep ==
    ASSUME RegistrationInv, NEW l \in Logins,
           \/ \E e \in Emails : upsertGoogleUser(l, e)
           \/ update(l) \/ createGoogleUser(l)
    PROVE  RegistrationInv' /\ LinkOnce
  <1>0. /\ account \in [Emails -> Account] /\ login \in [Logins -> Login]
        /\ UNCHANGED <<private, row, form>>
    BY DEF RegistrationInv, RegistrationTypeOK, upsertGoogleUser, update,
           createGoogleUser
  \* What the three of them leave as it is.
  <1>1. ASSUME account' \in [Emails -> Account],
               joined' \in [Emails -> Orgs \cup {Own, None}],
               login' \in [Logins -> Login],
               \A k \in Logins :
                  login'[k].step # "idle" => login'[k].email \in Emails,
               \A e \in Emails :
                  /\ account[e].link # "no" => account'[e].link = account[e].link
                  /\ account[e].exists =>
                        account'[e].exists /\ account'[e].link = account[e].link
                  /\ ~account'[e].exists => account'[e].link = "no"
                  /\ account'[e].link \in {"never", account[e].link}
        PROVE  RegistrationInv' /\ LinkOnce
    <2>1. RegistrationTypeOK'
      BY <1>0, <1>1 DEF RegistrationInv, RegistrationTypeOK
    <2>2. RegisteredIsLinked' /\ LinkOnce
      BY <1>0, <1>1 DEF RegistrationInv, RegisteredIsLinked, With,
                        TwiceInOneMeet, LinkOnce
    <2> QED
      BY <1>0, <1>1, <2>1, <2>2 DEF RegistrationInv
  <1>2. ASSUME NEW k \in Login, login' = [login EXCEPT ![l] = k],
               k.step # "idle" => k.email \in Emails
        PROVE  /\ login' \in [Logins -> Login]
               /\ \A j \in Logins :
                     login'[j].step # "idle" => login'[j].email \in Emails
    BY <1>0, <1>2 DEF RegistrationInv
  <1>3. NoLogin \in Login /\ NoLogin.step = "idle"
    BY DEF NoLogin, Login
  <1>4. joined \in [Emails -> Orgs \cup {Own, None}]
    BY DEF RegistrationInv, RegistrationTypeOK
  <1>5. \A e \in Emails : ~account[e].exists => account[e].link = "no"
    BY DEF RegistrationInv
  <1>6. ASSUME NEW e \in Emails, upsertGoogleUser(l, e)
        PROVE  RegistrationInv' /\ LinkOnce
    <2> DEFINE k == [step |-> IF account[e].exists THEN "updating"
                              ELSE "creating", email |-> e]
    <2>1. k \in Login /\ k.email = e /\ login' = [login EXCEPT ![l] = k]
      BY <1>6 DEF Login, upsertGoogleUser
    <2> HIDE DEF k
    <2>2. account' = account /\ joined' = joined
      BY <1>6 DEF upsertGoogleUser
    <2> QED
      BY <1>0, <1>1, <1>2, <1>4, <1>5, <2>1, <2>2
  <1>7. CASE update(l)
    <2>1. PICK e \in Emails : e = login[l].email
      BY <1>7 DEF RegistrationInv, update
    <2>2. account' = [account EXCEPT ![e].google = TRUE] /\ joined' = joined
      BY <1>7, <2>1 DEF update
    <2>3. account' \in [Emails -> Account]
      BY <1>0, <2>2 DEF Account
    <2>4. \A d \in Emails : /\ account'[d].exists = account[d].exists
                            /\ account'[d].link = account[d].link
      BY <1>0, <2>2 DEF Account
    <2>5. login' = [login EXCEPT ![l] = NoLogin]
      BY <1>7 DEF update
    <2> QED
      BY <1>1, <1>2, <1>3, <1>4, <1>5, <2>2, <2>3, <2>4, <2>5
  <1>8. CASE createGoogleUser(l)
    <2>1. PICK e \in Emails : e = login[l].email
      BY <1>8 DEF RegistrationInv, createGoogleUser
    <2>2. login' = [login EXCEPT ![l] = NoLogin]
      BY <1>8 DEF createGoogleUser
    <2>3. CASE account[e].exists
      <3>1. account' = account /\ joined' = joined
        BY <1>8, <2>1, <2>3 DEF createGoogleUser
      <3> QED
        BY <1>0, <1>1, <1>2, <1>3, <1>4, <1>5, <2>2, <3>1
    <2>4. CASE ~account[e].exists
      <3> DEFINE a == [exists |-> TRUE, google |-> TRUE, link |-> "never"]
      <3>1. account' = [account EXCEPT ![e] = a] /\ joined' = [joined EXCEPT ![e] = Own]
        BY <1>8, <2>1, <2>4 DEF createGoogleUser, Insert
      <3>2. a \in Account /\ a.exists /\ a.link = "never"
        BY DEF Account
      <3> HIDE DEF a
      <3>3. /\ account' \in [Emails -> Account]
            /\ joined' \in [Emails -> Orgs \cup {Own, None}]
        BY <1>0, <1>4, <3>1, <3>2
      <3>4. account'[e] = a /\ \A d \in Emails : d # e => account'[d] = account[d]
        BY <1>0, <3>1
      <3> QED
        BY <1>1, <1>2, <1>3, <1>5, <2>2, <2>4, <3>2, <3>3, <3>4
    <2> QED
      BY <2>3, <2>4
  <1> QED
    BY <1>6, <1>7, <1>8

\* An application that comes after the linking is not early.
LEMMA ApplicationStep ==
    ASSUME RegistrationInv, NEW r \in Rows, NEW m \in Meets, NEW e \in Emails,
           addAttendee(r, m, e)
    PROVE  RegistrationInv' /\ LinkOnce
  <1>0. /\ row \in [Rows -> Application] /\ row[r] = NoApplication
        /\ account \in [Emails -> Account]
        /\ UNCHANGED <<account, joined, private, form, login>>
    BY DEF RegistrationInv, RegistrationTypeOK, addAttendee
  <1> DEFINE new == [meet |-> m, email |-> e, user |-> None,
                     early |-> account[e].link = "no"]
  <1>1. (account[e].link = "no") \in BOOLEAN
    OBVIOUS
  <1>2. \A b \in BOOLEAN :
           LET a == [meet |-> m, email |-> e, user |-> None, early |-> b]
           IN  /\ a \in Application /\ a.meet = m /\ a.email = e
               /\ a.user = None /\ a.early = b
    BY DEF Application
  <1>3. /\ new \in Application /\ new.meet = m /\ new.email = e
        /\ new.user = None /\ new.early = (account[e].link = "no")
    BY <1>1, <1>2, Zenon
  <1>4. row' = [row EXCEPT ![r] = new]
    BY DEF addAttendee
  <1>5. new.early => account[e].link = "no"
    BY <1>3
  <1> HIDE DEF new
  <1>6. row' \in [Rows -> Application]
    BY <1>0, <1>3, <1>4
  <1>7. row'[r] = new /\ \A s \in Rows : s # r => row'[s] = row[s]
    BY <1>0, <1>4
  <1>8. row[r].email = None /\ row[r].user = None
    BY <1>0 DEF NoApplication
  <1>9. ASSUME NEW d \in Emails
        PROVE  /\ account'[d].link = "done" =>
                     \A s \in With(d)' : row'[s].early => row'[s].user = d
               /\ account'[d].link = "failed" => TwiceInOneMeet(d)'
    <2>1. \A s \in With(d)' : \/ s \in With(d) /\ row'[s] = row[s]
                              \/ s = r /\ d = e
      BY <1>3, <1>7 DEF With
    <2>2. /\ account[d].link = "done" =>
                \A s \in With(d) : row[s].early => row[s].user = d
          /\ account[d].link = "failed" => TwiceInOneMeet(d)
      BY DEF RegistrationInv, RegisteredIsLinked
    <2>3. \A s \in With(d) : s \in With(d)' /\ row'[s] = row[s]
      BY <1>7, <1>8, RegistrationConstants DEF With
    <2>4. TwiceInOneMeet(d) => TwiceInOneMeet(d)'
      BY <2>3 DEF TwiceInOneMeet
    <2> QED
      BY <1>0, <1>5, <1>7, <2>1, <2>2, <2>4
  <1>10. RegisteredIsLinked'
    BY <1>9 DEF RegisteredIsLinked
  <1>11. LinkOnce
    BY <1>0, <1>7, <1>8 DEF LinkOnce
  <1>12. RegistrationTypeOK'
    BY <1>0, <1>6 DEF RegistrationInv, RegistrationTypeOK
  <1>13. \A s \in Rows : row'[s].user # None => row'[s].user = row'[s].email
    BY <1>3, <1>7 DEF RegistrationInv
  <1> QED
    BY <1>0, <1>10, <1>11, <1>12, <1>13 DEF RegistrationInv

LEMMA RegistrationStep ==
    ASSUME RegistrationInv, [RegistrationNext]_registrationVars
    PROVE  RegistrationInv' /\ [LinkOnce]_registrationVars
  <1>1. ASSUME NEW o \in Orgs, setPrivate(o) PROVE RegistrationInv' /\ LinkOnce
    BY <1>1 DEF setPrivate, RegistrationInv, RegistrationTypeOK, LinkOnce,
                RegisteredIsLinked, With, TwiceInOneMeet
  <1>2. CASE UNCHANGED registrationVars
    BY <1>2 DEF registrationVars, RegistrationInv, RegistrationTypeOK,
                RegisteredIsLinked, With, TwiceInOneMeet
  <1> QED
    BY <1>1, <1>2, PageStep, CreateStep, LinkStep, RestartStep, GoogleStep,
       ApplicationStep DEF RegistrationNext

THEOREM RegistrationInvHolds == RegistrationSpec => []RegistrationInv
  BY RegistrationStart, RegistrationStep, PTL DEF RegistrationSpec

\* A registration that went through has every application made with its email
\* before, and one that failed after the user was created had a reason
\* (auth.service.ts:213-215, users.service.ts:392-397).
THEOREM RegisteredAreLinked == RegistrationSpec => []RegisteredIsLinked
  <1>1. RegistrationInv => RegisteredIsLinked
    BY DEF RegistrationInv
  <1> QED
    BY <1>1, RegistrationInvHolds, PTL

\* Nobody's link is redone, and a linked application stays with its user,
\* however registrations and sign-ins overlap (auth.service.ts:544-566).
THEOREM LinksAreMadeOnce == RegistrationSpec => LinkedOnce
  <1>1. RegistrationSpec => [][LinkOnce]_registrationVars
    BY RegistrationStart, RegistrationStep, PTL DEF RegistrationSpec
  <1> QED
    BY <1>1 DEF LinkedOnce, LinkOnce

-------------------------------------------------------------------------------
(* The modules about records together. *)

\* In the run of the modules about records each of them does what its own
\* specification says, so that whatever is proved of one holds in the run.
THEOREM RecordsRunModules ==
    RecordsSpec => /\ VerificationSpec /\ ResetSpec /\ RegistrationSpec
                   /\ MembershipSpec /\ QuestionsSpec /\ TemplatesSpec
                   /\ AutoFillSpec /\ MeetFormSpec
  <1>1. RecordsInit => /\ VerificationInit /\ ResetInit /\ RegistrationInit
                       /\ MembershipInit /\ QuestionsInit /\ TemplatesInit
                       /\ AutoFillInit /\ MeetFormInit
    BY DEF RecordsInit
  <1>2. [RecordsNext]_recordsVars =>
           /\ [VerificationNext]_verificationVars /\ [ResetNext]_resetVars
           /\ [RegistrationNext]_registrationVars
           /\ [MembershipNext]_membershipVars /\ [QuestionsNext]_questionVars
           /\ [TemplatesNext]_templateVars /\ [AutoFillNext]_autoFillVars
           /\ [MeetFormNext]_meetFormVars
    BY DEF RecordsNext, recordsVars
  <1> QED
    BY <1>1, <1>2, PTL
    DEF RecordsSpec, VerificationSpec, ResetSpec, RegistrationSpec,
        MembershipSpec, QuestionsSpec, TemplatesSpec, AutoFillSpec, MeetFormSpec

\* Whichever of the modules about records moves, its variables keep their types.
THEOREM RecordsTypesHold == RecordsSpec => []RecordsTypeOK
  <1>1. RecordsSpec => [](which \in Which)
    <2>1. RecordsInit => which \in Which
      BY DEF RecordsInit
    <2>2. which \in Which /\ [RecordsNext]_recordsVars => (which \in Which)'
      BY DEF RecordsNext, recordsVars
    <2> QED
      BY <2>1, <2>2, PTL DEF RecordsSpec
  <1>2. /\ which \in Which
        /\ VerificationInv /\ ResetInv /\ RegistrationInv
        /\ MembershipTypeOK /\ QuestionsInv /\ TemplatesInv
        /\ AutoFillInv /\ MeetFormInv
        => RecordsTypeOK
    BY DEF RecordsTypeOK, VerificationInv, ResetInv, RegistrationInv,
           QuestionsInv, TemplatesInv, AutoFillInv, MeetFormInv
  <1> QED
    BY <1>1, <1>2, RecordsRunModules, VerificationInvHolds, ResetInvHolds,
       RegistrationInvHolds, MembershipTypesHold, QuestionsInvHolds,
       TemplatesInvHolds, AutoFillInvHolds, MeetFormInvHolds, PTL
===============================================================================
