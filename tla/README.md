# Adventure Meets: a TLA+ model

Adventure Meets is a web application for organizing outdoor meets. An API
(`api/`, NestJS) stores meets, attendees, users and organizations in PostgreSQL
and sends mail; a single-page application (`web/`, React) is used by organizers
and by people who sign up; a worker (`worker/`) moves meets through their
life as their dates pass.

The modules here model the parts of that program where several actors change
the same rows from views that may be stale, and the parts of the pages that
keep state of their own. They are translated from the code;
where the code and a text of its user interface disagree, a run shows it.

## Inventory

| Component | State | Operations | Hard behaviour | Modelled by |
|---|---|---|---|---|
| Worker (`worker/src/main.ts`, `tasks/meetScheduler.ts`) | `isRunning`, `consecutiveSkips`, the ids a step SELECTed | tick, four steps, one PATCH per id, exit | crash, restart, failed or abandoned PATCH, stale ids, skipped ticks | `MeetLifecycle`, `MeetRefinement` |
| Meets in the API (`api/src/meets/meets.service.ts`, `meets.controller.ts`) | table `meets` | create, update, updateStatus, findAll, images, reports | no status is checked before a change; two queries that disagree about a total | `MeetLifecycle`, `MeetForm`, `Listing` (images and reports left out) |
| Organizer's list, menu, dialogs (`web/src/components/meet`, `confirmDialogs`) | list fetched last, open dialog | open, close, cancel, postpone, edit | stale lists, several tabs | `MeetLifecycle`, `MeetRefinement` |
| Create/edit modal (`createMeetModal`) | form, baseline, step, request under way | create, save a step, refetch, publish | publishing is up to three requests; the modal can be closed, or show another meet, before an answer | `MeetLifecycle`, `MeetForm`, `Questions` |
| Signup sheet (`web/src/pages/MeetSignupSheet.tsx`) | form, fetched application, dialog, submitted page | open, edit by link, check, submit, update | double click, lost answer, stale meet, slow fetch | `Signup`, `Questions` |
| Attendee rows (`meet-attendees.controller.ts`, `addAttendee`, `updateAttendee`) | table `meet_attendees` | check, add, update | check-then-add, max + 1, commit before mail | `Signup`, `Questions`, `Registration` |
| Attendee statuses (`ManageAttendeesModal.tsx`, `AttendeeStatusPage.tsx`, `MeetCheckinPage.tsx`) | `status`, `responded_at` | decide, withdraw, edit by code, notify, check in | notify-then-patch, stale snapshots, partial mail | `AttendeeStatus`, `AttendeeRefinement` |
| Email verification (`auth.service.ts`, `ProfileModal.tsx`) | address, code, expiry, attempts, lock | change address, request, confirm | every decision is made on a row read before other requests wrote it | `EmailVerification` |
| Password reset (`auth.service.ts`, `ResetPasswordPage.tsx`) | the hash of the last link | request, open, set | look-up and write are two accesses | `PasswordReset` |
| Registration (`auth.service.ts`, `users.service.ts`, `RegisterPage.tsx`) | table `users`, `user_id` of attendees | register, sign in with Google, link by email | check-then-create, failure or restart after the commit | `Registration` |
| Members (`organizations.service.ts`, `EditUsersModal.tsx`) | memberships, the page's list, dialog | edit role and status | role read before the write; a dialog writes back what it was opened with | `Membership` |
| Questions and answers (`syncMetaDefinitions`, `meta_values`) | definitions and values | save questions, answer, correct | definitions are replaced under sheets that hold their ids | `Questions` |
| Templates (`CreateOrEditTemplateModal.tsx`) | templates, their questions, the tab's cache | create, edit, delete | saving replaces all questions; forms filled from a cache | `Templates` |
| Kept answers (`ProfileModal.tsx`, `user_meta_values`) | answers, the tab's cache, form | fetch, fill, save | saving replaces all answers; a form filled once | `AutoFill` |
| Token refresh (`web/src/hooks/useApi.ts`, `AuthProvider.tsx`) | tokens in localStorage | request, refresh, sign in and out | tabs share the tokens; concurrent refreshes | `Session` |
| Frame (`MainLayout.tsx`, `OrganizationProvider.tsx`, `ChooseOrganizationModal.tsx`, `ThemeModeContext.tsx`) | user, organization, dialog, mode | choose, switch, toggle, log out | effects that correct each other's state | `Workspace` |
| Calendar (`CalendarPage.tsx`) | month, view, drawer, dialog | turn pages, open | weeks and months a meet spans, midnight, a day of 23 hours | `Calendar` |
| List and dashboard (`ListPage.tsx`, `DashboardPage.tsx`, `findAll`) | view, page, search, what was fetched | turn pages, search | order and total are determined apart | `Listing` |
| Mail (`incoming-mail.controller.ts`, `messageAttendees`, `AttendeeMessages.tsx`) | table of messages, the dialog's copy | forward, send, save, mark as read | delivery and insert may fail one without the other | `Messages`; the mails about an application in `Signup`, those about a status in `AttendeeStatus` |
| Reports, storage, migrations, deployment | | | | see *Not modelled* |

How they interact: the browser and the worker change rows only through HTTP
requests to the API; the worker also SELECTs from the database directly. No
request carries a version, and hardly a handler compares the row with the one the
caller saw, so most hazards are about *what was true when something was read*.
Tabs of one browser share localStorage (tokens, organization, mode) and nothing
else. `PROJECT.json` lists the hazards with the line where each one bites and the
property that watches it.

## Modules

| Module | Content |
|---|---|
| `MeetLifecycle` | table `meets`, organizers' tabs, the worker |
| `MeetProtocol` | the abstract specification: statuses, and the changes somebody intends |
| `MeetRefinement` | `MeetLifecycle` implements `MeetProtocol`: where intentions are kept |
| `Signup` | one meet's table `meet_attendees`, signup sheets, the requests their clicks start |
| `AttendeeStatus` | the statuses of one meet's attendees, the mails about them, organizers' and check-in pages |
| `AttendeeProtocol` | the abstract specification: the attendees' statuses, and the changes somebody intends |
| `AttendeeRefinement` | `AttendeeStatus` implements `AttendeeProtocol`: where intentions are kept |
| `EmailVerification`, `PasswordReset`, `Registration` | one user's address and its codes; one user's reset links; users and what is linked to them |
| `Membership`, `Questions`, `Templates`, `AutoFill`, `MeetForm` | rows that are fetched, shown in a form and written back |
| `Session`, `Workspace` | what a browser keeps: tokens and calls; user, organization and mode |
| `Calendar`, `Messages`, `Listing` | what a page makes of fetched rows |
| `MCMeetLifecycle`, `MCSignup`, `MCAttendeeStatus` | instances for TLC |
| `MCRecords` | instance of `EmailVerification` to `MeetForm` in the list above |
| `MCBrowser` | instance of `Session` to `Listing` in the list above |
| `MeetLifecycleProofs`, `MeetRefinementProofs`, `SignupProofs`, `AttendeeStatusProofs`, `AuthProofs`, `FormProofs`, `QuestionsProofs`, `BrowserProofs` | theorems |

`MCRecords` and `MCBrowser` hold several modules that share no variable and no
action. They are not a composition of interest: a product of their state spaces
would show nothing more. `which` names the module that moves in a behaviour, the
others stay in one initial state, and every module is so explored in full.

Definitions named `...WithDraftCancel`, `...Unawaited` and the like are faulty
variants of a definition that follows them. They are used by no specification;
substituted for the definition they vary, each makes one property fail, which
shows that the property depends on the code it is about.

Variables and fields whose comment calls them history (`undisturbed`, `mistaken`,
`crossed`, `late`, `excused`, `mixed` and others) remember what a property needs to
know of the past. The program has nothing like them, and they change no outcome.

### MeetLifecycle

*State.* `meets[m]` is the row (status, the four dates and the waitlist limit;
`Absent` before the insert). A tab has a list (`page`, the statuses it fetched
last), what it shows (`tab`: the list, a confirmation dialog, or the edit modal
with the part of its form that decides about publishing) and the
`handlePublish` it is running (`publishing`). The worker has a program counter,
the ids still to be PATCHed and the number of skipped ticks; `lost` are PATCHes
whose answer it no longer waits for. `waitlisted` counts attendees with that
status and `now` is the clock. `undisturbed` is a history variable: nothing but
the worker's own answered PATCHes has happened since its pass began.

*Actions.* Of a tab: `LoadList`, `ChooseAction` (the menu's `shouldShow`),
`ConfirmAction` (the dialog's PATCH), `Dismiss`, `Reload`, `Create`, `OpenEdit`,
`Refetch`, `SaveTimes`, `SaveLimits`, `Publish` and the three PATCHes of
`handlePublish`, and `PublishFails`. Of the worker: `StartPass`, `NextStep`,
`EndPass`, `Patch`, `PatchFails`, `Crash`, `SkipTick`, `SkipTooMany`, `Restart`,
and what becomes of an abandoned PATCH, `LostApplied` and `LostDropped`. Of the
surroundings: `WaitlistChanges` and `Clock`.

*Abstractions.* Only the fields the menu, the worker and the publish button read
are kept. A request of a tab takes effect while its dialog is still open, so
that the time the dialog stays open also stands for the latency of the request;
a failed request of a dialog leaves it open and changes nothing. The ids of a
step are PATCHed one at a time in an order the model leaves open, because the
query has no ORDER BY.

*Properties.*

- `SettledForever`: a meet that is cancelled or completed stays so, once no list,
  dialog, modal, publication, worker's id or PATCH under way is about it. The
  program cannot promise more: the API checks no status, so any of those may
  still change it. The property says the menu, the modal and the worker never
  take up such a meet from a fresh view.
- `DraftOnlyPublished`: a draft leaves its status by being published and in no
  other way, however stale the tabs.
- `QuietPassSettles`: one pass makes every due change if nothing interferes; the
  steps are in an order in which no step makes work for an earlier one.
- `PublishedWithDates`: with one tab, a meet is published only with its opening
  and closing dates set, although they are filled in by requests of their own.
  With two tabs this is not so: the second one can blank a date in between.
- `DueIsServed`, `NoMeetStaysLive`: liveness, below.
- `RefinesProtocol`: see *MeetProtocol*.
- `CancellingPreventsSubmissions` and `BlankClosesAtStart` are what the dialogs
  and forms say and the program does not keep (see *Findings*).

### MeetProtocol, MeetRefinement

What the parts of `MeetLifecycle` promise each other, without the parts: each
meet has a status, and there is a set of intentions (meet, new status). An
intention is formed by looking at a meet and only as `Permitted` allows for the
status that is seen; it may be dropped; and it may be carried out at any later
time, whatever the status is by then. That the status is not looked at again is
deliberate: it is how far the program goes, and the finding *A cancelled meet
opens* shows it.

`MeetRefinement` says where intentions are kept: in the menu of a fetched list, an
open dialog, a modal whose publish button is enabled, a publication under way, the ids
of the worker's step, and PATCHes it no longer waits for. `RefinesProtocol` then
says that nothing else changes a status: the worker's queries, the menu's
`shouldShow` and the modal agree on one table of what is permitted, although that
table is written nowhere in the code.

### Signup

*State.* `rows` is the table of one meet's attendees: contact and sequence
number, the organizer's own row first. A sheet has what it shows, whether the
meet was open when it was fetched, the contact entered, the row its edit link
names, that row once it has been fetched, and the POST whose answer disables its
button. A request has the stage it has reached, the sheet waiting for it, and
what it read: the rows its duplicate check saw (`seen`) and the highest number
(`max`) with the rows that were there (`before`). `mailed` and `edited` are
history.

*Actions.* Of a sheet: `Load`, `Refetch`, `FetchApplication`, `Enter` (with the
check on leaving the field), `CloseDialog`, `Submit`. Of a request: `Checked`,
`LoseAnswer`, `ReadMax`, `Insert`, `Mail`, `Update`, `Fail`. `StatusChanges` is the
organizer or the worker of `MeetLifecycle`, of which this module needs only
whether the meet is open.

*Abstractions.* An application is its contact: email, phone and whether it is a
minor's, whose email the check leaves out. An application has an email: the
form requires it. `addAttendee`'s transaction is two actions, because under
READ COMMITTED two transactions can both read the highest number before either
inserts. Questions, guests, payments and statuses are not kept.

*Properties.*

- `SequenceRespectsOrder`: an application has a higher number than every one
  that was committed before its POST was handled. Only overlapping POSTs can
  share one.
- `NoDuplicateBehindCheck`: two unedited rows of one contact come from requests
  that overlapped; a check never misses a row that was there.
- `SubmittedIsStoredAndMailed`: the page "submitted" is shown only for a row
  that is stored and whose applicant was sent the link that edits it.
- `ClosingPreventsSubmissions`, `UpdateAddsNoRow`: see *Findings*.

### AttendeeStatus

*State.* `attendees[a]` is the row: its status and whether `responded_at` is set,
that is, whether the attendee counts as notified. An organizer's page has the list
it fetched last, the dialog it shows (the one that announces the mail about a
decision, or the one that offers to notify before the page closes, with the
snapshot it took) and the step its handler has reached: the mails of a POST, those
that are out, the groups still to be posted about. A check-in page has the
attendees it shows and its ticks. `editing` are the edits by applicants that have
read the status and not yet written it. `told` is history, the last thing an
attendee was mailed, and so is `mistaken`: the attendees somebody acted on from a
list that was no longer true, or while another handler did, or in a handler that
failed half-way.

*Actions.* Of a page: `RefetchList`, `handleUpdateStatus`, `ConfirmDialog`,
`CancelDialog`, `handleRequestClose`, `handleNotifyBeforeCloseLater`,
`handleNotifyBeforeCloseNow`, `Message`, `CloseMeet`; of its handler: `NextGroup`,
`AllGroupsDone`, `ListAttendees`, `SendMail`, `Mark`, `Patch`, `Refetched`, `Fail`.
Of a check-in page: `LoadScanner`, `handleTapCheckin`, `handleUndoConfirm`. Of an
applicant: `withdrawAttendee`, `BeginEdit`, `EndEdit`.

*Abstractions.* What a mail says is the standing it tells (confirmed, waitlisted,
rejected) or "message" for a text an organizer wrote. The meet's status is not
kept: it changes at any time, so what a page knows of it is either answer
whenever it is asked. A page runs one handler at a time; two clicks on one page
are clicks on two pages with the same list. An edit that found any status but
"cancelled" leaves the status alone and is left out.

*Properties.*

- `NotifiedWasMailed`: whoever counts as notified was mailed. The mails of a POST
  go out in any order and the POST may fail after any of them, so it matters that
  they are marked together, after the last.
- `ToldIsSo`: what a notified attendee was told last is his status, unless he is
  `mistaken` or a handler is about him just now; a pending or withdrawn application
  tells nothing. The mail goes out before its PATCH, groups are told from a
  snapshot, check-ins change a status without a mail; the property says that
  each of these is right by itself, and that what goes wrong takes a stale list,
  two handlers at once, or a failure between the mail and the PATCH.
- `WithdrawnForGood`: a withdrawal that every list, dialog and check-in page has
  seen is only undone by the applicant's own edit.
- `RefinesAttendeeProtocol`: see below.
- `NotifiedLearnsOfDecisions`: see *Findings*.

### AttendeeProtocol, AttendeeRefinement

The same form as `MeetProtocol`, for attendees: statuses, and intentions (attendee,
new status) that start from a status somebody saw, as `Permitted` allows, and are
carried out later whatever the status is by then. `Permitted` is a table that is
written nowhere in the code: organizers decide about whoever is neither checked in nor
withdrawn, and not for the status he has; the confirmed are checked in, and the
ticked unticked; an application that was withdrawn becomes pending by an edit.
Withdrawing looks at nothing. Whoever carries out an intention sees what he did: a
tapped name can be unticked at once.

`AttendeeRefinement` says where intentions are kept: the buttons a page's list offers,
the decision that a dialog, a mail and a PATCH are about, the names and ticks of a
check-in page, and edits that have read the status "cancelled". `RefinesAttendeeProtocol`
then says that nothing else changes a status. That a decision is announced by a dialog,
mailed, and only then stored, that its handler may fail anywhere, and that a check-in page
is as old as its last fetch lets the pages act late, but never do what no list offered.

### EmailVerification

*State.* `user` is the row: address, whether it is verified, the stored code,
whether its half hour is running, wrong attempts, lock. A profile page knows the
address and whether it is verified. Each of its three buttons has a request,
with what it read of the row.

*Actions.* `ChangeEmail`, `EmailChanged`; `AskForCode`, `setEmailVerificationToken`;
`EnterAnyway`, `EnterExpired`, `EnterWrong`, `EnterRight` and the writes that follow:
`clearEmailVerificationToken`, `incrementEmailVerificationAttempts`,
`lockEmailVerification`, `markEmailVerified`, `Fetched`; `OpenProfile`, `CodeExpires`,
`LockEnds`.

*Abstractions.* A code is its number; a wrong code is any other. Pressing a
button and the first access of its request are one step.

*Properties.*

- `VerifiedByItsMailbox`: a verified address is one whose mailbox the accepted
  code was read in, unless the address was changed between the read and the
  write of another request (`crossed`): then the code does verify the wrong
  address, and the property says that this is the only way.
- `FewTries`: how many wrong codes are compared with one stored code before the lock.
  The limit of five is decided from a count read before the increment, so the bound
  grows with the pages: fewer than MaxAttempts - 1 + 2n for n pages.
- `FreshCodeKept`: a fresh code is not thrown away but for three reasons, one of
  which is an attempt that found an *older* code expired.

### PasswordReset

*State.* The link the row holds, links made so far, pages opened with a link.
*Actions.* `requestPasswordReset`, `OpenLink`, `findByPasswordResetToken`,
`ResetRefused`, `updatePasswordFromReset`, `LinkExpires`. *Property.*
`SpentLinkIsDead`: a link that set a password is never found again. That one link
may set two passwords, when two pages are past the look-up, is what the code
does and the model allows; afterwards the link is dead all the same.

### Registration

*State.* `account` by email, the organization joined, which organizations are
private, applications with their meet, email and user, register pages, sign-ins
with Google.

*Actions.* Of the page: `OpenRegister`, `checkOrganizationInvite`, `TypeEmail`,
`checkEmail`, `handleSubmit`, `Registered`. Of the API: `ensureOrganizationJoinable`,
`create`, `linkByEmail`, `upsertGoogleUser`, `update`, `createGoogleUser`,
`addAttendee`, `setPrivate`, and `ApiRestarts`, which cuts every request where it
is.

*Properties.* `RegisteredIsLinked`: a registration that went through has every
application made with that email before; one that failed after the commit did
so for a reason (two rows of one meet, or a restart). `LinkedOnce`: a second
registration or sign-in that races the first redoes nobody's link.

### Membership

*State.* Memberships; for each user the list his page holds, the dialog with the row it
was opened with, the request under way. *Actions.* `findMembers`, `Edit`, `Close`,
`handleSave`, `updateMember`, `Saved`.

*Properties.* `OneLateWrite`: whoever lost the role gets one more write through
at most. `UntouchedIsKept`: the dialog sends the role and the status, also the one
nobody touched; that field changes only over another page's later write or from
a dialog older than the page's own last write. `AbandonedForGood` (proved, and not
in a run): nothing keeps the last administrator from losing his role, and
from then on nobody can be given it.

### Questions

*State.* The definitions (the save that made them, which stands for their
ids, and their keys), the question step, applications with their answers, sheets and
the organizer's correction, each with the definitions it fetched. *Actions.*
`mapMeetToState`, `EditQuestions`, `syncMetaDefinitions`, `OpenSheet`,
`submitSheet`, `OpenDialog`, `handleSaveCorrection`.

*Properties.* `RequiredIsAnswered`: a required question is unanswered only if the
questions were saved since the sheet was fetched, or the organizer emptied the
answer. `NoOrphanedAnswer`: no answer to a question that is gone, which the
foreign key guarantees only because ids are never reused.

### Templates, AutoFill

Both have a form filled from what the tab fetched before, and a save that
replaces everything. *Actions* of `Templates`: `OpenEditor`, `OpenNew`,
`CloseEditor`, `findTemplateById`, `FetchTemplateFails`, `addField`,
`removeField`, `SaveTemplate`, `createTemplate`, `updateTemplate`,
`SaveTemplateFails`, `TemplateSaved`, `deleteTemplate`; of `AutoFill`:
`OpenAutoFill`, `CloseAutoFill`, `Forget`, `FetchQuestions`, `FetchAnswers`,
`FetchFails`, `setAutoFillValue`, `handleSaveAutoFill`, `saveUserMetaValues`,
`SaveFails`, `listMetaDefinitions`.

`QuestionsOnlyRemoved` and `KeptUnlessCleared` say what a save may delete: what was
removed or emptied in the form that is sent (`excused`), or what that form could not
know because it was filled from something older or from a fetch that failed.

### MeetForm

*State.* Rows, what the tab fetched of them, the modal (the meet it was opened for,
the meet it saves, the step), the form and its baseline, the request of "Save &
Continue", the question to the geocoder.

*Actions.* `Type`, `Geocoded`, `GeocoderFails`, `OpenNewMeet`, `OpenMeet`,
`MeetFetched`, `MeetFetchFails`, `Leave`, `CloseMeetForm`, `handleNext`,
`SaveApplied`, `SaveAnswered`, `SaveMeetFails`, `Finish`. A change of the step or of
the location is noticed by the geocoder in the same step (`Geocode`).

*Property.* `FormIsItsMeet`: what the form shows under a meet, and saves to it, is of
that meet; and when it shows no unsaved changes it is what is stored. The
exceptions it names are what the code really does: an edit made while a save is
under way is in the form but not in the row, and the answer does not say so
(`changedLate`); a field that is emptied but left out of the payload keeps its
value in the row (`LeftOut`); the answer to a save may find the modal closed and
opened for another meet, and then sets *its* meet and step (`mixed`).

### Session

*State.* The tokens in localStorage (whose, and whether the access token lives),
the view of each tab, the calls under way with the tokens they were sent with.
*Actions.* `Request`, `RequestLogin`, the answers to a call (`AnswerOk`,
`Unauthorized`, `UnauthorizedForGood`, `refreshToken`, `RefreshRefused`,
`CallLost`), `useLogin`, `Visit`, `Logout`, `AccessTokenExpires`,
`SentTokenExpires`.

*Properties.* `GoneForGood`: a user whose tokens are gone comes back only by
signing in, unless a refresh of his was under way, which signs him in again even
after a logout. `EveryCallEnds`: liveness, below.

### Workspace

*State.* The organizations of the user as the API has them and as the tab knows
them, the current organization, the dialog that makes him choose, the mode and
what localStorage keeps. *Actions.* Each effect of the providers and the layout is
an action (`ClearOrganization`, `OnlyOrganization`, `KeepOrganization`,
`AutoChoose`, `ForgetAutoChoice`, `AllowMode`, `setBaseMode`, `KeepMode`), and so
is everything that makes them run again.

*Properties.* `EffectsSettle`: from no event do effects run for ever, whatever
order they run in; none makes more than 16 run, and the longest sequence of the
instance has 14 (16 run with a theme of "dark" alone and one of "glass" alone).
`OrganizationIsKept`: the organization
is left only by choice, or because the tab learnt something.

### Calendar, Listing

Mostly pure: the days on which a meet is shown are operators on its times, and
a page of the list is a set of possible answers, since rows that compare
equal come in any order. `ShownOnItsDays` compares the desktop's bars and the
phone's occurrences with the days of the meet; the two differences it allows (an end
at midnight, a change of the clocks) are differences of the code.
`PagesHoldAll`: the pages up to the number the total gives hold every meet once,
although total and page are counted by different queries. *Actions* are what the user
clicks, time, and changes of rows.

### Messages

*State.* Attendees' addresses, mails on their way, rows of the table, what was
delivered, the organizer's dialog. *Actions.* `handleIncoming`,
`messageAttendees`, `sendEmail`, `saveIncomingMessage`, `saveMessage`, `MailFails`,
`updateAttendee`, `setSelectedAttendeeId`, `listAttendeeMessages`, `markRead`,
`markAttendeeMessageRead`. *Properties.* `ListedWasDelivered`: the list has nothing
that was not delivered. `DotGoesOut`: every unread message can be marked by a
click, although which way a message went is guessed from addresses that change;
the exception is an attendee whose address is a part of the organizer's.

## Runs

| Run | Configuration | Shows | Bounds, and why they are enough |
|---|---|---|---|
| `two_tabs` | `MCMeetLifecycleTwoTabs.cfg` | `TypeOK`, `SettledForever`, `DraftOnlyPublished` | One meet, two tabs (symmetric), one abandoned PATCH. Meets do not interact except in the worker's list of ids. Time stands still, since every date is due at once; what matters here is the order of requests. No crash: `lost` already contains what a dead worker leaves behind. |
| `one_tab` | `MCMeetLifecycleOneTab.cfg` | `QuietPassSettles`, `PublishedWithDates`, `RefinesProtocol`, `DueIsServed`, `NoMeetStaysLive` | Times 0 and 1, so that a date is past, now, or missing; the opening left blank and the other limits set; archived at once after the end; the second skipped tick exits (the third in the code); a crash. |
| `signup` | `MCSignup.cfg` | `TypeOK`, `SequenceRespectsOrder`, `NoDuplicateBehindCheck`, `SubmittedIsStoredAndMailed` | Two clicks, from one sheet or two; three contacts: a guardian, a child with the same email and a phone of its own, and the organizer. Each property is about two rows or one sheet. |
| `decisions` | `MCAttendeeStatus.cfg` | `TypeOK`, `ToldIsSo`, `WithdrawnForGood` | One attendee, two organizers' pages (symmetric), one check-in page; the decisions confirm and reject, waitlisting differing from them only in what the mail says. Each property is about one attendee, and two pages are enough for one to act on what the other changed. |
| `groups` | `MCAttendeeStatusGroups.cfg` | `NotifiedWasMailed`, `RefinesAttendeeProtocol` | Two attendees, one page: the least for a POST to fail between two mails and for two groups, and for the mapping to tell one attendee's intentions from another's. No check-in page: with one it takes too long, so what check-in adds to the refinement is proved and not run. |
| `records` | `MCRecords.cfg` | `RecordsTypeOK`, `VerifiedByItsMailbox`, `FewTries`, `FreshCodeKept`, `SpentLinkIsDead`, `RegisteredIsLinked`, `LinkedOnce`, `OneLateWrite`, `UntouchedIsKept`, `RequiredIsAnswered`, `NoOrphanedAnswer`, `QuestionsOnlyRemoved`, `KeptUnlessCleared`, `FormIsItsMeet` | Two pages, users, sheets or tabs of whatever overlaps. Two addresses, two codes (one replaces the other), a lock after two wrong codes (five in the code) and two requests under way; two reset links; one register page beside two sign-ins with Google, and two applications of one meet, the least for the key to break; two administrators' pages and two writes; two questions, one of them required, and three saves; one template and one kept answer, since a save replaces all of them alike; one meet row, a form of two steps (the name, the location with its point) and two edits: an edit before and one during a save. |
| `browser` | `MCBrowser.cfg` | `BrowserTypeOK`, `EffectsSettle`, `ShownOnItsDays`, `ListedWasDelivered`, `DotGoesOut`, `PagesHoldAll`, `OrganizationIsKept`, `GoneForGood`, `EveryCallEnds` | Two tabs with one call each, two users; two organizations whose themes allow different modes; one meet on two months of 28 and 31 days with a day of 23 hours, its start and end on both sides of every week's and month's edge; three addresses, one a part of the organizer's, two attendees, a mail in and one out; two meets on pages of one and two, three hours. `MCRows` are the rows that differ for the list. |
| `cancelled_meet_opens` | `MCMeetLifecycleCancel.cfg` | violates `CancellingPreventsSubmissions` | |
| `blank_closing` | `MCMeetLifecycleBlankClosing.cfg` | violates `BlankClosesAtStart` | |
| `closed_meet_grows` | `MCSignupClosing.cfg` | violates `ClosingPreventsSubmissions` | |
| `update_adds_row` | `MCSignupUpdate.cfg` | violates `UpdateAddsNoRow` | |
| `silent_decision` | `MCAttendeeStatusTold.cfg` | violates `NotifiedLearnsOfDecisions` | |

`CHECK_DEADLOCK FALSE` in `MCRecords.cfg`: the bounds on codes, writes, saves and
edits end behaviours that could go on.

*Fairness.* `FairSpec` of `MeetLifecycle` assumes that time passes, that a running
worker's timer ticks and its steps go on, that a dead worker is restarted
(`restart: unless-stopped` in `docker-compose.yml`), and, strongly, that a PATCH
which is asked for again and again is answered at last. It assumes
nothing of organizers. Crashes are bounded by `MaxCrashes`; a worker that died in
every pass would of course serve nothing. The strong fairness of `Patch` is the
assumption that the API is not down for ever. For each meet it is stated twice, for
the archiving PATCH and for the others together, since an organizer who re-opens a
meet again and again gives the worker a PATCH to close it each time. `DueIsServed`
and `NoMeetStaysLive` say, as `[]<>`, that every change which is due is at some
later time not due, and every meet not live; that is the same as leads-to from the
one to the other. `SessionSpec` assumes that every
call is answered or given up by the browser, as it does when the connection is
gone, and nothing else: not that a refresh
succeeds, nor that a user stays.

## Findings

- *A cancelled meet opens.* "Cancelling will prevent any new submissions."
  The worker SELECTs a published meet whose opening has passed; an organizer
  opens it by hand and cancels it; the worker's PATCH then sets it to Open.
- *A blank closing date.* "Leave blank to close when meet starts." Only
  publishing fills the date in. Blanked in the modal of an open meet it
  is NULL, and the worker skips it: the meet stays open after its start.
- *A closed meet grows.* "Closing the meet will prevent any new submissions."
  Only the sheet looks at the status, when it fetches the meet; the API adds an
  application to a meet in any status.
- *An update adds a row.* A sheet opened from an edit link and submitted before
  the application was fetched posts a new one, without the duplicate check.
- *A silent decision.* "This attendee has already received a notification about
  this meet. This action will send the following message." Whether the dialog
  appears is read from the page's list, and a message that marks its recipients as
  notified does not fetch that list again: the next decision on the same page is
  stored with no dialog and no mail.

What the exceptions of other properties say of the code (`FreshCodeKept`,
`VerifiedByItsMailbox`, `UntouchedIsKept`, `QuestionsOnlyRemoved`, `KeptUnlessCleared`,
`FormIsItsMeet`, `GoneForGood`, `ShownOnItsDays`, `DotGoesOut`, `PagesHoldAll`) are
weaknesses too. No text in the repository promises otherwise, so they are stated
where the property is and not here.

## Theorems

TLC checks the instances above; TLAPS proves the following for all values of the
constants that satisfy the assumptions the modules name (`LifecycleConstants`,
`SignupConstants`, `AttendeeStatusConstants`, `EmailVerificationConstants`,
`PasswordResetConstants`, `RegistrationConstants`, `MembershipConstants`,
`MeetFormConstants`, `QuestionsConstants`, `TemplateConstants`, `AutoFillConstants`,
`SessionNoAccount`, `MessagesConstants`, `WorkspaceConstants`, `CalendarConstants`,
`ListingConstants`). Of these only one says more than what kind of value a constant
is: `CalendarConstants` wants fewer than 24 changes of the clock within any meet,
which is what the phone's occurrences need, and the clocks go forward once a year.

`MeetLifecycleProofs`:

- `TypeCorrect`: `Spec => []TypeOK`. The invariant is inductive as it stands; the
  one delicate part is `Publication`, whose start is a date: the button is
  enabled only when the form has one.
- `DraftsAreOnlyPublished`: the invariant behind it (`DraftInv`) says that while a
  meet is absent or a draft, no list shows it as anything more, and no confirmation
  dialog, worker's id or lost PATCH is about it; while it is absent, nothing is. For
  a draft the menu offers no more than editing, and a meet never becomes a draft
  again.
- `SettledMeetsStaySettled`: an action property. A step that makes something stale
  about a meet starts from its status as stored (a fresh list, the
  worker's query), and `ShownIn` and `Due` exclude Cancelled and Completed.
- `QuietPassesSettle`: the invariant says that while the pass is undisturbed,
  whatever is due in a step already taken is none, and what is due in the step
  under way is among the ids still to be PATCHed.
- `PublishedHaveDates` (`PublishedWithDates`) assumes one tab (`OneTab`). `DatesInv`
  says that a date which a form or a publication knows of is stored, and that a
  publication has filled in what it has passed; nobody but a tab takes a date away.
  With two tabs it is false: the other tab blanks a date under a publication.

`SignupProofs` proves one invariant, `Base`, from which the others start: types,
what a request in each stage has read and which sheet waits for it, and that a
row with the id of a request exists exactly from its insert on. On top of it

- `TypeCorrect` and `SubmittedIsKept` follow from `Base` alone;
- `OrderIsRespected` adds that the number a request read is at least that of
  every row it saw, and that such rows keep theirs;
- `ChecksPreventDuplicates` adds that, for as long as they are not edited, the
  rows a check saw do not match the contact of the request whose check passed.

`AttendeeStatusProofs`:

- `TypeCorrectness`: with types goes `DialogHasStanding`, that a dialog is about a
  status a mail can tell.
- `NobodyNotifiedUnmailed`: the invariant adds that the mails of a POST that are
  out have reached their attendees; most steps are "quiet" (they send and mark
  nothing), and one lemma covers them all.
- `WithdrawnStays`: an action property; from a fresh view the pages offer nothing
  that would change a withdrawn application.
- `ToldStaysSo` (`ToldIsSo`): `ToldInv` says that, about an attendee who is not
  `mistaken`, at most one handler is under way (`OneHandler`); what that handler
  still has to tell or to store agrees with what was told (`Due`); and when there is
  none, what was told is so (`ToldRight`). `Shape` says which fields of a page are in
  use when.
- `StatusesRefineProtocol`: `Spec => RefinesAttendeeProtocol`, the second refinement.
  Every action is a look, a withdrawal, or the carrying out of an intention. A page's
  intentions grow in one way only, by fetching the list; pressing one of its buttons
  keeps one of them in a dialog or a handler (`DecisionHeld`: what is kept there is one
  of the decisions), and mails, groups and failures add none. A tick adds
  the intention to undo it, which the status it has just stored permits.

`MeetRefinementProofs`: `LifecycleRefinesProtocol`, `Spec => RefinesProtocol`. The
initial states agree, and every action is a look (`LookStep`: no status changes and
whatever is newly intended is permitted), a creation, or the carrying out of an
intention (`CarryOutStep`: nothing new is intended). For each action the lemmas
say which intentions it can add; types are all the invariant it needs.

`AuthProofs`:

- `VerificationTypesHold`, `VerifiedByItsOwnMailbox`, `FreshCodesAreKept` rest on
  `VerificationInv`. Its part `Held` relates what a request holds to the row (the
  address a page saves, codes that were mailed), and `SameMailbox` says that as long as
  no address was changed under a request, every code stored, held or accepted
  was mailed to the address the row has.
- `TriesAreFew` (`FewTries`): `TriesInv` says that below the limit every wrong code
  is counted in the row or about to be, and that from there on every one comes from a
  page that is going to lock, which each page does once.
- `SpentLinksAreDead` rests on `ResetInv`: links are numbered as they are made, the
  stored one is the last, and pages hold links that were made.
- `RegisteredAreLinked`, `LinksAreMadeOnce` rest on `RegistrationInv`: at most one
  request links the applications of a user, who exists and was not linked before,
  and a linked application is its email's user's.
- `RecordsRunModules`: a behaviour of `RecordsSpec`, in which one module moves, is one
  of every module's own specification, so that all theorems about these modules hold
  of the run `records`. `RecordsTypesHold` (`RecordsTypeOK`) is the first to be taken
  over. The same for `browser`: `BrowserRunsModules`, which takes fairness along, and
  `BrowserTypesHold`, in `BrowserProofs`.

`FormProofs`:

- `MembershipTypesHold`.
- `LateWritesAreFew`: `LateInv` says that a user with a late write has no request
  past its check.
- `UntouchedFieldsAreKept`: `FreshInv` says that, where u wrote the membership of v
  last, whatever his page does not hold as old is what is stored.
- `AbandonedStaysAbandoned`: without an administrator no request passes its check.
- `FormsAreTheirMeets` (`FormIsItsMeet`), for any steps of the dialog: the baseline is
  what is stored and only the step that is shown differs from it (`ShownInv`); the form
  that was sent agrees with the row wherever nobody wrote later, and with what is
  shown wherever nobody typed later (`SavedInv`).

`QuestionsProofs`: `QuestionsTypesHold`, `AnswersHaveQuestions`,
`RequiredAreAnswered`, from one invariant: what was fetched is never newer than
what is asked, and equal while nothing was saved since (`UpToDate`), which lets
the foreign key's check decide whether an answer has a question.
`RemovedOnPurpose` (`QuestionsOnlyRemoved`) rests on `TemplatesInv`: what an editor, or a save under way, would take from a template is
excused. `AnswersAreKept` (`KeptUnlessCleared`) rests on `AutoFillInv`, which says the
same of kept answers, and that a form whose save is under way still shows it unless
the form was opened anew.

`BrowserProofs`:

- `SessionTypesHold`, and `GoneStaysGone`, an action property: only a call that is
  refreshing for a user stores his tokens without a sign-in, and a call begins to
  refresh only with tokens that are stored.
- `ListedWereDelivered`, `DotsGoOut` rest on `MessagesInv`: saving waits for
  delivery, and what is unread came to the organizer.
- `OrganizationsAreKept`: of a user who is still being fetched no organization is
  known, so that no effect clears the organization meanwhile.
- `EffectsComeToRest` (`EffectsSettle`): a ranking. `OrganizationRank` (at most 7) and
  `ModeRank` (at most 9) say how many effects the state can still make run; an effect
  of the organization lowers the first and does not raise the second, an effect of
  the mode lowers the second and leaves the first. 7 + 9 = 16 is the bound.
- `CallsOnlyAdvance`: the part of `EveryCallEnds` that is not about fairness. A call
  has at most three answers ahead of it; nobody makes them more, and an answer makes
  them fewer.
- `MeetsAreShownOnTheirDays` (`ShownOnItsDays`), for any months, days and short
  days. On the desktop, the days of a week are those that have one Sunday in common
  (`SundayOfWeek`), so a meet's days in a week are an interval and make one bar
  (`BarsOfWeek`, `OneBarPerWeek`), and the weeks of a grid cover it (`WeeksOfGrid`). On
  the phone, a meet of n days lasts 24 n − c hours with c < 24, and how such a number
  divides by 24 says which day can be missing (`HoursToDays`).
- `PagesHoldEverything` (`PagesHoldAll`), for any rows, page sizes and answers of the
  database. That some answer exists, that is, that a finite set can be sorted, is
  proved without induction: a row's rank is the number of rows not after it
  (`CanBeSorted`). When no two rows start together, that number is also the row's
  place in every answer (`PlaceIsDetermined`), so the same row is on the same page
  whenever it is asked for. No page is missing because whoever may see a row also
  counts it in the total (`TotalIsEnough`).

Only model-checked: liveness (`DueIsServed`, `NoMeetStaysLive`, `EveryCallEnds`), since
fairness and ENABLED are outside the prover. Every invariant and action property of
the passing runs has its theorem. The `violation` runs need none: they show
counterexamples.

## Not modelled

- Images and object storage (`minio.service.ts`), reports and exports: I/O, and pure
  functions of rows read in one query.
- Migrations and seeds, mail server scripts, CI and deployment; only the restart
  policies and the missing retry of the mail hook are used.
- Payments, guests, capacity: the API stores these columns and decides nothing by
  them.
- Creating an organization, its logo and colours; the names, phone and other
  columns of a user; phone numbers with their country codes.
- What is only shown: layout, the preview of a meet, dashboard figures, the
  label of a time to be confirmed.
- Signatures, hashes and the captcha's verdict are external.

## Plan

1. A composition of `AttendeeStatus` with the meet's status: what is left to do
   when closing a meet succeeded and mailing its attendees failed.
