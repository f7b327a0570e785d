------------------------------- MODULE Calendar -------------------------------
(***************************************************************************)
(* The calendar page: on which days of a month it shows which meets, in    *)
(* its desktop grid and in its two views for phones, and what opens when   *)
(* something is clicked.                                                   *)
(*                                                                         *)
(* The desktop draws a meet that ends on a later day than it starts as one *)
(* bar per week, any other meet in the cell of its first day.  The phone   *)
(* makes an occurrence for each day of a meet, as many as the time between *)
(* two midnights divided by 24 hours gives, and takes an end at midnight   *)
(* for the end of the day before.                                          *)
(*                                                                         *)
(* Days are numbered, day 0 is a Sunday.  A day on which the clocks go     *)
(* forward has 23 hours.  Of a time only its day is kept, and of an end    *)
(* also whether it is midnight.  Names, colours and the rows of the bars   *)
(* are left out.                                                           *)
(***************************************************************************)
EXTENDS Integers, Sequences, FiniteSets, FiniteSetsExt

CONSTANTS
    Days,       \* days on which meets start and end
    FirstDay,   \* FirstDay[m]: the first day of month m; months are 1 .. n
    ShortDays,  \* days of 23 hours
    NoDay,      \* a time that is not set, or is none
    CalendarMeets, NoMeet

\* The clocks go forward once a year, and no meet lasts for 24 years.
ASSUME CalendarConstants ==
    /\ Days \subseteq Int
    /\ FirstDay \in Seq(Int) /\ Len(FirstDay) > 1
    /\ \A a, b \in Days : Cardinality(ShortDays \cap (a .. b - 1)) < 24
    /\ NoDay \notin Int
    /\ NoMeet \notin CalendarMeets

VARIABLES
    meet,   \* meet[m]: the meets the page has fetched
    month,  \* the month it shows
    phone,  \* whether the window is as narrow as a phone's
    view,   \* the phone's view
    drawer, \* the day whose drawer is open
    info    \* the meet whose dialog is open

calendarVars == <<meet, month, phone, view, drawer, info>>

Months == 1 .. Cardinality(DOMAIN FirstDay) - 1
Times == [start : Days \cup {NoDay}, end : Days \cup {NoDay}, midnight : BOOLEAN]

startOfMonth(m) == FirstDay[m]
endOfMonth(m) == FirstDay[m + 1] - 1
Weekday(d) == d % 7

\* Six weeks, from the Sunday on or before the first of the month.
GridStart(m) == startOfMonth(m) - Weekday(startOfMonth(m))
getMonthGrid(m) == GridStart(m) .. GridStart(m) + 41
chunkWeeks(m) ==
    {GridStart(m) + 7 * i .. GridStart(m) + 7 * i + 6 : i \in 0 .. 5}

-------------------------------------------------------------------------------
(* The desktop. *)

LaterEnd(t) == t.start # NoDay /\ t.end # NoDay /\ t.end > t.start

multiDayMeetsByDay(d) ==
    {m \in CalendarMeets :
        LaterEnd(meet[m]) /\ d \in meet[m].start .. meet[m].end}

singleDayMeetsByDay(d) ==
    {m \in CalendarMeets : ~LaterEnd(meet[m]) /\ meet[m].start = d}

\* The bars of a week: the items with the same meet and the same Sunday, from
\* the column of the first to the column of the last.
weekGroups(week) ==
    LET items == {i \in CalendarMeets \X week :
                    i[1] \in multiDayMeetsByDay(i[2])}
        Sunday(d) == d - Weekday(d)
        Group(i) == {d \in week :
                       /\ <<i[1], d>> \in items
                       /\ Sunday(d) = Sunday(i[2])}
    IN  {[meet |-> i[1], days |-> Min(Group(i)) .. Max(Group(i))] : i \in items}

-------------------------------------------------------------------------------
(* The phone. *)

\* Hours between the midnights at which two days begin.
Hours(a, b) == 24 * (b - a) - Cardinality(ShortDays \cap (a .. b - 1))

differenceInDays(a, b) ==
    LET n == Hours(a, b) \div 24 IN IF n < 1 THEN 1 ELSE n

differenceInDaysInclusive(a, b) ==
    LET n == Hours(a, b) \div 24 + 1 IN IF n < 1 THEN 1 ELSE n

\* The last day, as it is counted from.
EndDay(t) ==
    IF t.end = NoDay \/ t.end <= t.start THEN t.start
    ELSE IF t.midnight THEN t.end - 1 ELSE t.end

Occurrences(m) ==
    LET t == meet[m]
        total == differenceInDaysInclusive(t.start, EndDay(t))
    IN  IF t.start = NoDay THEN {}
        ELSE {[meet |-> m, day |-> t.start + i, index |-> i + 1, total |-> total,
               isStart |-> i = 0, isEnd |-> i = total - 1] : i \in 0 .. total - 1}

occurrencesByDayKey(d) ==
    {o \in UNION {Occurrences(m) : m \in CalendarMeets} : o.day = d}

\* An occurrence is marked by what its card says, and in the month's cells.
getOccurrencePhaseLabel(o) ==
    IF o.isStart /\ ~o.isEnd THEN "Starts"
    ELSE IF o.isEnd /\ ~o.isStart THEN "Ends"
    ELSE IF ~o.isStart THEN "Continues" ELSE "time"

agendaDayKeys == startOfMonth(month) .. endOfMonth(month)
hasVisibleOccurrences == \E d \in agendaDayKeys : occurrencesByDayKey(d) # {}

-------------------------------------------------------------------------------
(* The page. *)

Bars == UNION {weekGroups(week) : week \in chunkWeeks(month)}

DesktopDays(m) ==
    {d \in getMonthGrid(month) : m \in singleDayMeetsByDay(d)}
       \cup UNION {bar.days : bar \in {b \in Bars : b.meet = m}}

PhoneDays(m) == {o.day : o \in Occurrences(m)}

CalendarInit ==
    /\ meet \in [CalendarMeets -> Times]
    /\ month = 1
    /\ phone \in BOOLEAN
    /\ view = "agenda"
    /\ drawer = NoDay
    /\ info = NoMeet

addMonths(m) ==
    /\ drawer = NoDay /\ info = NoMeet
    /\ m \in Months /\ m \in {month - 1, month + 1}
    /\ month' = m
    /\ UNCHANGED <<meet, phone, view, drawer, info>>

setMobileView(v) ==
    /\ phone /\ drawer = NoDay /\ info = NoMeet
    /\ view' = v
    /\ UNCHANGED <<meet, month, phone, drawer, info>>

openDayDrawer(d) ==
    /\ phone /\ view = "month" /\ drawer = NoDay /\ info = NoMeet
    /\ d \in getMonthGrid(month)
    /\ drawer' = d
    /\ UNCHANGED <<meet, month, phone, view, info>>

closeDrawer ==
    /\ drawer # NoDay
    /\ drawer' = NoDay
    /\ UNCHANGED <<meet, month, phone, view, info>>

\* A card of the agenda or of the drawer, which it closes.
renderOccurrenceCard(m) ==
    /\ info = NoMeet
    /\ \/ /\ phone /\ view = "agenda" /\ drawer = NoDay
          /\ PhoneDays(m) \cap agendaDayKeys # {}
       \/ drawer # NoDay /\ \E o \in occurrencesByDayKey(drawer) : o.meet = m
    /\ info' = m
    /\ drawer' = NoDay
    /\ UNCHANGED <<meet, month, phone, view>>

\* A bar or an item of a cell.
setSelectedMeet(m) ==
    /\ ~phone /\ drawer = NoDay /\ info = NoMeet
    /\ DesktopDays(m) # {}
    /\ info' = m
    /\ UNCHANGED <<meet, month, phone, view, drawer>>

closeInfo ==
    /\ info # NoMeet
    /\ info' = NoMeet
    /\ UNCHANGED <<meet, month, phone, view, drawer>>

\* The window is resized; what is open stays open.
Resize ==
    /\ phone' = ~phone
    /\ UNCHANGED <<meet, month, view, drawer, info>>

CalendarNext ==
    \/ \E m \in Months : addMonths(m)
    \/ \E v \in {"agenda", "month"} : setMobileView(v)
    \/ \E d \in getMonthGrid(month) : openDayDrawer(d)
    \/ \E m \in CalendarMeets : renderOccurrenceCard(m) \/ setSelectedMeet(m)
    \/ closeDrawer \/ closeInfo
    \/ Resize

CalendarSpec == CalendarInit /\ [][CalendarNext]_calendarVars

-------------------------------------------------------------------------------
(* Properties. *)

CalendarTypeOK ==
    /\ meet \in [CalendarMeets -> Times]
    /\ month \in Months
    /\ phone \in BOOLEAN
    /\ view \in {"agenda", "month"}
    /\ drawer \in Int \cup {NoDay}
    /\ info \in CalendarMeets \cup {NoMeet}

Dated == {m \in CalendarMeets : meet[m].start # NoDay}

\* The days of a meet: from its start to its end, or its start alone.
DaysOf(t) ==
    t.start .. (IF t.end = NoDay \/ t.end < t.start THEN t.start ELSE t.end)

ClocksForward(t) == ShortDays \cap (t.start .. EndDay(t) - 1) # {}

\* The desktop shows a meet on exactly its days, whichever weeks and months
\* they lie in, and as one bar per week.  The phone shows it on the same days,
\* but for the day at whose midnight it ends, and for the last one when the
\* clocks go forward during the meet (CalendarPage.tsx:55-59, 122-183,
\* 201-257, 650-684).
ShownOnItsDays ==
    \A m \in Dated :
       LET t == meet[m]
           missing == (IF t.midnight THEN {t.end} ELSE {})
                         \cup (IF ClocksForward(t) THEN {EndDay(t)} ELSE {})
       IN  /\ DesktopDays(m) = DaysOf(t) \cap getMonthGrid(month)
           /\ \A week \in chunkWeeks(month) :
                 Cardinality({bar \in weekGroups(week) : bar.meet = m}) <= 1
           /\ PhoneDays(m) \subseteq DaysOf(t)
           /\ DaysOf(t) \subseteq PhoneDays(m) \cup (missing \ {t.start})
=============================================================================
