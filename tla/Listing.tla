------------------------------- MODULE Listing --------------------------------
(***************************************************************************)
(* The meets a user is shown: the list, page by page, in its views and     *)
(* with its search, and the dashboard.                                     *)
(*                                                                         *)
(* The API answers with one page of the meets the user may see and a total *)
(* that it counts with another query, which knows nothing of his           *)
(* applications.  Drafts, and what the dashboard asks for, are in no       *)
(* particular order, and so are meets with the same start: each request    *)
(* may find another order.                                                 *)
(*                                                                         *)
(* Simplifications.  A search matches a meet or not.  One organization.    *)
(* Meets are fetched in one step.  What a click on a meet opens is in      *)
(* MeetLifecycle.                                                          *)
(***************************************************************************)
EXTENDS Integers, FiniteSets, Sequences, SequencesExt, FiniteSetsExt

CONSTANTS
    Meets,          \* meets of the organization
    Rows,           \* rows they can have
    NoTime,         \* a time that is not set
    PageSizes,      \* sizes of a page of the list
    DashboardLimit, \* how many meets the dashboard asks for
    LastHour        \* a bound on the time

ASSUME ListingConstants ==
    /\ IsFiniteSet(Meets)
    /\ PageSizes \subseteq Nat \ {0} /\ PageSizes # {}
    /\ DashboardLimit \in Nat \ {0} /\ LastHour \in Nat \ {0}
    /\ NoTime \notin Nat
    /\ Rows \subseteq [start : Nat \cup {NoTime},
                       status : {"draft", "open", "closed", "cancelled"},
                       hidden : BOOLEAN, applied : BOOLEAN, matches : BOOLEAN]

VARIABLES
    row,     \* row[m]; "applied": the user has applied
    now,     \* the time
    role,    \* the user's role
    page,    \* the page he is on
    list,    \* what he has chosen on the list
    shown    \* the meets the page has fetched, and the total

listingVars == <<row, now, role, page, list, shown>>

Views == {"draft", "upcoming", "past"}
List == [view : Views, page : Nat, size : PageSizes,
         query : BOOLEAN, search : BOOLEAN]
FirstList == [view |-> "upcoming", page |-> 0, size |-> Min(PageSizes),
              query |-> FALSE, search |-> FALSE]

NoRows == [meets |-> <<>>, total |-> 0]

ListingInit ==
    /\ row \in [Meets -> Rows]
    /\ now = 1
    /\ role \in {"member", "organizer"}
    /\ page = "dashboard"
    /\ list = FirstList
    /\ shown = NoRows

-------------------------------------------------------------------------------
(* The API. *)

isOrganizer == role = "organizer"

MaySee(r) == isOrganizer \/ ((r.applied \/ r.status = "open") /\ ~r.hidden)
MayCount(r) == isOrganizer \/ ~r.hidden

\* The dashboard's "all", and "my", which the API does not know, are every meet.
InView(r, view) ==
    \/ view = "all"
    \/ view = "draft" /\ r.status = "draft"
    \/ /\ view = "upcoming" /\ r.status \notin {"draft", "cancelled"}
       /\ r.start # NoTime /\ r.start >= now
    \/ /\ view = "past" /\ r.status \notin {"draft", "cancelled"}
       /\ r.start # NoTime /\ r.start < now

Found(view, search) ==
    {m \in Meets : /\ MaySee(row[m]) /\ InView(row[m], view)
                   /\ (search => row[m].matches)}
Total(view, search) ==
    Cardinality({m \in Meets : /\ MayCount(row[m]) /\ InView(row[m], view)
                               /\ (search => row[m].matches)})

InOrder(s, view) ==
    \A i, j \in 1 .. Len(s) : i < j =>
       /\ view = "upcoming" => row[s[i]].start <= row[s[j]].start
       /\ view = "past" => row[s[i]].start >= row[s[j]].start

Orders(view, search) == {s \in SetToSeqs(Found(view, search)) : InOrder(s, view)}

PageFromZero(s, number, limit) ==
    SubSeq(s, number * limit + 1, Min({(number + 1) * limit, Len(s)}))

PageOf(s, number, limit) ==
    SubSeq(s, (number - 1) * limit + 1, Min({number * limit, Len(s)}))

\* What a request may answer.
findAll(view, search, number, limit) ==
    {[meets |-> PageOf(s, number, limit), total |-> Total(view, search)] :
        s \in Orders(view, search)}

-------------------------------------------------------------------------------
(* The pages. *)

totalPages(total) ==
    LET pages == (total + list.size - 1) \div list.size
    IN  IF pages < 1 THEN 1 ELSE pages

useFetchMeets ==
    /\ shown' \in IF page = "dashboard"
                  THEN findAll("all", FALSE, 1, DashboardLimit)
                  ELSE findAll(list.view, list.search, list.page + 1, list.size)
    /\ UNCHANGED <<row, now, role, page, list>>

\* Another list is asked for; until it is there nothing is shown.
Show(l) ==
    /\ list' = l
    /\ shown' = IF [l EXCEPT !.query = FALSE] = [list EXCEPT !.query = FALSE]
                THEN shown ELSE NoRows
    /\ UNCHANGED <<row, now, role, page>>

OnList == page = "list"

setView(v) == OnList /\ Show([list EXCEPT !.view = v, !.page = 0])

TypeSearch == OnList /\ Show([list EXCEPT !.query = ~@])

\* Half a second after he typed.
DebounceSearch ==
    /\ page = "list" /\ list.search # list.query
    /\ Show([list EXCEPT !.search = list.query, !.page = 0])

PreviousPageUnchecked == OnList /\ Show([list EXCEPT !.page = @ - 1])

PreviousPage == OnList /\ list.page > 0 /\ Show([list EXCEPT !.page = @ - 1])

NextPage ==
    /\ OnList
    /\ list.page + 1 < totalPages(shown.total)
    /\ Show([list EXCEPT !.page = @ + 1])

setPageSize(n) == OnList /\ Show([list EXCEPT !.size = n, !.page = 0])

Navigate ==
    /\ page' = IF page = "list" THEN "dashboard" ELSE "list"
    /\ list' = FirstList
    /\ shown' = NoRows
    /\ UNCHANGED <<row, now, role>>

Tick ==
    /\ now < LastHour
    /\ now' = now + 1
    /\ UNCHANGED <<row, role, page, list, shown>>

MeetChanges(m) ==
    /\ row' \in {[row EXCEPT ![m] = r] : r \in Rows}
    /\ UNCHANGED <<now, role, page, list, shown>>

ListingNext ==
    \/ useFetchMeets
    \/ \E v \in Views : setView(v)
    \/ TypeSearch \/ DebounceSearch \/ PreviousPage \/ NextPage
    \/ \E n \in PageSizes : setPageSize(n)
    \/ \E m \in Meets : MeetChanges(m)
    \/ Navigate \/ Tick

ListingSpec == ListingInit /\ [][ListingNext]_listingVars

-------------------------------------------------------------------------------
(* Properties. *)

ListingTypeOK ==
    /\ row \in [Meets -> Rows]
    /\ now \in 1 .. LastHour
    /\ role \in {"member", "organizer"}
    /\ page \in {"list", "dashboard"}
    /\ list \in List
    /\ shown.meets \in Seq(Meets) /\ shown.total \in Nat

\* Whoever turns the pages of a list while nothing changes sees each meet he
\* may see once and no page is missing, whatever the total counts, as long as
\* the order is determined: no two meets start at the same time, and drafts
\* fit on a page (meets.service.ts:114-180, ListPage.tsx:191-192).
PagesHoldAll ==
    LET found == Found(list.view, list.search)
        determined ==
          \/ Cardinality(found) <= list.size
          \/ /\ list.view # "draft"
             /\ \A m, n \in found : row[m].start = row[n].start => m = n
        Pages == 1 .. totalPages(Total(list.view, list.search))
        On(n) == {ToSet(a.meets) :
                    a \in findAll(list.view, list.search, n, list.size)}
    IN  determined =>
          /\ found = UNION {UNION On(n) : n \in Pages}
          /\ \A m, n \in Pages :
                m # n => \A a \in On(m), b \in On(n) : a \cap b = {}
=============================================================================
