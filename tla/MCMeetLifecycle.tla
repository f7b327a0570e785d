--------------------------- MODULE MCMeetLifecycle ---------------------------
(***************************************************************************)
(* Instances of MeetLifecycle for TLC: what organizers may enter.          *)
(***************************************************************************)
EXTENDS MeetRefinement, TLC

\* A meet that starts at once, or a tick later; an end left blank is stored
\* as the start.
TimesNow == {[start |-> 0, end |-> NoDate]}
LateTimes == {[start |-> 1, end |-> NoDate]}

\* Nothing limited.
NoLimits == {[opening |-> NoDate, closing |-> NoDate, waitlistSize |-> 0]}

\* The opening left blank, the rest set.
OneLimit == {[opening |-> NoDate, closing |-> 1, waitlistSize |-> 1]}

TabSymmetry == Permutations(Tabs)
=============================================================================
