--------------------------- MODULE MCAttendeeStatus ---------------------------
(***************************************************************************)
(* Instances of AttendeeStatus for TLC.                                    *)
(***************************************************************************)
EXTENDS AttendeeRefinement, TLC

\* Two of the three decisions: waitlisting and rejecting differ only in what
\* the mail says.
TwoDecisions == {"confirmed", "rejected"}

Symmetric == Permutations(Organizers) \cup Permutations(Attendees)
=============================================================================
