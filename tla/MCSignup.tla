------------------------------- MODULE MCSignup -------------------------------
(***************************************************************************)
(* Instances of Signup for TLC.                                            *)
(***************************************************************************)
EXTENDS Signup, TLC

\* A guardian and a child share the phone or the email, two other people
\* nothing.
Guardian == [email |-> "e1", phone |-> "p1", minor |-> FALSE]
Child == [email |-> "e1", phone |-> "p2", minor |-> TRUE]
Host == [email |-> "e3", phone |-> "p3", minor |-> FALSE]

Family == {Guardian, Child, Host}

Symmetric == Permutations(Sheets) \cup Permutations(Requests)
=============================================================================
