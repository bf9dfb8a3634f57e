------------------------------- MODULE MCPages -------------------------------
(* Small instances of Pages for TLC. *)
EXTENDS Pages, TLC

\* One event anybody may join until its deadline, one by approval and without
\* one, and one by invitation with a public address.
Kind(mode, waitlist, deadline, public, permission) ==
  [mode |-> mode, waitlist |-> waitlist, deadline |-> deadline, public |-> public,
   permission |-> permission]

ThreeKinds ==
  {Kind("automatic", TRUE, TRUE, FALSE, "participants"),
   Kind("approval", FALSE, FALSE, FALSE, "group_members"),
   Kind("invite_only", TRUE, TRUE, TRUE, "disabled")}
=============================================================================
