------------------------- MODULE ExclusiveWorkspace -------------------------
(***************************************************************************)
(* What the Git lease of a thread promises: a workspace that one user at a  *)
(* time may change.  How the lease is kept, lost, expired or recovered, and *)
(* what the users do with the workspace, is left to the implementation.     *)
(***************************************************************************)
CONSTANTS
  Users,    \* those who work on the workspace
  Nobody    \* stands for no user; not one of Users

VARIABLES
  holder,   \* who may change the workspace
  shared    \* the workspace and what is recorded of it

vars == <<holder, shared>>

Init == holder = Nobody

Enter(u) ==
  /\ holder = Nobody
  /\ holder' = u
  /\ UNCHANGED shared

Change(u) ==
  /\ holder = u
  /\ UNCHANGED holder

Leave(u) ==
  /\ holder = u
  /\ holder' = Nobody
  /\ UNCHANGED shared

Next == \E u \in Users : Enter(u) \/ Change(u) \/ Leave(u)

Spec == Init /\ [][Next]_vars
=============================================================================
