------------------------ MODULE MCSessionLifecycle ------------------------
(* Three connections of one client: c1 resumes and has a delayed will, c2  *)
(* is a clean session, c3 resumes and may be refused for its keep alive.   *)
EXTENDS SessionLifecycle

CONSTANTS c1, c2, c3
===========================================================================
