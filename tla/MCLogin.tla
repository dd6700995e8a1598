------------------------------- MODULE MCLogin -------------------------------
(* The panel with two accounts and two sessions.  Accounts and sessions are  *)
(* model values; a name is only ever compared with another.                  *)
EXTENDS Login

CONSTANTS alice, bob, hypr, sway

MCNames == {alice, bob}
MCSessions == {hypr, sway}
=============================================================================
